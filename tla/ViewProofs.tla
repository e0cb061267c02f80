------------------------------ MODULE ViewProofs ------------------------------
(***************************************************************************)
(* Proofs about what the pages of the console read and show, for any rows, *)
(* requests, lists and bounds.                                             *)
(***************************************************************************)
EXTENDS Integers, FiniteSetTheorems, SequenceTheorems, TLAPS

CONSTANTS
  None, ListRows, ListCalls, ListPage, MaxListInputs, MaxListErrors, Providers, Prefixes,
  Sizes, Default, MaxPages, MaxObjectInputs, MaxObjectErrors, Unborn, Tenants,
  TenantKeywords, TenantPage, MaxTenantInputs, CodesRequests, MaxAssigns, MaxCodesErrors,
  Count, Header, NoticeKeys, FirstKey, NoticeCalls, MaxTurns, MaxBarInputs, MaxBarErrors,
  MaxRightsInputs

VARIABLES
  view, lists, filter, wanted, page, screen, question, action, blind, shrunk, spent,
  setting, settled, tokens, at, listing, asking, early, tries, above, alive, keyword,
  pageOf, expanded, chosen, shownRows, asked, job, missed, ghost, adrift, troubled, turns,
  fetched, rows, cache, request, errors, raced, lost, version, emits, stream, signals, shown,
  answer, listed, mark, behind, troubles, side, menus, grants, trees, clearing, load, nav,
  groupCode, staled, faults, moves, desk, granted, context, header, branch, task, outcome,
  used

List == INSTANCE PagedList WITH
  Rows <- ListRows, Calls <- ListCalls, PageSize <- ListPage, MaxInputs <- MaxListInputs,
  MaxErrors <- MaxListErrors
Objects == INSTANCE CursorPage WITH
  MaxInputs <- MaxObjectInputs, MaxErrors <- MaxObjectErrors
Directory == INSTANCE TenantTree WITH
  Keywords <- TenantKeywords, Size <- TenantPage, MaxInputs <- MaxTenantInputs
Codes == INSTANCE RoleCodes WITH
  MaxErrors <- MaxCodesErrors, Requests <- CodesRequests
Notices == INSTANCE Inbox WITH
  Keys <- NoticeKeys, Calls <- NoticeCalls
Bars == INSTANCE Navigation WITH
  MaxInputs <- MaxBarInputs, MaxErrors <- MaxBarErrors
Rights == INSTANCE RowMenus WITH
  MaxInputs <- MaxRightsInputs

---------------------------------------------------------------------------
(* PagedList: the lists in pages, whose rows are answers to earlier questions *)

\* How many rows the server has under a filter, and how many are before a page.
Size(f) == Cardinality(lists[f])
Skipped(p) == p * ListPage

\* An answer that is what the server would say now.
Current(reply) ==
  /\ reply.filter \in List!Filters
  /\ reply.total = Size(reply.filter)
  /\ reply.ids = List!Answered(reply.filter, reply.page).ids

Ended(c) == action[c].st \in {"served", "settling"}

\* An answer is to the question of the controls' key, and what is settled is an answer.
KeyInv ==
  /\ question.st = "idle" => screen.filter = wanted /\ screen.page = page
  /\ question.st = "served" => question.answer.filter = wanted /\ question.answer.page = page

\* While nothing was removed unseen, an answer is only behind a removal that the page
\* has not asked about yet.
ListFreshInv ==
  ~shrunk /\ (\A c \in ListCalls : action[c].st # "served") =>
    /\ question.st = "served" => Current(question.answer)
    /\ question.st = "idle" => Current(screen)

\* An action on a row of the page knows whether that row is the last of it.
SeenInv ==
  ~shrunk =>
    \A c \in ListCalls : action[c].st = "sent" /\ action[c].seen =>
      /\ \A d \in ListCalls : d # c => ~Ended(d)
      /\ ~blind /\ page > 0 =>
           /\ action[c].filter = filter /\ action[c].page = page
           /\ Size(filter) = Skipped(page) + 1 => action[c].single

\* The page has rows, or the one action that took its last row will step back.
PlaceInv ==
  ~shrunk /\ ~blind /\ page > 0 =>
    \/ Skipped(page) < Size(filter)
    \/ /\ Size(filter) = Skipped(page)
       /\ \E c \in ListCalls :
            /\ Ended(c) /\ \A d \in ListCalls : d # c => ~Ended(d)
            /\ action[c].filter = filter /\ action[c].page = page
            /\ List!StepsBack(action[c])

ListInv == List!TypeOK /\ KeyInv /\ ListFreshInv /\ SeenInv /\ PlaceInv

LEMMA ListCardinality == ASSUME NEW S PROVE List!Cardinality(S) = Cardinality(S)
  BY DEF List!Cardinality, Cardinality

LEMMA RowsFinite ==
  ASSUME List!ConstantsOK
  PROVE  /\ IsFiniteSet(ListRows) /\ ListRows \subseteq Int /\ ListRows # {} /\ None \notin ListRows
         /\ ListPage \in Nat \ {0} /\ List!PageIndexes = 0 .. Cardinality(ListRows)
         /\ Cardinality(ListRows) \in Nat \ {0}
<1>1. /\ IsFiniteSet(ListRows) /\ ListRows \subseteq Int /\ ListRows # {} /\ None \notin ListRows
      /\ ListPage \in Nat \ {0}
  BY DEF List!ConstantsOK, List!IsFiniteSet, IsFiniteSet
<1>2. List!PageIndexes = 0 .. Cardinality(ListRows)
  BY ListCardinality DEF List!PageIndexes
<1>3. Cardinality(ListRows) \in Nat /\ Cardinality(ListRows) # 0
  BY <1>1, FS_CardinalityType, FS_EmptySet
<1>4. QED
  BY <1>1, <1>2, <1>3

LEMMA ListSizes ==
  ASSUME List!ConstantsOK, lists \in [List!Filters -> SUBSET ListRows], NEW f \in List!Filters
  PROVE  /\ IsFiniteSet(lists[f]) /\ Size(f) \in 0 .. Cardinality(ListRows)
         /\ lists[f] \in SUBSET Int
<1>1. lists[f] \in SUBSET ListRows
  OBVIOUS
<1>2. IsFiniteSet(lists[f]) /\ Cardinality(lists[f]) <= Cardinality(ListRows)
  BY <1>1, RowsFinite, FS_Subset
<1>3. Cardinality(lists[f]) \in Nat
  BY <1>2, FS_CardinalityType
<1>4. QED
  BY <1>1, <1>2, <1>3, RowsFinite DEF Size

Rank(L, r) == Cardinality({q \in L : q > r})

\* Each place from the newest row to the oldest is that of one row.
LEMMA Ranks ==
  ASSUME NEW L \in SUBSET Int, IsFiniteSet(L)
  PROVE  /\ \A r \in L : Rank(L, r) \in 0 .. Cardinality(L) - 1
         /\ \A r \in L, s \in L : Rank(L, r) = Rank(L, s) => r = s
         /\ \A k \in 0 .. Cardinality(L) - 1 : \E r \in L : Rank(L, r) = k
<1> DEFINE higher(r) == {q \in L : q > r}
           rank == [r \in L |-> Rank(L, r)]
           places == 0 .. Cardinality(L) - 1
<1>1. Cardinality(L) \in Nat
  BY FS_CardinalityType
<1>2. ASSUME NEW r \in L PROVE IsFiniteSet(higher(r)) /\ Rank(L, r) \in places
  <2>1. higher(r) \in SUBSET L /\ r \notin higher(r)
    OBVIOUS
  <2>2. IsFiniteSet(higher(r)) /\ Cardinality(higher(r)) <= Cardinality(L)
    BY <2>1, FS_Subset
  <2>3. Cardinality(higher(r)) # Cardinality(L)
    BY <2>1, FS_Subset
  <2>4. Cardinality(higher(r)) \in Nat
    BY <2>2, FS_CardinalityType
  <2>5. QED
    BY <1>1, <2>2, <2>3, <2>4 DEF Rank
<1>3. ASSUME NEW r \in L, NEW s \in L, r < s PROVE Rank(L, s) < Rank(L, r)
  <2>1. higher(s) \in SUBSET higher(r) /\ s \in higher(r) /\ s \notin higher(s)
    <3>1. r \in Int /\ s \in Int
      OBVIOUS
    <3>2. ASSUME NEW q \in L, q > s PROVE q > r
      <4>1. q \in Int
        OBVIOUS
      <4>2. QED
        BY <1>3, <3>1, <3>2, <4>1
    <3>3. ~(s > s) /\ s > r
      BY <1>3, <3>1
    <3>4. QED
      BY <3>2, <3>3
  <2>2. IsFiniteSet(higher(r))
    BY <1>2
  <2>3. Cardinality(higher(s)) <= Cardinality(higher(r)) /\ Cardinality(higher(s)) # Cardinality(higher(r))
    BY <2>1, <2>2, FS_Subset
  <2>4. Rank(L, s) \in places /\ Rank(L, r) \in places
    BY <1>2
  <2>5. QED
    BY <1>1, <2>3, <2>4 DEF Rank
<1>4. \A r \in L, s \in L : Rank(L, r) = Rank(L, s) => r = s
  <2>1. ASSUME NEW r \in L, NEW s \in L, Rank(L, r) = Rank(L, s), r # s PROVE FALSE
    <3>1. r < s \/ s < r
      BY <2>1
    <3>2. Rank(L, r) \in places /\ Rank(L, s) \in places
      BY <1>2
    <3>3. QED
      BY <1>1, <1>3, <2>1, <3>1, <3>2
  <2>2. QED
    BY <2>1
<1>5. rank \in Injection(L, places)
  <2>1. rank \in [L -> places]
    BY <1>2
  <2>2. \A r \in L, s \in L : rank[r] = rank[s] => r = s
    BY <1>4
  <2> HIDE DEF rank, places
  <2>3. QED
    BY <2>1, <2>2 DEF Injection, IsInjective
<1>6. IsFiniteSet(places) /\ Cardinality(places) = Cardinality(L)
  BY <1>1, FS_Interval
<1>7. rank \in Surjection(L, places)
  BY <1>5, <1>6, FS_Injection
<1>8. \A k \in places : \E r \in L : Rank(L, r) = k
  BY <1>7 DEF Surjection
<1>9. QED
  BY <1>2, <1>4, <1>8

\* A page has rows if there are more than it skips; the last row is alone on its page.
LEMMA PageRows ==
  ASSUME List!ConstantsOK, lists \in [List!Filters -> SUBSET ListRows],
         NEW f \in List!Filters, NEW p \in Nat
  PROVE  /\ List!Answered(f, p).ids \in SUBSET lists[f]
         /\ List!Answered(f, p).total = Size(f)
         /\ List!Answered(f, p).ids # {} <=> Skipped(p) < Size(f)
         /\ Size(f) = Skipped(p) + 1 => Cardinality(List!Answered(f, p).ids) = 1
<1> DEFINE L == lists[f]
           S == List!Answered(f, p).ids
<1>1. PICK from \in Nat : from = p * ListPage
  BY RowsFinite
<1>2. PICK to \in Nat : to = (p + 1) * ListPage /\ from < to
  <2>1. (p + 1) * ListPage = from + ListPage
    BY <1>1, RowsFinite
  <2>2. QED
    BY <1>1, <2>1, RowsFinite
<1>3. IsFiniteSet(L) /\ L \in SUBSET Int /\ Cardinality(L) \in Nat
  BY ListSizes, RowsFinite DEF Size
<1>4. \A r \in L : List!Before(f, r) = Rank(L, r)
  BY ListCardinality DEF List!Before, Rank
<1>5. S = {r \in L : Rank(L, r) >= from /\ Rank(L, r) < to}
  <2>1. S = {r \in L : List!Before(f, r) >= from /\ List!Before(f, r) < to}
    BY <1>1, <1>2 DEF List!Answered
  <2>2. QED
    BY <1>4, <2>1
<1>6. List!Answered(f, p).total = Cardinality(L)
  BY ListCardinality DEF List!Answered
<1> HIDE DEF S, L
<1>7. /\ \A r \in L : Rank(L, r) \in 0 .. Cardinality(L) - 1
      /\ \A r \in L, s \in L : Rank(L, r) = Rank(L, s) => r = s
      /\ \A k \in 0 .. Cardinality(L) - 1 : \E r \in L : Rank(L, r) = k
  BY <1>3, Ranks
<1>8. ASSUME from < Cardinality(L) PROVE S # {}
  <2>1. PICK r \in L : Rank(L, r) = from
    BY <1>1, <1>3, <1>7, <1>8
  <2>2. QED
    BY <1>1, <1>2, <1>5, <2>1
<1>9. ASSUME S # {} PROVE from < Cardinality(L)
  <2>1. PICK r \in L : Rank(L, r) >= from
    BY <1>5, <1>9
  <2>2. QED
    BY <1>1, <1>3, <1>7, <2>1
<1>10. ASSUME Cardinality(L) = from + 1 PROVE Cardinality(S) = 1
  <2>1. PICK r \in L : Rank(L, r) = from
    BY <1>1, <1>3, <1>7, <1>10
  <2>2. ASSUME NEW s \in L, Rank(L, s) >= from PROVE s = r
    <3>1. Rank(L, s) = from
      BY <1>1, <1>3, <1>7, <1>10, <2>2
    <3>2. QED
      BY <1>7, <2>1, <3>1
  <2>3. S = {r}
    BY <1>1, <1>2, <1>5, <2>1, <2>2
  <2>4. QED
    BY <2>3, FS_Singleton
<1>11. QED
  BY <1>1, <1>5, <1>6, <1>8, <1>9, <1>10 DEF S, L, Size, Skipped

\* A page is skipped before the next, so one page less skips fewer rows.
LEMMA PagesGrow ==
  ASSUME List!ConstantsOK, NEW p \in Nat
  PROVE  /\ Skipped(p) \in Nat /\ Skipped(0) = 0
         /\ Skipped(p + 1) = Skipped(p) + ListPage /\ Skipped(p) < Skipped(p + 1)
<1>1. ListPage \in Nat \ {0}
  BY RowsFinite
<1>2. p * ListPage \in Nat /\ (p + 1) * ListPage = p * ListPage + ListPage
  BY <1>1
<1>3. QED
  BY <1>1, <1>2 DEF Skipped

\* The pages that are counted have rows.
LEMMA CountedPages ==
  ASSUME List!ConstantsOK, NEW total \in Nat, NEW p \in Nat, p < List!PageCount(total), p > 0
  PROVE  Skipped(p) < total
<1>1. ListPage \in Nat /\ ListPage > 0
  BY RowsFinite
<1>2. total # 0
  BY DEF List!PageCount
<1>3. PICK q \in Int : q = (total + ListPage - 1) \div ListPage
  BY <1>1
<1>4. p <= q - 1
  BY <1>2, <1>3 DEF List!PageCount
<1>5. ListPage * q <= total + ListPage - 1
  BY <1>1, <1>3
<1>6. p * ListPage <= (q - 1) * ListPage
  BY <1>1, <1>4
<1>7. (q - 1) * ListPage = ListPage * q - ListPage
  BY <1>1
<1>8. QED
  BY <1>1, <1>5, <1>6, <1>7 DEF Skipped

\* What the pages are and do.
LEMMA ViewFacts ==
  ASSUME view \in List!Views
  PROVE  /\ view.stepsBack \in BOOLEAN /\ view.debounced \in BOOLEAN /\ view.pagerWaits \in BOOLEAN
         /\ \A leaves \in view.acts : leaves \in SUBSET List!Filters
<1> DEFINE Fine(v) ==
             /\ v.stepsBack \in BOOLEAN /\ v.debounced \in BOOLEAN /\ v.pagerWaits \in BOOLEAN
             /\ \A leaves \in v.acts : leaves \in SUBSET List!Filters
<1>1. Fine(List!UsersPage)
  BY DEF List!UsersPage
<1>2. Fine(List!TenantApplyPage)
  BY DEF List!TenantApplyPage, List!UsersPage, List!Filters
<1>3. Fine(List!OperationLogsPage)
  BY DEF List!OperationLogsPage, List!UsersPage
<1>4. Fine(List!InboxPage)
  BY DEF List!InboxPage, List!Filters
<1> HIDE DEF Fine
<1>5. Fine(view)
  BY <1>1, <1>2, <1>3, <1>4
     DEF List!Views, List!OAuthClientsPage, List!AuditLogsPage, List!SystemLogsPage
<1>6. QED
  BY <1>5 DEF Fine

Questions == [st : {"idle", "sent", "served"}, answer : List!Answers]
RowActions ==
  [st : {"none", "sent", "served", "settling"}, row : ListRows \cup {None},
   leaves : SUBSET List!Filters, filter : List!Filters \cup {None}, page : List!PageIndexes,
   single : BOOLEAN, seen : BOOLEAN]

LEMMA ListRecords ==
  ASSUME List!TypeOK
  PROVE  /\ lists \in [List!Filters -> SUBSET ListRows] /\ view \in List!Views
         /\ filter \in List!Filters /\ wanted \in List!Filters /\ page \in List!PageIndexes
         /\ screen \in List!Answers /\ question \in Questions
         /\ action \in [ListCalls -> RowActions] /\ blind \in BOOLEAN /\ shrunk \in BOOLEAN
  BY DEF List!TypeOK, Questions, RowActions

LEMMA NothingListed ==
  ASSUME List!ConstantsOK
  PROVE  /\ List!Blank \in List!Answers /\ List!Blank.filter = None
         /\ List!NoQuestion \in Questions /\ List!NoQuestion.st = "idle"
         /\ List!Asked \in Questions /\ List!Asked.st = "sent"
         /\ List!NoAction \in RowActions /\ List!NoAction.st = "none"
<1>1. 0 \in List!PageIndexes
  BY RowsFinite
<1>2. List!Blank \in List!Answers /\ List!Blank.filter = None
  BY <1>1 DEF List!Blank, List!Answers
<1>3. List!NoAction \in RowActions /\ List!NoAction.st = "none"
  BY <1>1 DEF List!NoAction, RowActions
<1>4. List!NoQuestion \in Questions /\ List!NoQuestion.st = "idle"
  BY <1>2 DEF List!NoQuestion, Questions
<1>5. List!Asked \in Questions /\ List!Asked.st = "sent"
  BY <1>2, <1>4 DEF List!Asked, List!NoQuestion, Questions
<1>6. QED
  BY <1>2, <1>3, <1>4, <1>5

\* Nothing has been asked, and only the URL can have set the page.
LEMMA ListInit == ASSUME List!ConstantsOK, List!Init PROVE ListInv
<1>1. lists \in [List!Filters -> SUBSET ListRows]
  BY DEF List!Init
<1>2. action \in [ListCalls -> RowActions] /\ \A c \in ListCalls : action[c].st = "none"
  BY NothingListed DEF List!Init
<1>3. page \in List!PageIndexes
  <2>1. page \in {0, 1}
    BY DEF List!Init
  <2>2. QED
    BY <2>1, RowsFinite
<1>4. blind = (page > 0)
  BY DEF List!Init
<1>5. blind \in BOOLEAN /\ (blind <=> page > 0)
  <2>1. CASE page > 0
    BY <1>4, <2>1
  <2>2. CASE ~(page > 0)
    <3>1. FALSE = (page > 0)
      BY <2>2
    <3>2. QED
      BY <1>4, <2>2, <3>1
  <2>3. QED
    BY <2>1, <2>2
<1>6. List!TypeOK
  BY <1>1, <1>2, <1>3, <1>5, NothingListed
     DEF List!Init, List!TypeOK, List!Filters, Questions, RowActions
<1>7. KeyInv /\ ListFreshInv
  BY NothingListed DEF List!Init, KeyInv, ListFreshInv
<1>8. SeenInv
  BY <1>2 DEF SeenInv
<1>9. PlaceInv
  BY <1>5 DEF PlaceInv
<1>10. QED
  BY <1>6, <1>7, <1>8, <1>9 DEF ListInv

LEMMA SizesSame ==
  ASSUME UNCHANGED lists
  PROVE  (\A f : Size(f)' = Size(f)) /\ (\A p : Skipped(p)' = Skipped(p))
  BY DEF Size, Skipped

\* What is known of the rows lasts while they, the answers and the actions do.
LEMMA AnswersSame ==
  ASSUME ListInv, UNCHANGED <<lists, screen, action, shrunk>>,
         question'.st = "sent" \/ UNCHANGED <<question, wanted, page>>
  PROVE  KeyInv' /\ ListFreshInv'
<1>1. KeyInv'
  BY DEF ListInv, KeyInv
<1>2. ListFreshInv'
  <2>1. CASE question'.st = "sent"
    BY <2>1 DEF ListFreshInv
  <2>2. CASE UNCHANGED question
    BY <2>2 DEF ListInv, ListFreshInv, Current, Size, List!Answered, List!Before
  <2>3. QED
    BY <2>1, <2>2
<1>3. QED
  BY <1>1, <1>2

LEMMA PlacesSame ==
  ASSUME ListInv, UNCHANGED <<view, lists, action, shrunk>>,
         page' = 0 \/ blind' = TRUE \/ UNCHANGED <<filter, page, blind>>
  PROVE  SeenInv' /\ PlaceInv'
<1>1. CASE page' = 0 \/ blind' = TRUE
  <2>1. SeenInv'
    BY <1>1 DEF ListInv, SeenInv, Ended
  <2>2. PlaceInv'
    BY <1>1 DEF PlaceInv
  <2>3. QED
    BY <2>1, <2>2
<1>2. CASE UNCHANGED <<filter, page, blind>>
  <2>1. Size(filter)' = Size(filter) /\ Skipped(page)' = Skipped(page)
    BY <1>2 DEF Size, Skipped
  <2>2. SeenInv'
    BY <1>2, <2>1 DEF ListInv, SeenInv, Ended, Size, Skipped
  <2>3. PlaceInv'
    BY <1>2, <2>1 DEF ListInv, PlaceInv, Ended, List!StepsBack, Size, Skipped
  <2>4. QED
    BY <2>2, <2>3
<1>3. QED
  BY <1>1, <1>2

\* What a turn of the pages leaves.
LEMMA Turned ==
  ASSUME NEW p \in Nat, NEW unseen \in BOOLEAN, List!TypeOK, List!Turn(p, unseen)
  PROVE  page' = p /\ blind' \in BOOLEAN /\ (blind' <=> p > 0 /\ (blind \/ unseen))
<1>1. page' = p /\ blind' = (p > 0 /\ (blind \/ unseen))
  BY DEF List!Turn
<1>2. CASE p > 0 /\ (blind \/ unseen)
  BY <1>1, <1>2
<1>3. CASE ~(p > 0 /\ (blind \/ unseen))
  BY <1>1, <1>3
<1>4. QED
  BY <1>1, <1>2, <1>3

\* A filter, which starts on the first page, or a question for what is filtered.
LEMMA FilterStep ==
  ASSUME List!ConstantsOK, ListInv,
         List!Debounce \/ List!Refresh \/ \E f \in List!Filters : List!SetFilter(f)
  PROVE  ListInv'
<1>1. /\ UNCHANGED <<view, lists, screen, action, shrunk>>
      /\ filter' \in List!Filters /\ wanted' \in List!Filters
      /\ UNCHANGED <<filter, page, blind>> \/ (page' = 0 /\ blind' = FALSE)
      /\ question' = List!Asked \/ UNCHANGED <<question, wanted, page>>
  <2>1. CASE List!Debounce \/ List!Refresh
    BY <2>1 DEF List!Debounce, List!Refresh, List!Ask, ListInv, List!TypeOK
  <2>2. ASSUME NEW f \in List!Filters, List!SetFilter(f)
        PROVE  /\ UNCHANGED <<view, lists, screen, action, shrunk>>
               /\ filter' \in List!Filters /\ wanted' \in List!Filters
               /\ page' = 0 /\ blind' = FALSE
               /\ question' = List!Asked \/ UNCHANGED <<question, wanted, page>>
    <3>1. wanted' \in List!Filters /\ filter' \in List!Filters
      BY <2>2 DEF List!SetFilter, ListInv, List!TypeOK
    <3>2. page' = 0 /\ blind' = FALSE
      <4>1. List!Turn(0, FALSE)
        BY <2>2 DEF List!SetFilter
      <4>2. page' = 0 /\ (blind' <=> 0 > 0 /\ (blind \/ FALSE))
        BY <4>1, Turned DEF ListInv
      <4>3. blind' \in BOOLEAN
        BY <4>1, Turned DEF ListInv
      <4>4. QED
        BY <4>2, <4>3
    <3>3. question' = List!Asked \/ UNCHANGED <<question, wanted, page>>
      BY <2>2 DEF List!SetFilter, List!AskIfChanged, List!Ask
    <3>4. QED
      BY <2>2, <3>1, <3>2, <3>3 DEF List!SetFilter
  <2>3. QED
    BY <2>1, <2>2
<1>2. List!TypeOK'
  <2>1. page' \in List!PageIndexes /\ blind' \in BOOLEAN
    <3>1. 0 \in List!PageIndexes
      BY RowsFinite
    <3>2. page \in List!PageIndexes /\ blind \in BOOLEAN
      BY ListRecords DEF ListInv
    <3>3. QED
      BY <1>1, <3>1, <3>2
  <2>2. question' \in Questions
    BY <1>1, NothingListed, ListRecords DEF ListInv
  <2>3. QED
    BY <1>1, <2>1, <2>2 DEF ListInv, List!TypeOK, Questions
<1>3. KeyInv' /\ ListFreshInv'
  BY <1>1, AnswersSame, NothingListed
<1>4. SeenInv' /\ PlaceInv'
  BY <1>1, PlacesSame
<1>5. QED
  BY <1>2, <1>3, <1>4 DEF ListInv

\* The pager only offers pages that have rows, of what it has seen.
LEMMA PagerStep ==
  ASSUME List!ConstantsOK, ListInv, NEW p \in 0 .. List!Cardinality(ListRows), List!SetPage(p)
  PROVE  ListInv'
<1> DEFINE unseen == ~List!Seen
<1>1. /\ UNCHANGED <<view, lists, filter, wanted, screen, action, shrunk>>
      /\ page' = p /\ blind' \in BOOLEAN /\ (blind' <=> p > 0 /\ (blind \/ ~List!Seen))
      /\ question' = List!Asked
      /\ p \in List!PagerTargets /\ p \in List!PageIndexes /\ p \in Nat
  <2>1. p \in List!PageIndexes /\ p \in Nat
    BY RowsFinite, ListCardinality
  <2>2. unseen \in BOOLEAN
    OBVIOUS
  <2>3. List!Turn(p, unseen)
    BY DEF List!SetPage
  <2> HIDE DEF unseen
  <2>4. page' = p /\ blind' \in BOOLEAN /\ (blind' <=> p > 0 /\ (blind \/ unseen))
    BY <2>1, <2>2, <2>3, Turned DEF ListInv
  <2>5. QED
    BY <2>1, <2>4 DEF List!SetPage, List!Ask, unseen
<1>2. List!TypeOK'
  <2>1. blind' \in BOOLEAN
    BY <1>1
  <2>2. QED
    BY <1>1, <2>1, NothingListed DEF ListInv, List!TypeOK, Questions
<1>3. KeyInv' /\ ListFreshInv'
  BY <1>1, AnswersSame, NothingListed
<1>4. SeenInv' /\ PlaceInv'
  <2>1. CASE p = 0 \/ blind' = TRUE
    BY <1>1, <2>1, PlacesSame
  <2>2. CASE p > 0 /\ ~blind'
    <3>1. /\ ~blind /\ question.st = "idle" /\ screen.filter = filter
          /\ \A c \in ListCalls : action[c].st = "none"
      BY <1>1, <2>2, ListRecords DEF ListInv, List!Seen, List!Busy
    <3>2. SeenInv'
      BY <1>1, <3>1 DEF SeenInv
    <3>3. ASSUME ~shrunk PROVE Skipped(p) < Size(filter)
      <4>1. screen.total = Size(filter) /\ screen.page = page
        BY <3>1, <3>3 DEF ListInv, KeyInv, ListFreshInv, Current
      <4>2. PICK n \in Nat : n = Size(filter)
        BY RowsFinite, ListSizes, ListRecords DEF ListInv
      <4>3. page \in Nat /\ view.pagerWaits \in BOOLEAN
        BY RowsFinite, ListRecords, ViewFacts DEF ListInv
      <4>4. PICK k : k = List!PageCount(n)
        OBVIOUS
      <4>5. k \in Int
        BY <4>4, RowsFinite DEF List!PageCount
      <4>6. k = List!PageCount(screen.total)
        BY <4>1, <4>2, <4>4 DEF List!PageCount
      <4>7. p < k \/ (p = page - 1 /\ page > 0)
        <5>1. CASE view.pagerWaits
          BY <1>1, <4>5, <4>6, <5>1 DEF List!PagerTargets
        <5>2. CASE ~view.pagerWaits
          BY <1>1, <4>3, <4>5, <4>6, <5>2 DEF List!PagerTargets
        <5>3. QED
          BY <4>3, <5>1, <5>2
      <4>8. CASE p < k
        BY <1>1, <2>2, <4>2, <4>4, <4>8, CountedPages
      <4>9. CASE p = page - 1 /\ page > 0
        <5>1. Skipped(page) <= Size(filter)
          <6>1. Skipped(page) \in Nat
            BY <4>3, PagesGrow
          <6>2. QED
            BY <3>1, <3>3, <4>2, <4>9, <6>1 DEF ListInv, PlaceInv
        <5>2. Skipped(p) \in Nat /\ Skipped(p + 1) \in Nat /\ Skipped(p) < Skipped(p + 1)
          BY <1>1, PagesGrow
        <5>3. p + 1 = page
          BY <4>3, <4>9
        <5>4. QED
          BY <4>2, <5>1, <5>2, <5>3
      <4>10. QED
        BY <4>7, <4>8, <4>9
    <3>4. PlaceInv'
      BY <1>1, <3>3 DEF PlaceInv, Size, Skipped
    <3>5. QED
      BY <3>2, <3>4
  <2>3. p = 0 \/ blind' = TRUE \/ (p > 0 /\ ~blind')
    <3>1. blind' = TRUE \/ ~blind'
      BY <1>1
    <3>2. p = 0 \/ p > 0
      BY <1>1
    <3>3. QED
      BY <3>1, <3>2
  <2>4. QED
    BY <2>1, <2>2, <2>3
<1>5. QED
  BY <1>2, <1>3, <1>4 DEF ListInv

\* An answer that the server has given is what the server says.
LEMMA QuestionServed ==
  ASSUME List!ConstantsOK, ListInv, List!ServeQuestion
  PROVE  ListInv'
<1> DEFINE served == List!Answered(wanted, page)
           reply == [filter |-> wanted, page |-> page, ids |-> served.ids, total |-> served.total]
           cleared == served.ids # {} /\ wanted = filter /\ List!Pending = {}
<1>1. /\ UNCHANGED <<view, lists, filter, wanted, page, screen, action>>
      /\ question' = [st |-> "served", answer |-> reply]
      /\ blind' = (blind /\ ~cleared) /\ shrunk' = (shrunk /\ ~cleared)
  BY DEF List!ServeQuestion
<1>2. page \in Nat /\ wanted \in List!Filters
  BY RowsFinite, ListRecords DEF ListInv
<1>3. /\ served.ids \in SUBSET lists[wanted] /\ served.total = Size(wanted)
      /\ served.ids # {} <=> Skipped(page) < Size(wanted)
  BY <1>2, PageRows, ListRecords DEF ListInv
<1>4. reply \in List!Answers
  <2>1. served.ids \in SUBSET ListRows /\ served.total \in List!PageIndexes
    BY <1>2, <1>3, RowsFinite, ListSizes, ListRecords DEF ListInv
  <2>2. page \in List!PageIndexes
    BY ListRecords DEF ListInv
  <2> HIDE DEF served
  <2>3. QED
    BY <1>2, <2>1, <2>2 DEF List!Answers
<1>5. Current(reply)
  <2> HIDE DEF served
  <2>1. reply.filter = wanted /\ reply.page = page /\ reply.ids = served.ids
        /\ reply.total = served.total
    OBVIOUS
  <2> HIDE DEF reply
  <2>2. QED
    BY <1>2, <1>3, <2>1 DEF Current, served
<1>6. reply.filter = wanted /\ reply.page = page
  OBVIOUS
<1>7. cleared => Skipped(page) < Size(filter) /\ \A c \in ListCalls : action[c].st # "sent"
  <2>1. ASSUME cleared PROVE \A c \in ListCalls : action[c].st # "sent"
    BY <2>1 DEF List!Pending, List!Busy
  <2>2. QED
    BY <1>3, <2>1
<1> HIDE DEF served, reply, cleared
<1>8. /\ blind' \in BOOLEAN /\ (blind' <=> blind /\ ~cleared)
      /\ shrunk' \in BOOLEAN /\ (shrunk' <=> shrunk /\ ~cleared)
  <2>1. blind \in BOOLEAN /\ shrunk \in BOOLEAN
    BY ListRecords DEF ListInv
  <2>2. CASE cleared
    BY <1>1, <2>1, <2>2
  <2>3. CASE ~cleared
    BY <1>1, <2>1, <2>3
  <2>4. QED
    BY <2>2, <2>3
<1>9. List!TypeOK'
  <2>1. question' \in Questions
    BY <1>1, <1>4 DEF Questions
  <2>2. QED
    BY <1>1, <1>8, <2>1 DEF ListInv, List!TypeOK, Questions
<1>10. KeyInv'
  BY <1>1, <1>6 DEF KeyInv
<1>11. ListFreshInv'
  <2>1. Current(reply)' <=> Current(reply)
    BY <1>1 DEF Current, Size, List!Answered, List!Before, reply, served
  <2>2. question'.st = "served" /\ question'.answer = reply'
    BY <1>1 DEF reply, served, List!Answered, List!Before
  <2>3. QED
    BY <1>5, <2>1, <2>2 DEF ListFreshInv, Current
<1>12. UNCHANGED <<Size(filter), Skipped(page)>>
  BY <1>1 DEF Size, Skipped
<1>13. SeenInv'
  <2>1. CASE cleared
    BY <1>1, <1>7, <2>1 DEF SeenInv
  <2>2. CASE ~cleared
    BY <1>1, <1>8, <1>12, <2>2 DEF ListInv, SeenInv, Ended
  <2>3. QED
    BY <2>1, <2>2
<1>14. PlaceInv'
  <2>1. CASE cleared
    BY <1>1, <1>7, <1>12, <2>1 DEF PlaceInv
  <2>2. CASE ~cleared
    BY <1>1, <1>8, <1>12, <2>2 DEF ListInv, PlaceInv, Ended, List!StepsBack
  <2>3. QED
    BY <2>1, <2>2
<1>15. QED
  BY <1>9, <1>10, <1>11, <1>13, <1>14 DEF ListInv

\* The answer comes to the screen, or does not come.
LEMMA QuestionEnds ==
  ASSUME List!ConstantsOK, ListInv, List!ReceiveAnswer \/ List!FailQuestion
  PROVE  ListInv'
<1> DEFINE kept == screen.filter = wanted /\ screen.page = page
           gone == [List!Blank EXCEPT !.filter = wanted, !.page = page]
<1>1. /\ UNCHANGED <<view, lists, filter, wanted, page, action, blind>>
      /\ question' = List!NoQuestion
      /\ \/ question.st = "served" /\ screen' = question.answer /\ UNCHANGED shrunk
         \/ screen' = (IF kept THEN screen ELSE gone) /\ shrunk' = TRUE
  BY DEF List!ReceiveAnswer, List!FailQuestion
<1>2. /\ screen \in List!Answers /\ question \in Questions /\ wanted \in List!Filters
      /\ page \in List!PageIndexes
  BY ListRecords DEF ListInv
<1>3. gone \in List!Answers /\ gone.filter = wanted /\ gone.page = page
  BY <1>2, NothingListed DEF List!Answers
<1>4. /\ screen' \in List!Answers /\ screen'.filter = wanted /\ screen'.page = page
      /\ ~shrunk' => question.st = "served" /\ screen' = question.answer /\ ~shrunk
  <2>1. CASE question.st = "served" /\ screen' = question.answer /\ UNCHANGED shrunk
    BY <1>2, <2>1 DEF ListInv, KeyInv, Questions
  <2>2. CASE screen' = (IF kept THEN screen ELSE gone) /\ shrunk' = TRUE
    <3>1. CASE kept
      BY <1>2, <2>2, <3>1
    <3> HIDE DEF gone
    <3>2. CASE ~kept
      BY <1>3, <2>2, <3>2
    <3>3. QED
      BY <3>1, <3>2
  <2>3. QED
    BY <1>1, <2>1, <2>2
<1>5. shrunk' \in BOOLEAN
  BY <1>1, ListRecords DEF ListInv
<1> HIDE DEF kept, gone
<1>6. List!TypeOK'
  BY <1>1, <1>4, <1>5, NothingListed DEF ListInv, List!TypeOK, Questions
<1>7. KeyInv'
  BY <1>1, <1>4, NothingListed DEF KeyInv
<1>8. ListFreshInv'
  BY <1>1, <1>4, NothingListed
     DEF ListInv, ListFreshInv, Current, Size, List!Answered, List!Before
<1>9. UNCHANGED <<Size(filter), Skipped(page)>>
  BY <1>1 DEF Size, Skipped
<1>10. SeenInv'
  BY <1>1, <1>4, <1>9 DEF ListInv, SeenInv, Ended
<1>11. PlaceInv'
  BY <1>1, <1>4, <1>9 DEF ListInv, PlaceInv, Ended, List!StepsBack
<1>12. QED
  BY <1>6, <1>7, <1>8, <1>10, <1>11 DEF ListInv

\* Only the one call changes, so what is served and ended changes only by it.
LEMMA OneCall ==
  ASSUME ListInv, NEW c \in ListCalls, NEW a \in RowActions, action' = [action EXCEPT ![c] = a]
  PROVE  /\ action' \in [ListCalls -> RowActions] /\ action'[c] = a
         /\ \A d \in ListCalls : d # c => action'[d] = action[d]
         /\ action[c] \in RowActions
<1>1. action \in [ListCalls -> RowActions]
  BY ListRecords DEF ListInv
<1>2. QED
  BY <1>1

\* The action keeps the filter and the page, and whether the row is alone on it.
LEMMA ActStep ==
  ASSUME List!ConstantsOK, ListInv, NEW c \in ListCalls, NEW r \in ListRows,
         NEW leaves \in SUBSET List!Filters, List!Act(c, r, leaves)
  PROVE  ListInv'
<1> DEFINE told(single, seen) ==
             [st |-> "sent", row |-> r, leaves |-> leaves, filter |-> filter, page |-> page,
              single |-> single, seen |-> seen]
<1>1. /\ UNCHANGED <<view, lists, filter, wanted, page, screen, question, blind, shrunk>>
      /\ action[c].st = "none"
      /\ action' = [action EXCEPT ![c] = told(List!Cardinality(screen.ids) = 1, List!Seen)]
  BY DEF List!Act
<1>2. filter \in List!Filters /\ page \in List!PageIndexes /\ page \in Nat
  BY RowsFinite, ListRecords DEF ListInv
<1>3. PICK single \in BOOLEAN : single = (List!Cardinality(screen.ids) = 1)
  OBVIOUS
<1>4. PICK seen \in BOOLEAN : seen = List!Seen
  <2>1. CASE List!Seen
    <3>1. TRUE = List!Seen
      BY <2>1
    <3>2. QED
      BY <3>1
  <2>2. CASE ~List!Seen
    <3>1. FALSE = List!Seen
      BY <2>2
    <3>2. QED
      BY <3>1
  <2>3. QED
    BY <2>1, <2>2
<1>5. action' = [action EXCEPT ![c] = told(single, seen)]
  BY <1>1, <1>3, <1>4
<1>6. PICK a \in RowActions :
        /\ a = told(single, seen) /\ a.st = "sent" /\ a.seen = seen /\ a.single = single
        /\ a.filter = filter /\ a.page = page
  <2>1. ASSUME NEW x \in BOOLEAN, NEW y \in BOOLEAN
        PROVE  /\ told(x, y) \in RowActions /\ told(x, y).st = "sent" /\ told(x, y).seen = y
               /\ told(x, y).single = x /\ told(x, y).filter = filter /\ told(x, y).page = page
    BY <1>2 DEF RowActions
  <2> HIDE DEF told
  <2>2. single \in BOOLEAN /\ seen \in BOOLEAN
    BY <1>3, <1>4
  <2>3. QED
    BY <2>1, <2>2
<1>7. action' = [action EXCEPT ![c] = a]
  BY <1>5, <1>6
<1> HIDE DEF told
<1>8. /\ action' \in [ListCalls -> RowActions] /\ action'[c] = a
      /\ \A d \in ListCalls : d # c => action'[d] = action[d]
  BY <1>7, OneCall
<1>9. List!TypeOK'
  BY <1>1, <1>8 DEF ListInv, List!TypeOK, RowActions
<1>10. KeyInv'
  BY <1>1 DEF ListInv, KeyInv
<1>11. UNCHANGED <<Size(filter), Skipped(page)>>
  BY <1>1 DEF Size, Skipped
<1>12. \A d \in ListCalls : Ended(d)' <=> Ended(d)
  BY <1>1, <1>6, <1>8 DEF Ended
<1>13. ListFreshInv'
  <2>1. ASSUME \A d \in ListCalls : action'[d].st # "served"
        PROVE  \A d \in ListCalls : action[d].st # "served"
    BY <1>1, <1>8, <2>1
  <2>2. QED
    BY <1>1, <2>1 DEF ListInv, ListFreshInv, Current, Size, List!Answered, List!Before
<1>14. SeenInv'
  <2>1. ASSUME ~shrunk, seen, ~blind, page > 0, Size(filter) = Skipped(page) + 1 PROVE single
    <3>1. /\ question.st = "idle" /\ screen.filter = filter
          /\ \A d \in ListCalls : action[d].st = "none"
      BY <1>4, <2>1 DEF List!Seen, List!Busy
    <3>2. screen.ids = List!Answered(filter, page).ids
      BY <2>1, <3>1 DEF ListInv, ListFreshInv, KeyInv, Current
    <3>3. Cardinality(screen.ids) = 1
      BY <1>2, <2>1, <3>2, PageRows, ListRecords DEF ListInv
    <3>4. QED
      BY <1>3, <3>3, ListCardinality
  <2>2. ASSUME ~shrunk, seen PROVE \A d \in ListCalls : ~Ended(d)
    BY <1>4, <2>2 DEF List!Seen, List!Busy, Ended
  <2>3. ASSUME NEW d \in ListCalls, ~shrunk', action'[d].st = "sent", action'[d].seen
        PROVE  /\ \A e \in ListCalls : e # d => ~Ended(e)'
               /\ ~blind' /\ page' > 0 =>
                    /\ action'[d].filter = filter' /\ action'[d].page = page'
                    /\ Size(filter)' = Skipped(page)' + 1 => action'[d].single
    <3>1. CASE d = c
      BY <1>1, <1>6, <1>8, <1>11, <1>12, <2>1, <2>2, <2>3, <3>1
    <3>2. CASE d # c
      BY <1>1, <1>8, <1>11, <1>12, <2>3, <3>2 DEF ListInv, SeenInv
    <3>3. QED
      BY <3>1, <3>2
  <2>4. QED
    BY <2>3 DEF SeenInv
<1>15. PlaceInv'
  <2>1. ASSUME NEW d \in ListCalls, Ended(d)
        PROVE  action'[d] = action[d] /\ (List!StepsBack(action[d])' <=> List!StepsBack(action[d]))
    BY <1>1, <1>8, <2>1 DEF Ended, List!StepsBack
  <2>2. QED
    BY <1>1, <1>11, <1>12, <2>1 DEF ListInv, PlaceInv
<1>16. QED
  BY <1>9, <1>10, <1>13, <1>14, <1>15 DEF ListInv

\* A removal takes at most one row from each list.
LEMMA RowRemoved ==
  ASSUME List!ConstantsOK, lists \in [List!Filters -> SUBSET ListRows],
         NEW r, NEW leaves, lists' = List!Without(r, leaves)
  PROVE  /\ lists' \in [List!Filters -> SUBSET ListRows]
         /\ \A f \in List!Filters :
              /\ Cardinality(lists'[f]) >= Size(f) - 1 /\ Cardinality(lists'[f]) <= Size(f)
              /\ f \notin leaves => Cardinality(lists'[f]) = Size(f)
<1>1. \A f \in List!Filters : lists'[f] = IF f \in leaves THEN lists[f] \ {r} ELSE lists[f]
  BY DEF List!Without
<1>2. lists' \in [List!Filters -> SUBSET ListRows]
  BY <1>1 DEF List!Without
<1>3. ASSUME NEW f \in List!Filters
      PROVE  /\ Cardinality(lists'[f]) >= Size(f) - 1 /\ Cardinality(lists'[f]) <= Size(f)
             /\ f \notin leaves => Cardinality(lists'[f]) = Size(f)
  <2>1. IsFiniteSet(lists[f]) /\ Cardinality(lists[f]) \in Nat /\ Size(f) = Cardinality(lists[f])
    BY ListSizes, RowsFinite DEF Size
  <2>2. Cardinality(lists[f] \ {r}) \in {Cardinality(lists[f]), Cardinality(lists[f]) - 1}
    BY <2>1, FS_RemoveElement
  <2>3. lists'[f] \in {lists[f], lists[f] \ {r}} /\ (f \notin leaves => lists'[f] = lists[f])
    BY <1>1
  <2>4. CASE lists'[f] = lists[f]
    BY <2>1, <2>4
  <2>5. CASE f \in leaves /\ lists'[f] = lists[f] \ {r}
    <3>1. Cardinality(lists'[f]) \in {Cardinality(lists[f]), Cardinality(lists[f]) - 1}
      BY <2>2, <2>5
    <3>2. QED
      BY <2>1, <2>5, <3>1
  <2>6. QED
    BY <2>3, <2>4, <2>5
<1>4. QED
  BY <1>2, <1>3

\* The server removes the row, which may have been the last of the page.
LEMMA ServeActionStep ==
  ASSUME List!ConstantsOK, ListInv, NEW c \in ListCalls, List!ServeAction(c)
  PROVE  ListInv'
<1>1. /\ UNCHANGED <<view, filter, wanted, page, screen, question, blind>>
      /\ action[c].st = "sent" /\ action' = [action EXCEPT ![c].st = "served"]
      /\ lists' = List!Without(action[c].row, action[c].leaves)
      /\ shrunk' = (shrunk \/ ~view.stepsBack \/ List!Busy # {c} \/ ~action[c].seen)
  BY DEF List!ServeAction
<1>2. /\ action[c] \in RowActions /\ shrunk \in BOOLEAN /\ view.stepsBack \in BOOLEAN
      /\ lists \in [List!Filters -> SUBSET ListRows] /\ filter \in List!Filters /\ page \in Nat
  BY RowsFinite, ListRecords, ViewFacts DEF ListInv
<1>3. PICK a \in RowActions :
        /\ action' = [action EXCEPT ![c] = a] /\ a = [action[c] EXCEPT !.st = "served"]
        /\ a.st = "served" /\ a.filter = action[c].filter /\ a.page = action[c].page
        /\ a.leaves = action[c].leaves /\ a.single = action[c].single
  <2>1. [action[c] EXCEPT !.st = "served"] \in RowActions
    BY <1>2 DEF RowActions
  <2>2. action' = [action EXCEPT ![c] = [action[c] EXCEPT !.st = "served"]]
    BY <1>1, ListRecords DEF ListInv
  <2>3. QED
    BY <1>2, <2>1, <2>2 DEF RowActions
<1>4. /\ action' \in [ListCalls -> RowActions] /\ action'[c] = a
      /\ \A d \in ListCalls : d # c => action'[d] = action[d]
  BY <1>3, OneCall
<1>5. /\ shrunk' \in BOOLEAN
      /\ ~shrunk' => ~shrunk /\ view.stepsBack /\ List!Busy = {c} /\ action[c].seen
  <2> DEFINE hides == shrunk \/ ~view.stepsBack \/ List!Busy # {c} \/ ~action[c].seen
  <2>1. CASE hides
    <3>1. TRUE = hides
      BY <2>1
    <3>2. QED
      BY <1>1, <3>1
  <2>2. CASE ~hides
    <3>1. FALSE = hides
      BY <2>2
    <3>2. QED
      BY <1>1, <2>2, <3>1
  <2>3. QED
    BY <2>1, <2>2
<1>6. /\ lists' \in [List!Filters -> SUBSET ListRows]
      /\ \A f \in List!Filters :
           /\ Cardinality(lists'[f]) >= Size(f) - 1 /\ Cardinality(lists'[f]) <= Size(f)
           /\ f \notin action[c].leaves => Cardinality(lists'[f]) = Size(f)
  BY <1>1, <1>2, RowRemoved
<1>7. List!TypeOK'
  BY <1>1, <1>4, <1>5, <1>6 DEF ListInv, List!TypeOK, RowActions
<1>8. KeyInv' /\ ListFreshInv'
  BY <1>1, <1>3, <1>4 DEF ListInv, KeyInv, ListFreshInv
<1>9. ASSUME ~shrunk', NEW d \in ListCalls, d # c PROVE action[d].st = "none" /\ ~Ended(d)'
  BY <1>4, <1>5, <1>9 DEF List!Busy, Ended
<1>10. SeenInv'
  BY <1>3, <1>4, <1>9 DEF SeenInv
<1>11. PlaceInv'
  <2>1. SUFFICES ASSUME ~shrunk', ~blind', page' > 0
                 PROVE  \/ Skipped(page)' < Size(filter)'
                        \/ /\ Size(filter)' = Skipped(page)'
                           /\ \E e \in ListCalls :
                                /\ Ended(e)' /\ \A d \in ListCalls : d # e => ~Ended(d)'
                                /\ action'[e].filter = filter' /\ action'[e].page = page'
                                /\ List!StepsBack(action[e])'
    BY DEF PlaceInv
  <2>2. ~blind /\ page > 0 /\ ~shrunk
    BY <1>1, <1>5, <2>1
  <2>3. /\ action[c].filter = filter /\ action[c].page = page
        /\ Size(filter) = Skipped(page) + 1 => action[c].single
    BY <1>1, <1>5, <2>1, <2>2 DEF ListInv, SeenInv
  <2>4. Skipped(page) < Size(filter)
    <3>1. \A e \in ListCalls : ~Ended(e)
      BY <1>1, <1>9, <2>1 DEF Ended
    <3>2. QED
      BY <2>2, <3>1 DEF ListInv, PlaceInv
  <2>5. Skipped(page) \in Nat /\ Size(filter) \in Nat
    <3>1. Skipped(page) \in Nat
      BY <1>2, PagesGrow
    <3>2. Size(filter) \in 0 .. Cardinality(ListRows) /\ Cardinality(ListRows) \in Nat
      BY <1>2, ListSizes, RowsFinite
    <3>3. QED
      BY <3>1, <3>2
  <2>6. PICK now : now = Cardinality(lists'[filter])
    OBVIOUS
  <2>7. Size(filter)' = now /\ Skipped(page)' = Skipped(page)
    BY <1>1, <2>6 DEF Size, Skipped
  <2>8. /\ now >= Size(filter) - 1 /\ now <= Size(filter)
        /\ filter \notin action[c].leaves => now = Size(filter)
    BY <1>2, <1>6, <2>6
  <2>9. IsFiniteSet(lists'[filter]) /\ now \in Nat
    <3>1. lists'[filter] \in SUBSET ListRows
      BY <1>2, <1>6
    <3>2. IsFiniteSet(lists'[filter])
      BY <3>1, RowsFinite, FS_Subset
    <3>3. QED
      BY <2>6, <3>2, FS_CardinalityType
  <2>10. CASE Skipped(page) < now
    BY <2>7, <2>10
  <2>11. CASE ~(Skipped(page) < now)
    <3>1. now = Skipped(page) /\ Size(filter) = Skipped(page) + 1
      BY <2>4, <2>5, <2>8, <2>9, <2>11
    <3>2. filter \in a.leaves /\ a.single /\ a.filter = filter /\ a.page = page
      BY <1>3, <2>3, <2>5, <2>8, <3>1
    <3>3. List!StepsBack(action[c])'
      BY <1>1, <1>4, <1>5, <2>1, <2>2, <3>2 DEF List!StepsBack
    <3>4. Ended(c)'
      BY <1>3, <1>4 DEF Ended
    <3>5. \A d \in ListCalls : d # c => ~Ended(d)'
      BY <1>9, <2>1
    <3>6. QED
      BY <1>1, <1>4, <2>7, <3>1, <3>2, <3>3, <3>4, <3>5
  <2>12. QED
    BY <2>10, <2>11
<1>12. QED
  BY <1>7, <1>8, <1>10, <1>11 DEF ListInv

\* The answer to an action asks the current key again.
LEMMA AnswerActionStep ==
  ASSUME List!ConstantsOK, ListInv, NEW c \in ListCalls, List!AnswerAction(c)
  PROVE  ListInv'
<1>1. /\ UNCHANGED <<view, lists, filter, wanted, page, screen, blind>>
      /\ action[c].st = "served" /\ action' = [action EXCEPT ![c].st = "settling"]
      /\ question' \in {question, List!Asked}
      /\ ~shrunk' => ~shrunk /\ (question' = question => question.st # "served")
      /\ question' = question => question.st # "idle"
      /\ shrunk' \in BOOLEAN
  BY NothingListed DEF List!AnswerAction, List!Ask, List!FirstLoad, ListInv, List!TypeOK
<1>2. action[c] \in RowActions
  BY ListRecords DEF ListInv
<1>3. PICK a \in RowActions :
        /\ action' = [action EXCEPT ![c] = a] /\ a.st = "settling"
        /\ a.filter = action[c].filter /\ a.page = action[c].page
        /\ a.leaves = action[c].leaves /\ a.single = action[c].single
  <2>1. [action[c] EXCEPT !.st = "settling"] \in RowActions
    BY <1>2 DEF RowActions
  <2>2. action' = [action EXCEPT ![c] = [action[c] EXCEPT !.st = "settling"]]
    BY <1>1, ListRecords DEF ListInv
  <2>3. QED
    BY <1>2, <2>1, <2>2 DEF RowActions
<1>4. /\ action' \in [ListCalls -> RowActions] /\ action'[c] = a
      /\ \A d \in ListCalls : d # c => action'[d] = action[d]
  BY <1>3, OneCall
<1>5. List!TypeOK'
  BY <1>1, <1>4, NothingListed DEF ListInv, List!TypeOK, Questions, RowActions
<1>6. KeyInv' /\ ListFreshInv'
  BY <1>1, NothingListed DEF ListInv, KeyInv, ListFreshInv
<1>7. \A d \in ListCalls :
        /\ Ended(d)' <=> Ended(d)
        /\ action'[d].filter = action[d].filter /\ action'[d].page = action[d].page
        /\ action'[d].leaves = action[d].leaves /\ action'[d].single = action[d].single
  BY <1>1, <1>3, <1>4 DEF Ended
<1>8. UNCHANGED <<Size(filter), Skipped(page)>>
  BY <1>1 DEF Size, Skipped
<1>9. SeenInv'
  <2>1. ASSUME NEW d \in ListCalls, action'[d].st = "sent"
        PROVE  action'[d] = action[d]
    BY <1>3, <1>4, <2>1
  <2>2. QED
    BY <1>1, <1>7, <1>8, <2>1 DEF ListInv, SeenInv
<1>10. PlaceInv'
  <2>1. \A d \in ListCalls : List!StepsBack(action[d])' <=> List!StepsBack(action[d])
    BY <1>1, <1>7 DEF List!StepsBack
  <2>2. QED
    BY <1>1, <1>7, <1>8, <2>1 DEF ListInv, PlaceInv
<1>11. QED
  BY <1>5, <1>6, <1>9, <1>10 DEF ListInv

\* The inbox steps back from the page it took the last row of.
LEMMA SettleActionStep ==
  ASSUME List!ConstantsOK, ListInv, NEW c \in ListCalls, List!SettleAction(c)
  PROVE  ListInv'
<1> DEFINE left == filter # action[c].filter \/ page # action[c].page
<1>1. /\ UNCHANGED <<view, lists, filter, wanted, screen, shrunk>>
      /\ action[c].st = "settling" /\ question.st = "idle"
      /\ action' = [action EXCEPT ![c] = List!NoAction]
      /\ IF List!StepsBack(action[c]) THEN List!Turn(action[c].page - 1, left)
         ELSE UNCHANGED <<page, blind>>
      /\ IF page' # page THEN question' = List!Asked ELSE UNCHANGED question
  BY DEF List!SettleAction, List!AskIfChanged, List!Ask
<1>2. /\ action' \in [ListCalls -> RowActions] /\ action'[c] = List!NoAction
      /\ \A d \in ListCalls : d # c => action'[d] = action[d]
      /\ action[c] \in RowActions /\ List!NoAction.st = "none"
  BY <1>1, OneCall, NothingListed
<1>3. /\ filter \in List!Filters /\ page \in List!PageIndexes /\ blind \in BOOLEAN
      /\ question \in Questions
  BY ListRecords DEF ListInv
<1>4. ASSUME List!StepsBack(action[c])
      PROVE  /\ page' = action[c].page - 1 /\ page' \in Nat /\ page' \in List!PageIndexes
             /\ blind' \in BOOLEAN
             /\ blind' <=> page' > 0 /\ (blind \/ left)
  <2>1. action[c].page > 0 /\ action[c].page \in List!PageIndexes
    BY <1>2, <1>4 DEF List!StepsBack, RowActions
  <2>2. PICK p \in Nat : p = action[c].page - 1 /\ p \in List!PageIndexes
    BY <2>1, RowsFinite
  <2>3. List!Turn(p, left)
    BY <1>1, <1>4, <2>2
  <2>4. left \in BOOLEAN
    OBVIOUS
  <2> HIDE DEF left
  <2>5. page' = p /\ blind' \in BOOLEAN /\ (blind' <=> p > 0 /\ (blind \/ left))
    BY <2>3, <2>4, Turned DEF ListInv
  <2>6. QED
    BY <2>2, <2>5
<1>5. List!TypeOK'
  <2>1. page' \in List!PageIndexes /\ blind' \in BOOLEAN
    BY <1>1, <1>3, <1>4
  <2>2. question' \in Questions
    BY <1>1, <1>3, NothingListed
  <2>3. QED
    BY <1>1, <1>2, <2>1, <2>2 DEF ListInv, List!TypeOK, Questions, RowActions
<1>6. \A d \in ListCalls : action'[d].st = "served" <=> action[d].st = "served"
  BY <1>1, <1>2
<1>7. KeyInv' /\ ListFreshInv'
  <2>1. CASE page' = page
    BY <1>1, <1>6, <2>1
       DEF ListInv, KeyInv, ListFreshInv, Current, Size, List!Answered, List!Before
  <2>2. CASE page' # page
    BY <1>1, <2>2, NothingListed DEF KeyInv, ListFreshInv
  <2>3. QED
    BY <2>1, <2>2
<1>8. Ended(c)
  BY <1>1 DEF Ended
<1>9. SeenInv'
  <2>1. ASSUME ~shrunk, NEW d \in ListCalls, action'[d].st = "sent", action'[d].seen
        PROVE  FALSE
    <3>1. d # c
      BY <1>2, <2>1
    <3>2. action[d].st = "sent" /\ action[d].seen
      BY <1>2, <2>1, <3>1
    <3>3. QED
      BY <1>8, <2>1, <3>1, <3>2 DEF ListInv, SeenInv
  <2>2. QED
    BY <1>1, <2>1 DEF SeenInv
<1>10. ASSUME ~shrunk, ~blind', page' > 0 PROVE Skipped(page') < Size(filter)
  <2>1. page \in Nat /\ page' \in Nat
    BY <1>3, <1>5, RowsFinite DEF List!TypeOK
  <2>2. CASE List!StepsBack(action[c])
    <3>1. ~blind /\ page' < page /\ page' + 1 = page
      <4>1. ~blind /\ ~left
        BY <1>4, <1>10, <2>2
      <4>2. action[c].page \in Nat
        BY <1>2, RowsFinite DEF RowActions
      <4>3. page' = page - 1
        BY <1>4, <2>2, <4>1
      <4>4. QED
        BY <2>1, <4>1, <4>3
    <3>2. Skipped(page) <= Size(filter)
      <4>1. Skipped(page) \in Nat /\ Size(filter) \in 0 .. Cardinality(ListRows)
            /\ Cardinality(ListRows) \in Nat
        BY <1>3, <2>1, PagesGrow, ListSizes, ListRecords, RowsFinite DEF ListInv
      <4>2. page > 0
        BY <2>1, <3>1
      <4>3. Skipped(page) < Size(filter) \/ Size(filter) = Skipped(page)
        BY <1>10, <3>1, <4>2 DEF ListInv, PlaceInv
      <4>4. QED
        BY <4>1, <4>3
    <3>3. Skipped(page') \in Nat /\ Skipped(page) \in Nat /\ Skipped(page') < Skipped(page)
      <4>1. PICK p \in Nat : p = page'
        BY <2>1
      <4>2. p + 1 = page
        BY <3>1, <4>1
      <4>3. Skipped(p) \in Nat /\ Skipped(p + 1) \in Nat /\ Skipped(p) < Skipped(p + 1)
        BY PagesGrow
      <4>4. QED
        BY <2>1, <4>1, <4>2, <4>3
    <3>4. Size(filter) \in Nat
      BY <1>3, ListSizes, ListRecords, RowsFinite DEF ListInv
    <3>5. QED
      BY <3>2, <3>3, <3>4
  <2>3. CASE ~List!StepsBack(action[c])
    <3>1. UNCHANGED <<page, blind>>
      BY <1>1, <2>3
    <3>2. QED
      BY <1>8, <1>10, <2>3, <3>1 DEF ListInv, PlaceInv
  <2>4. QED
    BY <2>2, <2>3
<1>11. PlaceInv'
  <2>1. Size(filter)' = Size(filter) /\ Skipped(page)' = Skipped(page')
    BY <1>1 DEF Size, Skipped
  <2>2. QED
    BY <1>1, <1>10, <2>1 DEF PlaceInv
<1>12. QED
  BY <1>5, <1>7, <1>9, <1>11 DEF ListInv

\* A failed action has removed nothing, or nobody knows.
LEMMA FailActionStep ==
  ASSUME List!ConstantsOK, ListInv, NEW c \in ListCalls, List!FailAction(c)
  PROVE  ListInv'
<1>1. /\ UNCHANGED <<view, lists, filter, wanted, page, screen, question, blind>>
      /\ action[c].st \in {"sent", "served"} /\ action' = [action EXCEPT ![c] = List!NoAction]
      /\ shrunk' = (shrunk \/ action[c].st = "served")
  BY DEF List!FailAction
<1>2. /\ action' \in [ListCalls -> RowActions] /\ action'[c] = List!NoAction
      /\ \A d \in ListCalls : d # c => action'[d] = action[d]
      /\ List!NoAction.st = "none" /\ shrunk \in BOOLEAN
  BY <1>1, OneCall, NothingListed, ListRecords DEF ListInv
<1>3. shrunk' \in BOOLEAN /\ (~shrunk' => ~shrunk /\ action[c].st = "sent")
  <2>1. CASE shrunk \/ action[c].st = "served"
    <3>1. TRUE = (shrunk \/ action[c].st = "served")
      BY <2>1
    <3>2. QED
      BY <1>1, <3>1
  <2>2. CASE ~(shrunk \/ action[c].st = "served")
    <3>1. FALSE = (shrunk \/ action[c].st = "served")
      BY <2>2
    <3>2. QED
      BY <1>1, <2>2, <3>1
  <2>3. QED
    BY <2>1, <2>2
<1>4. List!TypeOK'
  BY <1>1, <1>2, <1>3 DEF ListInv, List!TypeOK, RowActions
<1>5. KeyInv'
  BY <1>1 DEF ListInv, KeyInv
<1>6. ASSUME ~shrunk' PROVE \A d \in ListCalls : d # c <=> action'[d] = action[d]
  BY <1>1, <1>2
<1>7. ASSUME ~shrunk' PROVE \A d \in ListCalls : Ended(d)' => d # c /\ Ended(d)
  BY <1>1, <1>2 DEF Ended
<1>8. ListFreshInv'
  <2>1. ASSUME ~shrunk', \A d \in ListCalls : action'[d].st # "served"
        PROVE  \A d \in ListCalls : action[d].st # "served"
    BY <1>2, <1>3, <2>1
  <2>2. QED
    BY <1>1, <1>3, <2>1 DEF ListInv, ListFreshInv, Current, Size, List!Answered, List!Before
<1>9. UNCHANGED <<Size(filter), Skipped(page)>>
  BY <1>1 DEF Size, Skipped
<1>10. SeenInv'
  <2>1. ASSUME NEW d \in ListCalls, ~shrunk', action'[d].st = "sent"
        PROVE  d # c /\ action'[d] = action[d]
    BY <1>2, <2>1
  <2>2. QED
    BY <1>1, <1>3, <1>7, <1>9, <2>1 DEF ListInv, SeenInv
<1>11. PlaceInv'
  <2>1. ASSUME ~shrunk', NEW d \in ListCalls, Ended(d)
        PROVE  /\ d # c /\ action'[d] = action[d] /\ Ended(d)'
               /\ List!StepsBack(action[d])' <=> List!StepsBack(action[d])
    BY <1>1, <1>2, <1>3, <2>1 DEF Ended, List!StepsBack
  <2>2. QED
    BY <1>1, <1>3, <1>7, <1>9, <2>1 DEF ListInv, PlaceInv
<1>12. QED
  BY <1>4, <1>5, <1>8, <1>10, <1>11 DEF ListInv

\* Somebody else's removal is one that the page has not asked about.
LEMMA OtherRemovesStep ==
  ASSUME List!ConstantsOK, ListInv, NEW r \in ListRows, NEW leaves \in {{"some"}, List!Filters},
         List!OtherRemoves(r, leaves)
  PROVE  ListInv'
<1>1. /\ UNCHANGED <<view, filter, wanted, page, screen, question, action, blind>>
      /\ lists' = List!Without(r, leaves) /\ shrunk' = TRUE
  BY DEF List!OtherRemoves
<1>2. lists' \in [List!Filters -> SUBSET ListRows]
  BY <1>1, RowRemoved, ListRecords DEF ListInv
<1>3. List!TypeOK'
  BY <1>1, <1>2 DEF ListInv, List!TypeOK
<1>4. QED
  BY <1>1, <1>3 DEF ListInv, KeyInv, ListFreshInv, SeenInv, PlaceInv

LEMMA ListStutters ==
  ASSUME ListInv, UNCHANGED List!listVars
  PROVE  ListInv'
<1>1. UNCHANGED <<view, lists, filter, wanted, page, screen, question, action, blind, shrunk>>
  BY DEF List!listVars
<1>2. List!TypeOK'
  BY <1>1 DEF ListInv, List!TypeOK
<1>3. KeyInv' /\ ListFreshInv'
  BY <1>1, AnswersSame
<1>4. SeenInv' /\ PlaceInv'
  BY <1>1, PlacesSame
<1>5. QED
  BY <1>2, <1>3, <1>4 DEF ListInv

LEMMA ListNext == ASSUME List!ConstantsOK, ListInv, [List!Next]_(List!listVars) PROVE ListInv'
<1>1. CASE UNCHANGED List!listVars
  BY <1>1, ListStutters
<1>2. CASE List!Debounce \/ List!Refresh \/ \E f \in List!Filters : List!SetFilter(f)
  BY <1>2, FilterStep
<1>3. CASE List!ServeQuestion
  BY <1>3, QuestionServed
<1>4. CASE List!ReceiveAnswer \/ List!FailQuestion
  BY <1>4, QuestionEnds
<1>5. ASSUME NEW p \in 0 .. List!Cardinality(ListRows), List!SetPage(p) PROVE ListInv'
  BY <1>5, PagerStep
<1>6. ASSUME NEW c \in ListCalls, NEW r \in ListRows, NEW leaves \in SUBSET List!Filters,
             List!Act(c, r, leaves)
      PROVE  ListInv'
  BY <1>6, ActStep
<1>7. ASSUME NEW c \in ListCalls,
             List!ServeAction(c) \/ List!AnswerAction(c) \/ List!SettleAction(c)
               \/ List!FailAction(c)
      PROVE  ListInv'
  BY <1>7, ServeActionStep, AnswerActionStep, SettleActionStep, FailActionStep
<1>8. ASSUME NEW r \in ListRows, NEW leaves \in {{"some"}, List!Filters},
             List!OtherRemoves(r, leaves)
      PROVE  ListInv'
  BY <1>8, OtherRemovesStep
<1>9. QED
  BY <1>1, <1>2, <1>3, <1>4, <1>5, <1>6, <1>7, <1>8 DEF List!Next

\* A settled page with rows under its filter shows some of them, or knows why not.
LEMMA ListSettled == ASSUME List!ConstantsOK, ListInv PROVE List!ListAnswersControls
<1>1. List!ScreenAnswersControls
  BY DEF List!ScreenAnswersControls, List!Settled, ListInv, KeyInv
<1>2. ASSUME List!Settled, screen.total > 0, ~blind, ~shrunk PROVE screen.ids # {}
  <2>1. /\ question.st = "idle" /\ filter = wanted
        /\ \A c \in ListCalls : action[c].st = "none"
    BY <1>2 DEF List!Settled, List!Busy
  <2>2. /\ screen.filter = filter /\ screen.page = page /\ screen.total = Size(filter)
        /\ screen.ids = List!Answered(filter, page).ids
    BY <1>2, <2>1 DEF ListInv, KeyInv, ListFreshInv, Current
  <2>3. page \in Nat /\ filter \in List!Filters
    BY RowsFinite, ListRecords DEF ListInv
  <2>4. Skipped(page) < Size(filter)
    <3>1. CASE page > 0
      BY <1>2, <2>1, <3>1 DEF ListInv, PlaceInv, Ended
    <3>2. CASE page = 0
      BY <1>2, <2>2, <3>2, PagesGrow
    <3>3. QED
      BY <2>3, <3>1, <3>2
  <2>5. QED
    BY <2>2, <2>3, <2>4, PageRows, ListRecords DEF ListInv
<1>3. QED
  BY <1>1, <1>2 DEF List!ListAnswersControls, List!EmptyPageNeedsCause

LEMMA ListInductive == ASSUME List!ConstantsOK PROVE List!Spec => []ListInv
<1>1. List!Init => ListInv
  BY ListInit
<1>2. ListInv /\ [List!Next]_(List!listVars) => ListInv'
  BY ListNext
<1>3. QED
  BY <1>1, <1>2, PTL DEF List!Spec

\* The controls, the rows on screen and the row actions keep their types.
THEOREM ListTyped == ASSUME List!ConstantsOK PROVE List!Spec => []List!TypeOK
<1>1. ListInv => List!TypeOK
  BY DEF ListInv
<1>2. QED
  BY <1>1, ListInductive, PTL

\* The settled rows are those of the filter and page of the controls, and an empty
\* page of a list that has rows needs one of the causes the property names.
THEOREM ListAnswers == ASSUME List!ConstantsOK PROVE List!Spec => []List!ListAnswersControls
<1>1. List!ConstantsOK /\ ListInv => List!ListAnswersControls
  BY ListSettled
<1>2. QED
  BY <1>1, ListInductive, PTL

---------------------------------------------------------------------------
(* CursorPage: object listings in pages that only go on from a token *)

Listings == [key : [of : Objects!Settings, token : Objects!Tokens], next : Objects!Tokens]

ObjectShape ==
  /\ setting \in Objects!Settings /\ settled \in Prefixes
  /\ tokens \in Seq(Objects!Tokens) /\ at \in Nat
  /\ listing \in Listings
  /\ asking \in BOOLEAN /\ early \in BOOLEAN

\* The page shown is on the stack, which starts with the first page.
OnStack == at < Len(tokens) /\ tokens[1] = Objects!First

\* Unless Next was early, pages are only left behind for the prefix that is asked,
\* and the tokens up to the page shown lead there page by page.
Settled == ~early /\ settled # setting.prefix => at = 0
Chained == ~early => \A i \in 2 .. at + 1 : tokens[i] = [of |-> Objects!Asked, page |-> i - 1]

\* The next token on screen continues the listing on screen, and with nothing
\* under way that is the listing the controls ask for, or none.
Continues ==
  listing.next # Objects!NoToken =>
    listing.next = [of |-> listing.key.of, page |-> listing.key.token.page + 1]
Answered == ~asking => listing = Objects!NoListing \/ listing.key = Objects!Key

StackInv == ObjectShape /\ OnStack /\ Settled /\ Chained /\ Continues /\ Answered

---------------------------------------------------------------------------
LEMMA TokensTyped ==
  ASSUME Objects!ConstantsOK
  PROVE  /\ Objects!First \in Objects!Tokens /\ Objects!NoToken \in Objects!Tokens /\ Objects!NoListing \in Listings
         /\ Objects!First.page = 0 /\ Objects!NoListing.next = Objects!NoToken
         /\ <<Objects!First>> \in Seq(Objects!Tokens) /\ Len(<<Objects!First>>) = 1 /\ <<Objects!First>>[1] = Objects!First
<1>1. Objects!First \in Objects!Tokens /\ Objects!NoToken \in Objects!Tokens /\ Objects!First.page = 0
  BY DEF Objects!ConstantsOK, Objects!First, Objects!NoToken, Objects!Tokens
<1>2. Objects!NoListing \in Listings /\ Objects!NoListing.next = Objects!NoToken
  BY <1>1 DEF Objects!ConstantsOK, Objects!NoListing, Listings
<1>3. QED
  BY <1>1, <1>2

\* What is asked, and the token of the page shown.
LEMMA AskedTyped ==
  ASSUME Objects!ConstantsOK, ObjectShape, OnStack
  PROVE  /\ Objects!Asked \in Objects!Settings /\ Objects!Current = tokens[at + 1] /\ Objects!Current \in Objects!Tokens
         /\ Objects!Key \in [of : Objects!Settings, token : Objects!Tokens] /\ Objects!Key.of = Objects!Asked /\ Objects!Key.token = Objects!Current
<1>1. at + 1 \in DOMAIN tokens
  BY DEF ObjectShape, OnStack
<1>2. Objects!Current = tokens[at + 1] /\ Objects!Current \in Objects!Tokens
  BY <1>1 DEF Objects!Current, Objects!TokenOf, ObjectShape
<1>3. Objects!Asked \in Objects!Settings
  BY DEF Objects!Asked, Objects!Settings, ObjectShape
<1>4. QED
  BY <1>2, <1>3 DEF Objects!Key

LEMMA StackInit == ASSUME Objects!ConstantsOK, Objects!Init PROVE StackInv
<1>1. ObjectShape
  BY TokensTyped DEF Objects!Init, ObjectShape, Objects!Settings
<1>2. OnStack /\ Settled /\ Chained
  BY TokensTyped DEF Objects!Init, OnStack, Settled, Chained
<1>3. Continues /\ Answered
  BY TokensTyped DEF Objects!Init, Continues, Answered
<1>4. QED
  BY <1>1, <1>2, <1>3 DEF StackInv

\* The stack is emptied: the settings may change at will.
LEMMA ObjectResetStep ==
  ASSUME Objects!ConstantsOK, StackInv, setting' \in Objects!Settings, settled' = settled, Objects!ResetPagination,
         listing' = listing, Objects!AskIfChanged
  PROVE  StackInv'
<1>1. ObjectShape'
  BY TokensTyped DEF StackInv, ObjectShape, Objects!ResetPagination, Objects!AskIfChanged
<1>2. OnStack' /\ Settled' /\ Chained'
  BY TokensTyped DEF Objects!ResetPagination, OnStack, Settled, Chained
<1>3. Continues' /\ Answered'
  BY DEF StackInv, ObjectShape, Continues, Answered, Objects!AskIfChanged
<1>4. QED
  BY <1>1, <1>2, <1>3 DEF StackInv

LEMMA ObjectDebounceStep == ASSUME Objects!ConstantsOK, StackInv, Objects!Debounce PROVE StackInv'
<1>1. ObjectShape' /\ OnStack' /\ Settled'
  BY DEF StackInv, ObjectShape, OnStack, Settled, Objects!Debounce, Objects!AskIfChanged,
     Objects!Settings
<1>2. Chained'
  BY DEF StackInv, ObjectShape, Settled, Chained, Objects!Debounce
<1>3. Continues' /\ Answered'
  BY DEF StackInv, ObjectShape, Continues, Answered, Objects!AskIfChanged, Objects!Debounce
<1>4. QED
  BY <1>1, <1>2, <1>3 DEF StackInv

LEMMA ObjectPrevStep == ASSUME Objects!ConstantsOK, StackInv, Objects!PrevPage PROVE StackInv'
<1>1. ObjectShape' /\ OnStack' /\ Settled'
  BY DEF StackInv, ObjectShape, OnStack, Settled, Objects!PrevPage, Objects!AskIfChanged
<1>2. Chained'
  BY DEF StackInv, ObjectShape, Chained, Objects!PrevPage, Objects!Asked
<1>3. Continues' /\ Answered'
  BY DEF StackInv, ObjectShape, Continues, Answered, Objects!AskIfChanged, Objects!PrevPage
<1>4. QED
  BY <1>1, <1>2, <1>3 DEF StackInv

LEMMA ObjectNextStep == ASSUME Objects!ConstantsOK, StackInv, Objects!NextPage PROVE StackInv'
<1> DEFINE below == SubSeq(tokens, 1, at + 1)
<1>1. /\ tokens \in Seq(Objects!Tokens) /\ at \in Nat /\ at + 1 \in 1 .. Len(tokens)
      /\ listing.next \in Objects!Tokens
  BY DEF StackInv, ObjectShape, OnStack, Listings
<1>2. /\ below \in Seq(Objects!Tokens) /\ Len(below) = at + 1
      /\ \A i \in 1 .. at + 1 : below[i] = tokens[i]
  BY <1>1, SubSeqProperties
<1>3. /\ tokens' = Append(below, listing.next) /\ tokens' \in Seq(Objects!Tokens)
      /\ Len(tokens') = at + 2 /\ tokens'[at + 2] = listing.next
      /\ \A i \in 1 .. at + 1 : tokens'[i] = tokens[i]
  <2>1. tokens' = Append(below, listing.next)
    BY DEF Objects!NextPage
  <2>2. QED
    BY <1>1, <1>2, <2>1, AppendProperties
<1>4. at' = at + 1 /\ early' = (early \/ settled # setting.prefix)
      /\ UNCHANGED <<setting, settled, listing>>
  BY DEF Objects!NextPage
<1>5. ObjectShape' /\ OnStack'
  BY <1>1, <1>3, <1>4 DEF StackInv, ObjectShape, OnStack, Objects!NextPage,
     Objects!AskIfChanged
<1>6. Settled'
  BY <1>4 DEF StackInv, ObjectShape, Settled
<1>7. listing.next = [of |-> Objects!Asked, page |-> Objects!Current.page + 1] /\ Objects!Current = tokens[at + 1]
  <2>1. listing.key = Objects!Key
    BY TokensTyped DEF Objects!NextPage, StackInv, Answered
  <2>2. QED
    BY <2>1, AskedTyped DEF Objects!NextPage, StackInv, Continues
<1>8. Chained'
  <2>1. SUFFICES ASSUME ~early', NEW i \in 2 .. at' + 1
                 PROVE  tokens'[i] = [of |-> Objects!Asked, page |-> i - 1]
    BY <1>4 DEF Chained, Objects!Asked
  <2>2. ~early
    BY <1>4, <2>1 DEF StackInv, ObjectShape
  <2>3. CASE i <= at + 1
    <3>1. i \in 2 .. at + 1
      BY <1>1, <1>4, <2>1, <2>3
    <3>2. tokens[i] = [of |-> Objects!Asked, page |-> i - 1]
      BY <2>2, <3>1 DEF StackInv, Chained
    <3>3. QED
      BY <1>1, <1>3, <3>1, <3>2
  <2>4. CASE i = at + 2
    <3>1. Objects!Current.page = at
      <4>1. CASE at = 0
        BY <1>7, <4>1, TokensTyped DEF StackInv, OnStack
      <4>2. CASE at # 0
        <5>1. at + 1 \in 2 .. at + 1
          BY <1>1, <4>2
        <5>2. tokens[at + 1] = [of |-> Objects!Asked, page |-> (at + 1) - 1]
          BY <2>2, <5>1 DEF StackInv, Chained
        <5>3. QED
          BY <1>1, <1>7, <5>2
      <4>3. QED
        BY <4>1, <4>2
    <3>2. QED
      BY <1>1, <1>3, <1>7, <2>4, <3>1
  <2>5. QED
    BY <1>1, <1>4, <2>1, <2>3, <2>4
<1>9. Continues' /\ Answered'
  BY <1>4 DEF StackInv, ObjectShape, Continues, Answered, Objects!AskIfChanged,
     Objects!NextPage
<1>10. QED
  BY <1>5, <1>6, <1>8, <1>9 DEF StackInv

\* The listing alone changes.
LEMMA ObjectListingStep ==
  ASSUME Objects!ConstantsOK, StackInv, UNCHANGED <<setting, settled, tokens, at, early>>,
         listing' \in Listings, asking' \in BOOLEAN, Continues', Answered'
  PROVE  StackInv'
BY DEF StackInv, ObjectShape, OnStack, Settled, Chained, Objects!Asked

LEMMA ObjectReceiveStep == ASSUME Objects!ConstantsOK, StackInv, Objects!Receive PROVE StackInv'
<1>1. UNCHANGED <<setting, settled, tokens, at, early>> /\ asking' = FALSE /\ Objects!Key' = Objects!Key
  BY DEF Objects!Receive, Objects!Key, Objects!Asked, Objects!Current, Objects!TokenOf
<1>2. /\ Objects!Asked \in Objects!Settings /\ Objects!Current \in Objects!Tokens /\ Objects!Key \in [of : Objects!Settings, token : Objects!Tokens]
      /\ Objects!Key.of = Objects!Asked /\ Objects!Key.token = Objects!Current
  BY AskedTyped DEF StackInv
<1>3. PICK n \in Objects!Tokens :
        /\ listing' = [key |-> Objects!Key, next |-> n]
        /\ n = Objects!NoToken \/ n = [of |-> Objects!Asked, page |-> Objects!Current.page + 1]
  <2>1. CASE Objects!Current.page + 1 < MaxPages
    <3>1. [of |-> Objects!Asked, page |-> Objects!Current.page + 1] \in Objects!Tokens
      BY <1>2, <2>1 DEF Objects!Tokens, Objects!ConstantsOK
    <3>2. QED
      BY <2>1, <3>1 DEF Objects!Receive
  <2>2. CASE ~(Objects!Current.page + 1 < MaxPages)
    BY <2>2, TokensTyped DEF Objects!Receive
  <2>3. QED
    BY <2>1, <2>2
<1>4. listing' \in Listings /\ Continues' /\ Answered'
  BY <1>1, <1>2, <1>3 DEF Listings, Continues, Answered
<1>5. QED
  BY <1>1, <1>4, ObjectListingStep

LEMMA ObjectQuietStep == ASSUME Objects!ConstantsOK, StackInv, Objects!Fail \/ Objects!Refresh PROVE StackInv'
<1>1. UNCHANGED <<setting, settled, tokens, at, early>> /\ asking' \in BOOLEAN /\ Objects!Key' = Objects!Key
  BY DEF Objects!Fail, Objects!Refresh, Objects!Key, Objects!Asked, Objects!Current,
     Objects!TokenOf
<1>2. /\ listing' = listing \/ listing' = Objects!NoListing
      /\ ~asking' => listing' = Objects!NoListing \/ (listing.key = Objects!Key /\ listing' = listing)
  BY DEF Objects!Fail, Objects!Refresh
<1>3. listing' \in Listings /\ Continues' /\ Answered'
  BY <1>1, <1>2, TokensTyped DEF StackInv, ObjectShape, Continues, Answered
<1>4. QED
  BY <1>1, <1>3, ObjectListingStep

LEMMA StackNext == ASSUME Objects!ConstantsOK, StackInv, [Objects!Next]_(Objects!cursorVars) PROVE StackInv'
<1>1. ASSUME NEW s \in Objects!Settings, Objects!Change(s) PROVE StackInv'
  BY <1>1, ObjectResetStep DEF Objects!Change
<1>2. CASE Objects!Clear
  BY <1>2, ObjectResetStep DEF Objects!Clear, Objects!ConstantsOK
<1>3. CASE Objects!Debounce
  BY <1>3, ObjectDebounceStep
<1>4. CASE Objects!PrevPage
  BY <1>4, ObjectPrevStep
<1>5. CASE Objects!NextPage
  BY <1>5, ObjectNextStep
<1>6. CASE Objects!Receive
  BY <1>6, ObjectReceiveStep
<1>7. CASE Objects!Fail \/ Objects!Refresh
  BY <1>7, ObjectQuietStep
<1>8. CASE UNCHANGED Objects!cursorVars
  BY <1>8 DEF Objects!cursorVars, StackInv, ObjectShape, OnStack, Settled, Chained, Continues,
     Answered, Objects!Key,
              Objects!Asked, Objects!Current, Objects!TokenOf
<1>9. QED
  BY <1>1, <1>2, <1>3, <1>4, <1>5, <1>6, <1>7, <1>8 DEF Objects!Next

\* A continuation token is only sent with the settings it was issued for, and the
\* pages below lead back to the first, however many pages a listing has, unless
\* Next was clicked before the typed prefix was asked.
THEOREM TokensContinueTheirListing == ASSUME Objects!ConstantsOK PROVE Objects!Spec => []Objects!TokensMatchListing
<1>1. Objects!Init => StackInv
  BY StackInit
<1>2. StackInv /\ [Objects!Next]_(Objects!cursorVars) => StackInv'
  BY StackNext
<1>3. StackInv => Objects!TokensMatchListing
  BY DEF StackInv, OnStack, Chained, Objects!TokensMatchListing
<1>4. QED
  BY <1>1, <1>2, <1>3, PTL DEF Objects!Spec

\* Every page above the first took an input.
Climbs ==
  /\ tries \in [inputs : 0 .. MaxObjectInputs, errors : 0 .. MaxObjectErrors]
  /\ at \in 0 .. tries.inputs

LEMMA ClimbsStep ==
  ASSUME Objects!ConstantsOK, Climbs, [Objects!Next]_(Objects!cursorVars)
  PROVE  Climbs'
<1>1. /\ tries.inputs \in 0 .. MaxObjectInputs /\ tries.errors \in 0 .. MaxObjectErrors
      /\ MaxObjectInputs \in Nat /\ MaxObjectErrors \in Nat /\ at \in Nat
  BY DEF Climbs, Objects!ConstantsOK
<1>2. CASE Objects!Spend("inputs", MaxObjectInputs) /\ at' \in {0, at - 1, at, at + 1} /\ (at' = at - 1 => at > 0)
  <2>1. tries' = [tries EXCEPT !.inputs = tries.inputs + 1] /\ tries.inputs < MaxObjectInputs
    BY <1>2 DEF Objects!Spend
  <2>2. PICK n \in 0 .. MaxObjectInputs : n = tries.inputs + 1
    BY <1>1, <2>1
  <2>3. tries' \in [inputs : 0 .. MaxObjectInputs, errors : 0 .. MaxObjectErrors] /\ tries'.inputs = n
    BY <2>1, <2>2 DEF Climbs
  <2>4. at' \in 0 .. n
    BY <1>1, <1>2, <2>2 DEF Climbs
  <2>5. QED
    BY <2>3, <2>4 DEF Climbs
<1>3. CASE Objects!Spend("errors", MaxObjectErrors) /\ at' = at
  <2>1. tries' = [tries EXCEPT !.errors = tries.errors + 1] /\ tries.errors < MaxObjectErrors
    BY <1>3 DEF Objects!Spend
  <2>2. PICK n \in 0 .. MaxObjectErrors : n = tries.errors + 1
    BY <1>1, <2>1
  <2>3. /\ tries' \in [inputs : 0 .. MaxObjectInputs, errors : 0 .. MaxObjectErrors]
        /\ tries'.inputs = tries.inputs
    BY <2>1, <2>2 DEF Climbs
  <2>4. QED
    BY <1>3, <2>3 DEF Climbs
<1>4. CASE UNCHANGED <<tries, at>>
  BY <1>4 DEF Climbs
<1>5. CASE Objects!Next
  <2>1. CASE Objects!Clear \/ \E s \in Objects!Settings : Objects!Change(s)
    <3>1. Objects!Spend("inputs", MaxObjectInputs) /\ at' = 0
      BY <2>1 DEF Objects!Clear, Objects!Change, Objects!ResetPagination
    <3>2. QED
      BY <1>1, <1>2, <3>1
  <2>2. CASE Objects!PrevPage \/ Objects!NextPage \/ Objects!Refresh
    BY <1>1, <1>2, <2>2 DEF Objects!PrevPage, Objects!NextPage, Objects!Refresh
  <2>3. CASE Objects!Fail
    BY <1>3, <2>3 DEF Objects!Fail
  <2>4. CASE Objects!Debounce \/ Objects!Receive
    BY <1>4, <2>4 DEF Objects!Debounce, Objects!Receive
  <2>5. QED
    BY <1>5, <2>1, <2>2, <2>3, <2>4 DEF Objects!Next
<1>6. QED
  BY <1>4, <1>5 DEF Objects!cursorVars

\* The controls, the stack and the listing keep their types.
THEOREM ObjectsTyped == ASSUME Objects!ConstantsOK PROVE Objects!Spec => []Objects!TypeOK
<1>1. Objects!Init => StackInv /\ Climbs
  <2>1. Objects!Init => Climbs
    BY DEF Objects!Init, Climbs, Objects!ConstantsOK
  <2>2. QED
    BY <2>1, StackInit
<1>2. StackInv /\ Climbs /\ [Objects!Next]_(Objects!cursorVars) => StackInv' /\ Climbs'
  BY StackNext, ClimbsStep
<1>3. StackInv /\ Climbs => Objects!TypeOK
  <2>1. Climbs => at \in 0 .. MaxObjectInputs
    BY DEF Climbs, Objects!ConstantsOK
  <2>2. QED
    BY <2>1 DEF StackInv, ObjectShape, Climbs, Objects!TypeOK, Listings
<1>4. QED
  BY <1>1, <1>2, <1>3, PTL DEF Objects!Spec

---------------------------------------------------------------------------
(* TenantTree: the tenants, read list by list as the tree is opened *)

\* How many tenants the whole list has that a query shows a page of.
Amount(q) == Cardinality(Directory!ListOf(q))
ListQueries == Directory!Queries \ Directory!NodeQueries

\* A tenant is below another one that was created; the selection was created, and so
\* was every tenant whose detail is asked for.
Families ==
  /\ \A n \in alive : above[n] # Unborn
  /\ \A n \in Tenants : /\ above[n] # n
                        /\ above[n] \in Tenants => above[above[n]] # Unborn
  /\ chosen # None => above[chosen] # Unborn
  /\ \A q \in asked \cap Directory!NodeQueries : above[q[2]] # Unborn

\* A call is about a tenant and the parent it has or gets.
Calling ==
  job.st # "none" =>
    /\ job.node \in Tenants /\ job.does # "none"
    /\ job.parent # None => above[job.parent] # Unborn
    /\ job.parent # job.node
    /\ job.st = "sent" /\ job.does = "create" => above[job.node] = Unborn

\* Only a query under way has read something it has not answered.
ReadWhileAsked == \A q \in Directory!Queries : fetched[q].known => q \in asked

DirectoryShape == Directory!TypeOK /\ Families /\ Calling /\ ReadWhileAsked

\* The rows that are read and neither asked for nor kept from before a change: those
\* on screen, and those of pages of children that are out of sight.
Sure(q) ==
  /\ q \notin asked \cup missed /\ shownRows[q].known
  /\ q \in Directory!Active \cup Directory!KidsQueries

\* What is sure is current until a call changes the tenants, and its total is no
\* greater than the list until a call removes some.  What a query under way has read
\* is current until a change, and a page in use is read or being read.
ListsInv ==
  ~troubled =>
    \A q \in ListQueries :
      /\ Sure(q) /\ job.st # "served" => shownRows[q] = Directory!Read(q)
      /\ Sure(q) /\ ~(job.st = "served" /\ job.does = "remove") =>
           shownRows[q].total <= Amount(q)
      /\ fetched[q].known /\ q \notin missed => fetched[q] = Directory!Read(q)
      /\ q \in Directory!Active /\ q \notin asked => shownRows[q].known

\* The pages chosen have rows, unless they were chosen or left in a way that is
\* kept in adrift; a removal takes the roots back to their first page.
InRange(p, q) == p = 0 \/ p * TenantPage < Amount(q)
Leaving == job.does = "remove" /\ job.st \in {"served", "settling"}
RangeInv ==
  ~troubled =>
    /\ "roots" \notin adrift /\ ~Leaving => InRange(pageOf.roots, Directory!Roots(0))
    /\ "found" \notin adrift =>
         pageOf.found = 0 \/ (keyword # None /\ InRange(pageOf.found, Directory!Found(keyword, 0)))
    /\ "kids" \notin adrift =>
         \A n \in Tenants : InRange(pageOf.kids[n], Directory!Kids(n, 0))

\* The selected tenant is there, or is the one whose removal selects its parent.  Its
\* detail is read or being read, and a detail is read of a tenant that is there.
DetailInv ==
  ~troubled =>
    /\ chosen # None =>
         /\ \/ ghost \/ chosen \in alive
            \/ /\ job.does = "remove" /\ job.node = chosen /\ job.st \in {"served", "settling"}
               /\ job.st = "settling" => job.moves
         /\ chosen \in alive /\ Directory!Node(chosen) \notin asked =>
              shownRows[Directory!Node(chosen)].rows = {chosen}
    /\ \A n \in alive :
         fetched[Directory!Node(n)].known => fetched[Directory!Node(n)].rows = {n}

DirectoryInv == DirectoryShape /\ ListsInv /\ RangeInv /\ DetailInv

---------------------------------------------------------------------------
(* Lists and their pages *)

LEMMA DirectoryCardinality == ASSUME NEW S PROVE Directory!Cardinality(S) = Cardinality(S)
  BY DEF Directory!Cardinality, Cardinality

LEMMA TenantsFinite ==
  ASSUME Directory!ConstantsOK
  PROVE  /\ IsFiniteSet(Tenants) /\ Tenants \subseteq Int
         /\ None \notin Tenants /\ Unborn \notin Tenants /\ None # Unborn
         /\ TenantPage \in Nat \ {0} /\ MaxTenantInputs \in Nat
         /\ Cardinality(Tenants) \in Nat
         /\ Directory!Pages = 0 .. Cardinality(Tenants) /\ 0 \in Directory!Pages
         /\ TenantKeywords \subseteq SUBSET Tenants
<1>1. /\ IsFiniteSet(Tenants) /\ Tenants \subseteq Int
      /\ None \notin Tenants /\ Unborn \notin Tenants /\ None # Unborn
      /\ TenantPage \in Nat \ {0} /\ MaxTenantInputs \in Nat
      /\ TenantKeywords \subseteq SUBSET Tenants
  BY DEF Directory!ConstantsOK, Directory!IsFiniteSet, IsFiniteSet
<1>2. Cardinality(Tenants) \in Nat
  BY <1>1, FS_CardinalityType
<1>3. Directory!Pages = 0 .. Cardinality(Tenants)
  BY DirectoryCardinality DEF Directory!Pages
<1>4. QED
  BY <1>1, <1>2, <1>3

\* The queries by their lists and pages.
LEMMA QueryForms ==
  ASSUME Directory!ConstantsOK
  PROVE  /\ \A p \in Directory!Pages :
              /\ Directory!Roots(p) \in ListQueries /\ Directory!Roots(p) \notin Directory!KidsQueries
              /\ Directory!Roots(p)[1] = "roots" /\ Directory!Roots(p)[2] = None
              /\ Directory!Roots(p)[3] = p
         /\ \A w \in TenantKeywords, p \in Directory!Pages :
              /\ Directory!Found(w, p) \in ListQueries
              /\ Directory!Found(w, p) \notin Directory!KidsQueries
              /\ Directory!Found(w, p)[1] = "found" /\ Directory!Found(w, p)[2] = w
              /\ Directory!Found(w, p)[3] = p
         /\ \A n \in Tenants, p \in Directory!Pages :
              /\ Directory!Kids(n, p) \in ListQueries
              /\ Directory!Kids(n, p) \in Directory!KidsQueries
              /\ Directory!Kids(n, p)[1] = "kids" /\ Directory!Kids(n, p)[2] = n
              /\ Directory!Kids(n, p)[3] = p
         /\ \A n \in Tenants :
              /\ Directory!Node(n) \in Directory!NodeQueries /\ Directory!Node(n) \notin ListQueries
              /\ Directory!Node(n) \notin Directory!KidsQueries
              /\ Directory!Node(n)[1] = "node" /\ Directory!Node(n)[2] = n
         /\ \A q \in Directory!NodeQueries : q[2] \in Tenants /\ q = Directory!Node(q[2])
         /\ Directory!Queries = ListQueries \cup Directory!NodeQueries
         /\ Directory!KidsQueries \subseteq ListQueries
         /\ \A q \in ListQueries : q \in Directory!Queries /\ q \notin Directory!NodeQueries
BY DEF ListQueries, Directory!Queries, Directory!KidsQueries, Directory!NodeQueries,
       Directory!Roots, Directory!Found, Directory!Kids, Directory!Node

\* As many tenants come before one as are not it and not after it.
LEMMA RanksBelow ==
  ASSUME NEW L \in SUBSET Int, IsFiniteSet(L), NEW k \in 0 .. Cardinality(L) - 1
  PROVE  \E n \in L : Cardinality({m \in L : m < n}) = k
<1>1. Cardinality(L) \in Nat
  BY FS_CardinalityType
<1>2. PICK n \in L : Rank(L, n) = (Cardinality(L) - 1) - k
  <2>1. (Cardinality(L) - 1) - k \in 0 .. Cardinality(L) - 1
    BY <1>1
  <2>2. QED
    BY <2>1, Ranks
<1> DEFINE below == {m \in L : m < n}
           above1 == {m \in L : m > n}
<1>3. /\ IsFiniteSet(below) /\ IsFiniteSet(above1) /\ IsFiniteSet(below \cup above1)
      /\ Cardinality(below) \in Nat /\ Cardinality(above1) \in Nat
      /\ Cardinality(below \cup above1) \in Nat
  <2>1. below \in SUBSET L /\ above1 \in SUBSET L /\ below \cup above1 \in SUBSET L
    OBVIOUS
  <2>2. IsFiniteSet(below) /\ IsFiniteSet(above1) /\ IsFiniteSet(below \cup above1)
    BY <2>1, FS_Subset
  <2>3. QED
    BY <2>2, FS_CardinalityType
<1>4. below \cap above1 = {}
  <2>1. ASSUME NEW m \in L PROVE ~(m < n /\ m > n)
    OBVIOUS
  <2>2. QED
    BY <2>1
<1>5. Cardinality(below \cup above1) = Cardinality(below) + Cardinality(above1)
  <2>1. Cardinality(below \cap above1) = 0
    BY <1>4, FS_EmptySet
  <2>2. Cardinality(below \cup above1) =
          Cardinality(below) + Cardinality(above1) - Cardinality(below \cap above1)
    BY <1>3, FS_Union
  <2> HIDE DEF below, above1
  <2>3. QED
    BY <1>3, <2>1, <2>2
<1>6. L = (below \cup above1) \cup {n} /\ n \notin below \cup above1
  <2>1. \A m \in L : m < n \/ m > n \/ m = n
    OBVIOUS
  <2>2. ~(n < n) /\ ~(n > n)
    OBVIOUS
  <2>3. QED
    BY <2>1, <2>2
<1>7. Cardinality(L) = Cardinality(below \cup above1) + 1
  <2> HIDE DEF below, above1
  <2>1. QED
    BY <1>3, <1>6, FS_AddElement
<1>8. Cardinality(above1) = (Cardinality(L) - 1) - k
  BY <1>2 DEF Rank
<1>9. Cardinality(below) = k
  <2> HIDE DEF below, above1
  <2>1. QED
    BY <1>1, <1>3, <1>5, <1>7, <1>8
<1>10. QED
  BY <1>9

LEMMA PageTyped ==
  ASSUME Directory!ConstantsOK, NEW all \in SUBSET Tenants, NEW p
  PROVE  /\ Directory!PageOf(all, p) \in Directory!Rows
         /\ Directory!PageOf(all, p).total = Cardinality(all)
         /\ Cardinality(all) \in Nat /\ IsFiniteSet(all)
<1>1. IsFiniteSet(all) /\ Cardinality(all) <= Cardinality(Tenants)
  BY TenantsFinite, FS_Subset
<1>2. Cardinality(all) \in Nat
  BY <1>1, FS_CardinalityType
<1>3. Cardinality(all) \in Directory!Pages
  BY <1>1, <1>2, TenantsFinite
<1>4. QED
  BY <1>1, <1>2, <1>3, DirectoryCardinality DEF Directory!PageOf, Directory!Rows

\* A page in the range of its list has rows.
LEMMA PageHasRows ==
  ASSUME Directory!ConstantsOK, NEW all \in SUBSET Tenants, NEW p \in Nat,
         p = 0 \/ p * TenantPage < Cardinality(all), Cardinality(all) # 0
  PROVE  Directory!PageOf(all, p).rows # {}
<1>1. Cardinality(all) \in Nat /\ IsFiniteSet(all) /\ all \in SUBSET Int /\ TenantPage \in Nat \ {0}
  BY PageTyped, TenantsFinite
<1>2. PICK k \in Nat : k = p * TenantPage
  BY <1>1
<1>3. k \in 0 .. Cardinality(all) - 1
  BY <1>1, <1>2
<1>4. PICK n \in all : Cardinality({m \in all : m < n}) = k
  BY <1>1, <1>3, RanksBelow
<1>5. k \div TenantPage = p
  BY <1>1, <1>2
<1>6. n \in Directory!PageOf(all, p).rows
  BY <1>4, <1>5, DirectoryCardinality DEF Directory!PageOf
<1>7. QED
  BY <1>6

\* A page offered by the total on screen is in the range of that total.
LEMMA PageOffered ==
  ASSUME Directory!ConstantsOK, NEW q, shownRows[q].total \in Nat, NEW p \in Nat,
         p < Directory!TotalPages(q)
  PROVE  p = 0 \/ p * TenantPage < shownRows[q].total
<1>1. TenantPage \in Nat /\ TenantPage > 0
  BY TenantsFinite
<1>2. PICK total \in Nat : total = shownRows[q].total
  OBVIOUS
<1>3. PICK last \in Int : last = (total + TenantPage - 1) \div TenantPage
  BY <1>1
<1>4. p <= last - 1
  BY <1>2, <1>3 DEF Directory!TotalPages
<1>5. TenantPage * last <= total + TenantPage - 1
  BY <1>1, <1>3
<1>6. p * TenantPage <= (last - 1) * TenantPage
  BY <1>1, <1>4
<1>7. (last - 1) * TenantPage = TenantPage * last - TenantPage
  BY <1>1
<1>8. QED
  BY <1>1, <1>2, <1>5, <1>6, <1>7

PageChoices ==
  [roots : Directory!Pages, found : Directory!Pages, kids : [Tenants -> Directory!Pages]]
Jobs ==
  [st : {"none", "sent", "served", "settling"}, does : {"none", "create", "update", "remove"},
   node : Directory!TenantOrNone, parent : Directory!TenantOrNone, moves : BOOLEAN,
   waits : SUBSET Directory!Queries]

\* What the queries read.
LEMMA ReadIs ==
  ASSUME Directory!ConstantsOK, Directory!TypeOK, NEW q \in Directory!Queries
  PROVE  /\ Directory!ListOf(q) \in SUBSET Tenants /\ Directory!ListOf(q) \subseteq alive
         /\ Amount(q) \in Nat /\ Directory!Read(q) \in Directory!Rows /\ Directory!Read(q).known
         /\ q \in ListQueries => /\ Directory!Read(q) = Directory!PageOf(Directory!ListOf(q), q[3])
                                 /\ Directory!Read(q).total = Amount(q)
         /\ q \in Directory!NodeQueries => Directory!Read(q).rows = {q[2]} \cap alive
<1>1. alive \subseteq Tenants /\ 0 \in Directory!Pages
  BY TenantsFinite DEF Directory!TypeOK
<1>2. Directory!ListOf(q) \subseteq alive
  BY DEF Directory!ListOf, Directory!ChildrenOf
<1>3. Directory!ListOf(q) \in SUBSET Tenants
  BY <1>1, <1>2
<1>4. /\ \A p : /\ Directory!PageOf(Directory!ListOf(q), p) \in Directory!Rows
               /\ Directory!PageOf(Directory!ListOf(q), p).known
               /\ Directory!PageOf(Directory!ListOf(q), p).total = Amount(q)
      /\ Amount(q) \in Nat
  <2>1. \A p : Directory!PageOf(Directory!ListOf(q), p).known
    BY DEF Directory!PageOf
  <2>2. QED
    BY <1>3, <2>1, PageTyped DEF Amount
<1>5. CASE q \in Directory!NodeQueries
  <2>1. Directory!Read(q) = [known |-> TRUE, rows |-> Directory!ListOf(q), total |-> 0]
    BY <1>5 DEF Directory!Read
  <2>2. Directory!ListOf(q) = {q[2]} \cap alive
    <3>1. q[1] = "node"
      BY <1>5 DEF Directory!NodeQueries
    <3>2. QED
      BY <3>1 DEF Directory!ListOf
  <2>3. QED
    BY <1>1, <1>2, <1>3, <1>4, <1>5, <2>1, <2>2 DEF ListQueries, Directory!Rows
<1>6. CASE q \notin Directory!NodeQueries
  BY <1>2, <1>3, <1>4, <1>6 DEF Directory!Read
<1>7. QED
  BY <1>5, <1>6

\* The answers and the lists depend on the tenants alone.
LEMMA ReadStays ==
  ASSUME UNCHANGED <<above, alive>>
  PROVE  \A q : Directory!Read(q)' = Directory!Read(q) /\ Amount(q)' = Amount(q)
BY DEF Directory!Read, Directory!ListOf, Directory!ChildrenOf, Amount

\* Which queries are in use.
LEMMA UsesAre ==
  ASSUME Directory!ConstantsOK,
         NEW word \in TenantKeywords \cup {None}, NEW pages \in PageChoices,
         NEW open \in SUBSET Tenants, NEW node \in Directory!TenantOrNone
  PROVE  /\ Directory!InUse(word, pages, open, node) \subseteq Directory!Queries
         /\ \A q \in Directory!InUse(word, pages, open, node) :
              \/ word = None /\ q = Directory!Roots(pages.roots)
              \/ word # None /\ q = Directory!Found(word, pages.found)
              \/ \E n \in open : q = Directory!Kids(n, pages.kids[n])
              \/ node # None /\ q = Directory!Node(node)
         /\ word = None => Directory!Roots(pages.roots) \in Directory!InUse(word, pages, open, node)
         /\ word # None =>
              Directory!Found(word, pages.found) \in Directory!InUse(word, pages, open, node)
         /\ word = None => \A n \in open :
              Directory!Kids(n, pages.kids[n]) \in Directory!InUse(word, pages, open, node)
         /\ node # None => Directory!Node(node) \in Directory!InUse(word, pages, open, node)
<1> DEFINE K == {Directory!Kids(n, pages.kids[n]) : n \in open}
<1>1. /\ pages.roots \in Directory!Pages /\ pages.found \in Directory!Pages
      /\ \A n \in open : n \in Tenants /\ pages.kids[n] \in Directory!Pages
      /\ node # None => node \in Tenants
      /\ word # None => word \in TenantKeywords
  BY DEF PageChoices, Directory!TenantOrNone
<1>2. /\ K \subseteq Directory!Queries
      /\ Directory!Roots(pages.roots) \in Directory!Queries
      /\ word # None => Directory!Found(word, pages.found) \in Directory!Queries
      /\ node # None => Directory!Node(node) \in Directory!Queries
  <2>1. node # None => node \in Tenants
    BY DEF Directory!TenantOrNone
  <2>2. word # None => word \in TenantKeywords
    OBVIOUS
  <2>3. QED
    BY <1>1, <2>1, <2>2, QueryForms
<1>3. Directory!InUse(word, pages, open, node) =
        (IF word = None THEN {Directory!Roots(pages.roots)} \cup K
         ELSE {Directory!Found(word, pages.found)})
        \cup (IF node = None THEN {} ELSE {Directory!Node(node)})
  BY DEF Directory!InUse
<1>4. /\ \A q \in K : \E n \in open : q = Directory!Kids(n, pages.kids[n])
      /\ \A n \in open : Directory!Kids(n, pages.kids[n]) \in K
  OBVIOUS
<1> HIDE DEF K
<1>5. QED
  BY <1>2, <1>3, <1>4

\* What is typed, as the steps use it.
LEMMA DirectoryFacts ==
  ASSUME Directory!ConstantsOK, DirectoryInv
  PROVE  /\ Directory!TypeOK /\ Families /\ Calling /\ ReadWhileAsked
         /\ keyword \in TenantKeywords \cup {None} /\ pageOf \in PageChoices
         /\ expanded \in SUBSET Tenants /\ chosen \in Directory!TenantOrNone
         /\ job \in Jobs /\ alive \in SUBSET Tenants
         /\ adrift \subseteq {"roots", "found", "kids"} /\ ghost \in BOOLEAN /\ troubled \in BOOLEAN
         /\ asked \subseteq Directory!Queries /\ Directory!Active \subseteq Directory!Queries
         /\ shownRows \in [Directory!Queries -> Directory!Rows]
         /\ fetched \in [Directory!Queries -> Directory!Rows]
         /\ missed \subseteq Directory!Queries
         /\ chosen # None => above[chosen] # Unborn
         /\ \A n \in Directory!TenantOrNone : n # None => n \in Tenants
<1>1. Directory!TypeOK /\ Families /\ Calling /\ ReadWhileAsked
  BY DEF DirectoryInv, DirectoryShape
<1>2. /\ keyword \in TenantKeywords \cup {None} /\ pageOf \in PageChoices
      /\ expanded \in SUBSET Tenants /\ chosen \in Directory!TenantOrNone
      /\ job \in Jobs /\ alive \in SUBSET Tenants
      /\ adrift \subseteq {"roots", "found", "kids"} /\ ghost \in BOOLEAN /\ troubled \in BOOLEAN
      /\ asked \subseteq Directory!Queries
      /\ shownRows \in [Directory!Queries -> Directory!Rows]
      /\ fetched \in [Directory!Queries -> Directory!Rows]
      /\ missed \subseteq Directory!Queries
  BY <1>1 DEF Directory!TypeOK, PageChoices, Jobs
<1>3. Directory!Active \subseteq Directory!Queries
  BY <1>2, UsesAre DEF Directory!Active
<1>4. QED
  BY <1>1, <1>2, <1>3 DEF Families, Directory!TenantOrNone

\* The types, with the new values of what a step changes.
LEMMA TypesNext ==
  ASSUME Directory!TypeOK,
         above' \in [Tenants -> Tenants \cup {None, Unborn}], alive' \subseteq Tenants,
         expanded' \in SUBSET Tenants, keyword' \in TenantKeywords \cup {None},
         chosen' \in Directory!TenantOrNone, pageOf' \in PageChoices,
         shownRows' \in [Directory!Queries -> Directory!Rows],
         fetched' \in [Directory!Queries -> Directory!Rows],
         asked' \subseteq Directory!Queries, missed' \subseteq Directory!Queries, job' \in Jobs,
         ghost' \in BOOLEAN, troubled' \in BOOLEAN, adrift' \subseteq {"roots", "found", "kids"}
  PROVE  Directory!TypeOK'
BY DEF Directory!TypeOK, PageChoices, Jobs

---------------------------------------------------------------------------
(* The visitor *)

\* The visitor changes what is shown; or a call starts, or is over.
LEMMA VisitorStep ==
  ASSUME Directory!ConstantsOK, DirectoryInv,
         NEW word \in TenantKeywords \cup {None}, NEW pages \in PageChoices,
         NEW open \in SUBSET Tenants, NEW node \in Directory!TenantOrNone,
         pageOf' = pages, keyword' = word, expanded' = open, chosen' = node,
         Directory!Asks(word, pages, open, node),
         UNCHANGED <<above, alive, shownRows, missed, troubled, fetched>>,
         adrift' \subseteq {"roots", "found", "kids"}, ghost' \in BOOLEAN,
         job' \in Jobs, Calling', (job.st # "served" /\ job'.st # "served") \/ UNCHANGED job,
         UNCHANGED job \/ job'.st # "settling",
         node # None => above[node] # Unborn,
         ~troubled /\ "roots" \notin adrift' /\ ~Leaving' =>
           InRange(pages.roots, Directory!Roots(0)),
         ~troubled /\ "found" \notin adrift' =>
           \/ pages.found = 0
           \/ word # None /\ InRange(pages.found, Directory!Found(word, 0)),
         ~troubled /\ "kids" \notin adrift' =>
           \A n \in Tenants : InRange(pages.kids[n], Directory!Kids(n, 0)),
         \/ /\ node = chosen
            /\ \/ UNCHANGED <<job, ghost>>
               \/ node # None /\ ~troubled => ghost' \/ node \in alive
         \/ node # chosen /\ (node = None \/ ghost' \/ node \in alive)
  PROVE  DirectoryInv'
<1>1. /\ Directory!Active' = Directory!InUse(word, pages, open, node)
      /\ Directory!Active' \subseteq Directory!Queries
  <2>1. Directory!Active' = Directory!InUse(word, pages, open, node)
    BY DEF Directory!Active, Directory!InUse
  <2>2. QED
    BY <2>1, UsesAre
<1>2. asked' = asked \cup {q \in Directory!Active' \ Directory!Active :
                             q \in Directory!KidsQueries => ~shownRows[q].known}
  BY <1>1 DEF Directory!Asks
<1>3. asked' \subseteq Directory!Queries /\ asked \subseteq asked'
  BY <1>1, <1>2, DirectoryFacts
<1>4. \A q \in Directory!Active' :
        q \notin asked' => \/ q \in Directory!Active
                           \/ q \in Directory!KidsQueries /\ shownRows[q].known
  BY <1>2
<1>5. \A q \in asked' \cap Directory!NodeQueries :
        q \in asked \/ (node # None /\ q = Directory!Node(node))
  <2>1. \A q \in Directory!Active' \cap Directory!NodeQueries : node # None /\ q = Directory!Node(node)
    <3>1. \A n \in open : n \in Tenants /\ pages.kids[n] \in Directory!Pages
      BY DEF PageChoices
    <3>2. pages.roots \in Directory!Pages /\ pages.found \in Directory!Pages
      BY DEF PageChoices
    <3>3. QED
      BY <1>1, <3>1, <3>2, UsesAre, QueryForms
  <2>2. QED
    BY <1>2, <2>1
<1>6. DirectoryShape'
  <2>1. Directory!TypeOK'
    BY <1>3, DirectoryFacts, TypesNext DEF Directory!TypeOK
  <2>2. \A q \in asked' \cap Directory!NodeQueries : above[q[2]] # Unborn
    <3>1. node # None => Directory!Node(node)[2] = node
      BY QueryForms DEF Directory!TenantOrNone
    <3>2. QED
      BY <1>5, <3>1, DirectoryFacts DEF Families
  <2>3. Families'
    BY <2>2, DirectoryFacts DEF Families
  <2>4. ReadWhileAsked'
    BY <1>3, DirectoryFacts DEF ReadWhileAsked
  <2>5. QED
    BY <2>1, <2>3, <2>4 DEF DirectoryShape
<1>7. ListsInv'
  <2>1. ASSUME NEW q, Sure(q)' PROVE Sure(q)
    BY <1>3, <1>4, <2>1 DEF Sure
  <2>2. \A q : Directory!Read(q)' = Directory!Read(q) /\ Amount(q)' = Amount(q)
    BY ReadStays
  <2>3. ~troubled => \A q \in ListQueries : q \in Directory!Active' /\ q \notin asked' =>
          shownRows[q].known
    BY <1>3, <1>4 DEF DirectoryInv, ListsInv
  <2>4. QED
    BY <2>1, <2>2, <2>3 DEF DirectoryInv, ListsInv
<1>8. RangeInv'
  <2>1. \A q : Amount(q)' = Amount(q)
    BY ReadStays
  <2>2. QED
    BY <2>1 DEF RangeInv, InRange
<1>9. DetailInv'
  <2>1. node # None => Directory!Node(node) \in Directory!Active'
    BY <1>1, UsesAre
  <2>2. node # None /\ node # chosen => Directory!Node(node) \in asked'
    <3>1. ASSUME node # None, node # chosen PROVE Directory!Node(node) \notin Directory!Active
      <4>1. /\ \A n \in expanded : n \in Tenants /\ pageOf.kids[n] \in Directory!Pages
            /\ pageOf.roots \in Directory!Pages /\ pageOf.found \in Directory!Pages
            /\ keyword \in TenantKeywords \cup {None} /\ chosen \in Directory!TenantOrNone
            /\ expanded \in SUBSET Tenants /\ pageOf \in PageChoices
        BY DirectoryFacts DEF PageChoices
      <4>2. node \in Tenants /\ (chosen # None => chosen \in Tenants)
        BY <3>1, <4>1 DEF Directory!TenantOrNone
      <4>3. \A q \in Directory!Active :
              q \in ListQueries \/ (chosen # None /\ q = Directory!Node(chosen))
        BY <4>1, UsesAre, QueryForms DEF Directory!Active
      <4>4. QED
        BY <3>1, <4>2, <4>3, QueryForms
    <3>2. node # None => Directory!Node(node) \notin Directory!KidsQueries
      BY QueryForms DEF Directory!TenantOrNone
    <3>3. QED
      BY <1>2, <2>1, <3>1, <3>2
  <2>3. CASE node = chosen
    BY <1>3, <2>3 DEF DirectoryInv, DetailInv
  <2>4. CASE node # chosen
    BY <2>2, <2>4 DEF DirectoryInv, DetailInv
  <2>5. QED
    BY <2>3, <2>4
<1>10. QED
  BY <1>6, <1>7, <1>8, <1>9 DEF DirectoryInv

\* The last page that the total of a page in use offers has rows, when it is known.
LEMMA OfferedInRange ==
  ASSUME Directory!ConstantsOK, DirectoryInv, ~troubled, job.does # "remove",
         NEW q \in ListQueries, Sure(q), NEW p \in Directory!Pages, p < Directory!TotalPages(q)
  PROVE  InRange(p, q)
<1>1. q \in Directory!Queries
  BY QueryForms
<1>2. shownRows[q] \in Directory!Rows /\ p \in Nat
  BY <1>1, TenantsFinite DEF DirectoryInv, DirectoryShape, Directory!TypeOK
<1>3. shownRows[q].total \in Nat
  BY <1>2, TenantsFinite DEF Directory!Rows
<1>4. p = 0 \/ p * TenantPage < shownRows[q].total
  BY <1>2, <1>3, PageOffered
<1>5. shownRows[q].total <= Amount(q)
  BY DEF DirectoryInv, ListsInv
<1>6. Amount(q) \in Nat
  BY <1>1, ReadIs, DirectoryFacts
<1>7. PICK k \in Nat : k = p * TenantPage
  BY <1>2, TenantsFinite
<1>8. QED
  BY <1>3, <1>4, <1>5, <1>6, <1>7 DEF InRange

\* A page that is chosen is in the range of its list, or the list is adrift.
LEMMA PageChosen ==
  ASSUME Directory!ConstantsOK, DirectoryInv, NEW list \in {"roots", "found", "kids"},
         NEW q \in ListQueries, q \in Directory!Active, NEW p \in Directory!Pages,
         Directory!Offered(q, p), Directory!Drifts(list, q)
  PROVE  /\ adrift' \subseteq {"roots", "found", "kids"} /\ adrift \subseteq adrift'
         /\ ~troubled /\ list \notin adrift' => InRange(p, q)
<1>1. adrift \subseteq {"roots", "found", "kids"}
  BY DirectoryFacts
<1>2. CASE q \in asked \cup missed \/ job.does = "remove"
  BY <1>1, <1>2 DEF Directory!Drifts
<1>3. CASE ~(q \in asked \cup missed \/ job.does = "remove")
  <2>1. adrift' = adrift /\ (~troubled => shownRows[q].known)
    BY <1>3 DEF Directory!Drifts, DirectoryInv, ListsInv
  <2>2. ASSUME ~troubled PROVE Sure(q) /\ p < Directory!TotalPages(q)
    BY <1>3, <2>1, <2>2 DEF Sure, Directory!Offered
  <2>3. QED
    BY <1>1, <1>3, <2>1, <2>2, OfferedInRange
<1>4. QED
  BY <1>2, <1>3

\* The pages of one list are of one amount.
LEMMA AmountOfList ==
  ASSUME Directory!ConstantsOK
  PROVE  /\ \A p \in Directory!Pages : Amount(Directory!Roots(p)) = Amount(Directory!Roots(0))
         /\ \A w \in TenantKeywords, p \in Directory!Pages :
              Amount(Directory!Found(w, p)) = Amount(Directory!Found(w, 0))
         /\ \A n \in Tenants, p \in Directory!Pages :
              Amount(Directory!Kids(n, p)) = Amount(Directory!Kids(n, 0))
<1>1. ASSUME NEW q1, NEW q2, q1[1] = q2[1], q1[2] = q2[2] PROVE Amount(q1) = Amount(q2)
  BY <1>1 DEF Amount, Directory!ListOf
<1>2. 0 \in Directory!Pages
  BY TenantsFinite
<1>3. QED
  BY <1>1, <1>2, QueryForms

\* The pages chosen are as they were.
LEMMA PagesStay ==
  ASSUME Directory!ConstantsOK, DirectoryInv, UNCHANGED <<adrift, job>>
  PROVE  /\ ~troubled /\ "roots" \notin adrift' /\ ~Leaving' =>
              InRange(pageOf.roots, Directory!Roots(0))
         /\ ~troubled /\ "found" \notin adrift' =>
              \/ pageOf.found = 0
              \/ keyword # None /\ InRange(pageOf.found, Directory!Found(keyword, 0))
         /\ ~troubled /\ "kids" \notin adrift' =>
              \A n \in Tenants : InRange(pageOf.kids[n], Directory!Kids(n, 0))
  BY DEF DirectoryInv, RangeInv, Leaving

LEMMA ToggleExpandStep ==
  ASSUME Directory!ConstantsOK, DirectoryInv, NEW n \in Tenants, Directory!toggleExpand(n)
  PROVE  DirectoryInv'
<1>1. PICK open \in SUBSET Tenants :
        /\ expanded' = open /\ Directory!Asks(keyword, pageOf, open, chosen)
        /\ UNCHANGED <<above, alive, keyword, pageOf, chosen, shownRows, job, missed, ghost,
                       adrift, troubled, fetched>>
  BY DirectoryFacts DEF Directory!toggleExpand
<1>2. Calling'
  BY <1>1, DirectoryFacts DEF Calling
<1>3. QED
  BY <1>1, <1>2, DirectoryFacts, PagesStay, VisitorStep

LEMMA SelectStep ==
  ASSUME Directory!ConstantsOK, DirectoryInv, NEW n \in Tenants \cup {None},
         Directory!handleSelectNode(n)
  PROVE  DirectoryInv'
<1>1. /\ n = None \/ above[n] # Unborn
      /\ n # chosen /\ chosen' = n
      /\ Directory!Asks(keyword, pageOf, expanded, n)
      /\ ghost' = (n # None /\ (n \notin alive \/ job.does = "remove"))
      /\ UNCHANGED <<above, alive, keyword, pageOf, expanded, shownRows, job, missed, adrift,
                     troubled, fetched>>
  BY DEF Directory!handleSelectNode, Directory!Shown, Directory!Born
<1>2. n \in Directory!TenantOrNone
  BY DEF Directory!TenantOrNone
<1>3. ghost' \in BOOLEAN /\ (n = None \/ ghost' \/ n \in alive)
  BY <1>1
<1>4. Calling'
  BY <1>1, DirectoryFacts DEF Calling
<1>5. QED
  BY <1>1, <1>2, <1>3, <1>4, DirectoryFacts, PagesStay, VisitorStep

LEMMA SearchStep ==
  ASSUME Directory!ConstantsOK, DirectoryInv, NEW word \in TenantKeywords \cup {None},
         Directory!onTreeSearchChange(word)
  PROVE  DirectoryInv'
<1>1. PICK open \in SUBSET Tenants, pages \in PageChoices :
        /\ pages.roots = pageOf.roots /\ pages.found = 0
        /\ \A n \in Tenants : pages.kids[n] \in {0, pageOf.kids[n]}
        /\ word # keyword /\ keyword' = word /\ pageOf' = pages /\ expanded' = open
        /\ Directory!Asks(word, pages, open, chosen)
        /\ UNCHANGED <<above, alive, chosen, shownRows, job, missed, ghost, adrift, troubled,
                       fetched>>
  <2>1. /\ [pageOf EXCEPT !.found = 0] \in PageChoices
        /\ [Directory!FirstPages EXCEPT !.roots = pageOf.roots] \in PageChoices
        /\ [pageOf EXCEPT !.found = 0].roots = pageOf.roots
        /\ [pageOf EXCEPT !.found = 0].found = 0
        /\ [pageOf EXCEPT !.found = 0].kids = pageOf.kids
        /\ [Directory!FirstPages EXCEPT !.roots = pageOf.roots].roots = pageOf.roots
        /\ [Directory!FirstPages EXCEPT !.roots = pageOf.roots].found = 0
        /\ \A n \in Tenants : [Directory!FirstPages EXCEPT !.roots = pageOf.roots].kids[n] = 0
    BY DirectoryFacts, TenantsFinite DEF PageChoices, Directory!FirstPages
  <2>2. CASE word = None
    BY <2>1, <2>2, DirectoryFacts DEF Directory!onTreeSearchChange
  <2>3. CASE word # None
    BY <2>1, <2>3 DEF Directory!onTreeSearchChange
  <2>4. QED
    BY <2>2, <2>3
<1>2. Calling'
  BY <1>1, DirectoryFacts DEF Calling
<1>3. ~troubled /\ "kids" \notin adrift' =>
        \A n \in Tenants : InRange(pages.kids[n], Directory!Kids(n, 0))
  BY <1>1, PagesStay DEF InRange
<1>4. QED
  BY <1>1, <1>2, <1>3, DirectoryFacts, PagesStay, VisitorStep

LEMMA RootPageStep ==
  ASSUME Directory!ConstantsOK, DirectoryInv, NEW p \in Directory!Pages,
         Directory!handleRootPageChange(p)
  PROVE  DirectoryInv'
<1>1. PICK pages \in PageChoices :
        /\ pages.roots = p /\ pages.found = pageOf.found
        /\ \A n \in Tenants : pages.kids[n] = 0
        /\ keyword = None /\ Directory!Offered(Directory!Roots(pageOf.roots), p)
        /\ pageOf' = pages /\ expanded' = {}
        /\ Directory!Asks(keyword, pages, {}, chosen)
        /\ Directory!Drifts("roots", Directory!Roots(pageOf.roots))
        /\ UNCHANGED <<above, alive, keyword, chosen, shownRows, job, missed, ghost, troubled,
                       fetched>>
  <2>1. PICK pages : pages = [Directory!FirstPages EXCEPT !.roots = p, !.found = pageOf.found]
    OBVIOUS
  <2>2. /\ pages \in PageChoices /\ pages.roots = p /\ pages.found = pageOf.found
        /\ \A n \in Tenants : pages.kids[n] = 0
    BY <2>1, DirectoryFacts, TenantsFinite DEF PageChoices, Directory!FirstPages
  <2>3. QED
    BY <2>1, <2>2 DEF Directory!handleRootPageChange
<1>2. Calling'
  BY <1>1, DirectoryFacts DEF Calling
<1>3. /\ adrift' \subseteq {"roots", "found", "kids"} /\ adrift \subseteq adrift'
      /\ ~troubled /\ "roots" \notin adrift' => InRange(p, Directory!Roots(0))
  <2>1. pageOf.roots \in Directory!Pages /\ Directory!Roots(pageOf.roots) \in ListQueries
    BY DirectoryFacts, QueryForms DEF PageChoices
  <2>2. Directory!Roots(pageOf.roots) \in Directory!Active
    BY <1>1, DirectoryFacts, UsesAre DEF Directory!Active
  <2>3. QED
    BY <1>1, <2>1, <2>2, PageChosen, AmountOfList DEF InRange
<1>4. ~troubled /\ "found" \notin adrift' =>
        \/ pages.found = 0
        \/ keyword # None /\ InRange(pages.found, Directory!Found(keyword, 0))
  BY <1>1, <1>3 DEF DirectoryInv, RangeInv
<1>5. ~troubled /\ "kids" \notin adrift' =>
        \A n \in Tenants : InRange(pages.kids[n], Directory!Kids(n, 0))
  BY <1>1 DEF InRange
<1>6. QED
  BY <1>1, <1>2, <1>3, <1>4, <1>5, DirectoryFacts, VisitorStep

LEMMA SearchPageStep ==
  ASSUME Directory!ConstantsOK, DirectoryInv, NEW p \in Directory!Pages,
         Directory!handleSearchPageChange(p)
  PROVE  DirectoryInv'
<1>1. PICK pages \in PageChoices :
        /\ pages.roots = pageOf.roots /\ pages.found = p /\ pages.kids = pageOf.kids
        /\ keyword # None /\ Directory!Offered(Directory!Found(keyword, pageOf.found), p)
        /\ pageOf' = pages /\ UNCHANGED expanded
        /\ Directory!Asks(keyword, pages, expanded, chosen)
        /\ Directory!Drifts("found", Directory!Found(keyword, pageOf.found))
        /\ UNCHANGED <<above, alive, keyword, chosen, shownRows, job, missed, ghost, troubled,
                       fetched>>
  <2>1. PICK pages : pages = [pageOf EXCEPT !.found = p]
    OBVIOUS
  <2>2. /\ pages \in PageChoices /\ pages.roots = pageOf.roots /\ pages.found = p
        /\ pages.kids = pageOf.kids
    BY <2>1, DirectoryFacts DEF PageChoices
  <2>3. QED
    BY <2>1, <2>2 DEF Directory!handleSearchPageChange
<1>2. Calling'
  BY <1>1, DirectoryFacts DEF Calling
<1>3. /\ adrift' \subseteq {"roots", "found", "kids"} /\ adrift \subseteq adrift'
      /\ ~troubled /\ "found" \notin adrift' => InRange(p, Directory!Found(keyword, 0))
  <2>1. /\ pageOf.found \in Directory!Pages /\ keyword \in TenantKeywords
        /\ Directory!Found(keyword, pageOf.found) \in ListQueries
    BY <1>1, DirectoryFacts, QueryForms DEF PageChoices
  <2>2. Directory!Found(keyword, pageOf.found) \in Directory!Active
    BY <1>1, DirectoryFacts, UsesAre DEF Directory!Active
  <2>3. QED
    BY <1>1, <2>1, <2>2, PageChosen, AmountOfList DEF InRange
<1>4. /\ ~troubled /\ "roots" \notin adrift' /\ ~Leaving' =>
           InRange(pages.roots, Directory!Roots(0))
      /\ ~troubled /\ "kids" \notin adrift' =>
           \A n \in Tenants : InRange(pages.kids[n], Directory!Kids(n, 0))
  BY <1>1, <1>3 DEF DirectoryInv, RangeInv, Leaving
<1>5. QED
  BY <1>1, <1>2, <1>3, <1>4, DirectoryFacts, VisitorStep

LEMMA ChildPageStep ==
  ASSUME Directory!ConstantsOK, DirectoryInv, NEW n \in Tenants, NEW p \in Directory!Pages,
         Directory!handleChildPageChange(n, p)
  PROVE  DirectoryInv'
<1>1. PICK pages \in PageChoices :
        /\ pages.roots = pageOf.roots /\ pages.found = pageOf.found
        /\ \A m \in Tenants : pages.kids[m] = IF m = n THEN p ELSE pageOf.kids[m]
        /\ keyword = None /\ n \in expanded
        /\ Directory!Offered(Directory!Kids(n, pageOf.kids[n]), p)
        /\ pageOf' = pages /\ UNCHANGED expanded
        /\ Directory!Asks(keyword, pages, expanded, chosen)
        /\ Directory!Drifts("kids", Directory!Kids(n, pageOf.kids[n]))
        /\ UNCHANGED <<above, alive, keyword, chosen, shownRows, job, missed, ghost, troubled,
                       fetched>>
  <2>1. PICK pages : pages = [pageOf EXCEPT !.kids = [pageOf.kids EXCEPT ![n] = p]]
    OBVIOUS
  <2>2. pageOf.kids \in [Tenants -> Directory!Pages]
    BY DirectoryFacts DEF PageChoices
  <2>3. [pageOf.kids EXCEPT ![n] = p] \in [Tenants -> Directory!Pages]
    BY <2>2
  <2>4. /\ pages \in PageChoices /\ pages.roots = pageOf.roots /\ pages.found = pageOf.found
        /\ pages.kids = [pageOf.kids EXCEPT ![n] = p]
    BY <2>1, <2>3, DirectoryFacts DEF PageChoices
  <2>5. \A m \in Tenants : pages.kids[m] = IF m = n THEN p ELSE pageOf.kids[m]
    BY <2>2, <2>4
  <2>6. pages = [pageOf EXCEPT !.kids[n] = p]
    BY <2>1, DirectoryFacts
  <2>7. QED
    BY <2>4, <2>5, <2>6 DEF Directory!handleChildPageChange
<1>2. Calling'
  BY <1>1, DirectoryFacts DEF Calling
<1>3. /\ adrift' \subseteq {"roots", "found", "kids"} /\ adrift \subseteq adrift'
      /\ ~troubled /\ "kids" \notin adrift' => InRange(p, Directory!Kids(n, 0))
  <2>1. /\ pageOf.kids[n] \in Directory!Pages
        /\ Directory!Kids(n, pageOf.kids[n]) \in ListQueries
    BY DirectoryFacts, QueryForms DEF PageChoices
  <2>2. Directory!Kids(n, pageOf.kids[n]) \in Directory!Active
    BY <1>1, DirectoryFacts, UsesAre DEF Directory!Active
  <2>3. QED
    BY <1>1, <2>1, <2>2, PageChosen, AmountOfList DEF InRange
<1>4. /\ ~troubled /\ "roots" \notin adrift' /\ ~Leaving' =>
           InRange(pages.roots, Directory!Roots(0))
      /\ ~troubled /\ "found" \notin adrift' =>
           \/ pages.found = 0
           \/ keyword # None /\ InRange(pages.found, Directory!Found(keyword, 0))
      /\ ~troubled /\ "kids" \notin adrift' =>
           \A m \in Tenants : InRange(pageOf.kids[m], Directory!Kids(m, 0))
  BY <1>1, <1>3 DEF DirectoryInv, RangeInv, Leaving
<1>5. ~troubled /\ "kids" \notin adrift' =>
        \A m \in Tenants : InRange(pages.kids[m], Directory!Kids(m, 0))
  BY <1>1, <1>3, <1>4
<1>6. QED
  BY <1>1, <1>2, <1>3, <1>4, <1>5, DirectoryFacts, VisitorStep

LEMMA NoJobTyped ==
  /\ Directory!NoJob \in Jobs /\ Directory!NoJob.st = "none" /\ Directory!NoJob.does = "none"
  BY DEF Directory!NoJob, Jobs, Directory!TenantOrNone

LEMMA SentTyped ==
  ASSUME NEW does \in {"create", "update", "remove"}, NEW n \in Tenants,
         NEW parent \in Directory!TenantOrNone
  PROVE  /\ Directory!Sent(does, n, parent) \in Jobs
         /\ Directory!Sent(does, n, parent).st = "sent"
         /\ Directory!Sent(does, n, parent).does = does
         /\ Directory!Sent(does, n, parent).node = n
         /\ Directory!Sent(does, n, parent).parent = parent
<1>1. PICK none \in Jobs : none = Directory!NoJob
  BY NoJobTyped
<1>2. Directory!Sent(does, n, parent) =
        [none EXCEPT !.st = "sent", !.does = does, !.node = n, !.parent = parent]
  BY <1>1 DEF Directory!Sent
<1>3. n \in Directory!TenantOrNone
  BY DEF Directory!TenantOrNone
<1>4. QED
  BY <1>2, <1>3 DEF Jobs

LEMMA AddChildStep ==
  ASSUME Directory!ConstantsOK, DirectoryInv, NEW n \in Tenants, NEW parent \in Tenants,
         Directory!openAddChild(n, parent)
  PROVE  DirectoryInv'
<1>1. PICK open :
        /\ open \in SUBSET Tenants
        /\ job = Directory!NoJob /\ above[n] = Unborn /\ above[parent] # Unborn
        /\ expanded' = open /\ chosen' = parent
        /\ Directory!Asks(keyword, pageOf, open, parent)
        /\ ghost' = (parent \notin alive)
        /\ job' = Directory!Sent("create", n, parent)
        /\ UNCHANGED <<above, alive, keyword, pageOf, shownRows, missed, adrift, troubled,
                       fetched>>
  BY DirectoryFacts DEF Directory!openAddChild, Directory!Shown, Directory!Born
<1>2. parent \in Directory!TenantOrNone /\ parent # None /\ parent # n
  BY <1>1, TenantsFinite DEF Directory!TenantOrNone
<1>3. job' \in Jobs /\ job'.st = "sent" /\ Calling' /\ job.st = "none" /\ job'.does = "create"
  BY <1>1, <1>2, SentTyped, NoJobTyped DEF Calling
<1>4. ghost' \in BOOLEAN /\ (ghost' \/ parent \in alive)
  BY <1>1
<1>5. /\ ~troubled /\ "roots" \notin adrift' /\ ~Leaving' =>
           InRange(pageOf.roots, Directory!Roots(0))
      /\ ~troubled /\ "found" \notin adrift' =>
           \/ pageOf.found = 0
           \/ keyword # None /\ InRange(pageOf.found, Directory!Found(keyword, 0))
      /\ ~troubled /\ "kids" \notin adrift' =>
           \A m \in Tenants : InRange(pageOf.kids[m], Directory!Kids(m, 0))
  BY <1>1, <1>3, NoJobTyped DEF DirectoryInv, RangeInv, Leaving
<1>6. QED
  BY <1>1, <1>2, <1>3, <1>4, <1>5, DirectoryFacts, VisitorStep


\* The tenant whose detail is in use is the selected one.
LEMMA ActiveDetail ==
  ASSUME Directory!ConstantsOK, DirectoryInv, NEW q \in Directory!Active \cap Directory!NodeQueries
  PROVE  chosen # None /\ q = Directory!Node(chosen) /\ q[2] = chosen /\ above[q[2]] # Unborn
<1>1. /\ \A n \in expanded : n \in Tenants /\ pageOf.kids[n] \in Directory!Pages
      /\ pageOf.roots \in Directory!Pages /\ pageOf.found \in Directory!Pages
      /\ keyword \in TenantKeywords \cup {None} /\ chosen \in Directory!TenantOrNone
      /\ expanded \in SUBSET Tenants /\ pageOf \in PageChoices
  BY DirectoryFacts DEF PageChoices
<1>2. \A r \in Directory!Active : r \in ListQueries \/ (chosen # None /\ r = Directory!Node(chosen))
  BY <1>1, UsesAre, QueryForms DEF Directory!Active
<1>3. chosen # None /\ q = Directory!Node(chosen)
  BY <1>2, QueryForms
<1>4. QED
  BY <1>1, <1>3, DirectoryFacts, QueryForms DEF Directory!TenantOrNone

\* A call starts or is refused, or all is read again.
LEMMA DirectoryQuiet ==
  ASSUME Directory!ConstantsOK, DirectoryInv,
         UNCHANGED <<above, alive, keyword, pageOf, expanded, chosen, shownRows, missed, ghost,
                     adrift, troubled>>,
         asked \subseteq asked', asked' \subseteq asked \cup Directory!Active,
         fetched' \in [Directory!Queries -> Directory!Rows],
         \A q \in Directory!Queries : fetched'[q].known => fetched'[q] = fetched[q],
         job' \in Jobs, Calling',
         UNCHANGED job \/ (job.st \in {"none", "sent"} /\ job'.st \in {"none", "sent"})
  PROVE  DirectoryInv'
<1>1. DirectoryShape'
  <2>1. asked' \subseteq Directory!Queries
    BY DirectoryFacts
  <2>2. Directory!TypeOK'
    BY <2>1, DirectoryFacts, TypesNext DEF Directory!TypeOK
  <2>3. \A q \in asked' \cap Directory!NodeQueries : above[q[2]] # Unborn
    BY ActiveDetail, DirectoryFacts DEF Families
  <2>4. Families'
    BY <2>3, DirectoryFacts DEF Families
  <2>5. ReadWhileAsked'
    BY DirectoryFacts DEF ReadWhileAsked
  <2>6. QED
    BY <2>2, <2>4, <2>5 DEF DirectoryShape
<1>2. ListsInv'
  <2>1. Directory!Active' = Directory!Active
    BY DEF Directory!Active
  <2>2. \A q : Sure(q)' => Sure(q)
    BY <2>1 DEF Sure
  <2>3. \A q : Directory!Read(q)' = Directory!Read(q) /\ Amount(q)' = Amount(q)
    BY ReadStays
  <2>4. QED
    BY <2>1, <2>2, <2>3, QueryForms DEF DirectoryInv, ListsInv
<1>3. RangeInv'
  <2>1. \A q : Amount(q)' = Amount(q)
    BY ReadStays
  <2>2. QED
    BY <2>1 DEF DirectoryInv, RangeInv, InRange, Leaving
<1>4. DetailInv'
  <2>1. \A n \in alive : Directory!Node(n) \in Directory!Queries
    BY QueryForms, DirectoryFacts
  <2>2. QED
    BY <2>1 DEF DirectoryInv, DetailInv
<1>5. QED
  BY <1>1, <1>2, <1>3, <1>4 DEF DirectoryInv

\* After a failed call, or what somebody else did, only the types are claimed.
LEMMA TroubledStep ==
  ASSUME DirectoryShape', troubled' PROVE DirectoryInv'
  BY DEF DirectoryInv, ListsInv, RangeInv, DetailInv

\* What is in use is asked for; the calls that had rows begin anew.
LEMMA AskedAnew ==
  ASSUME Directory!ConstantsOK, DirectoryInv, Directory!invalidateTenantQueries
  PROVE  /\ asked' = asked \cup Directory!Active /\ asked' \subseteq Directory!Queries
         /\ fetched' \in [Directory!Queries -> Directory!Rows]
         /\ \A q \in Directory!Queries :
              /\ fetched'[q].known => fetched'[q] = fetched[q]
              /\ q \in Directory!Active /\ shownRows[q].known => ~fetched'[q].known
<1>1. /\ asked' = asked \cup Directory!Active
      /\ fetched' = [q \in Directory!Queries |->
                       IF q \in Directory!Active /\ shownRows[q].known THEN Directory!NoRows
                       ELSE fetched[q]]
  BY DEF Directory!invalidateTenantQueries
<1>2. Directory!NoRows \in Directory!Rows /\ ~Directory!NoRows.known
  BY TenantsFinite DEF Directory!NoRows, Directory!Rows
<1>3. QED
  BY <1>1, <1>2, DirectoryFacts

LEMMA TenantRefreshStep ==
  ASSUME Directory!ConstantsOK, DirectoryInv, Directory!onRefresh PROVE DirectoryInv'
<1>1. /\ Directory!invalidateTenantQueries
      /\ UNCHANGED <<above, alive, keyword, pageOf, expanded, chosen, shownRows, job, missed,
                     ghost, adrift, troubled>>
  BY DEF Directory!onRefresh
<1>2. Calling' /\ job' \in Jobs
  BY <1>1, DirectoryFacts DEF Calling
<1>3. QED
  BY <1>1, <1>2, AskedAnew, DirectoryQuiet

LEMMA SubmitStep ==
  ASSUME Directory!ConstantsOK, DirectoryInv, NEW n \in Tenants,
         NEW does \in {"create", "update", "remove"}, Directory!Submit(does, n)
  PROVE  DirectoryInv'
<1>1. /\ job = Directory!NoJob
      /\ IF does = "create" THEN above[n] = Unborn ELSE above[n] # Unborn
      /\ job' = Directory!Sent(does, n, IF does = "create" THEN None ELSE above[n])
      /\ UNCHANGED <<above, alive, keyword, pageOf, expanded, chosen, shownRows, asked, missed,
                     ghost, adrift, troubled, fetched>>
  BY DEF Directory!Submit, Directory!Shown, Directory!Born
<1>2. PICK parent \in Directory!TenantOrNone :
        /\ job' = Directory!Sent(does, n, parent)
        /\ parent # None => above[parent] # Unborn
        /\ parent # n
  <2>1. CASE does = "create"
    BY <1>1, <2>1, TenantsFinite DEF Directory!TenantOrNone
  <2>2. CASE does # "create"
    <3>1. above[n] \in Tenants \cup {None} /\ above[n] # n
      BY <1>1, <2>2 DEF DirectoryInv, DirectoryShape, Families, Directory!TypeOK
    <3>2. above[n] # None => above[above[n]] # Unborn
      BY <3>1 DEF DirectoryInv, DirectoryShape, Families
    <3>3. QED
      BY <1>1, <2>2, <3>1, <3>2 DEF Directory!TenantOrNone
  <2>3. QED
    BY <2>1, <2>2
<1>3. job' \in Jobs /\ job'.st = "sent" /\ Calling' /\ job.st = "none"
  BY <1>1, <1>2, SentTyped, NoJobTyped DEF Calling
<1>4. QED
  BY <1>1, <1>3, DirectoryFacts, DirectoryQuiet

---------------------------------------------------------------------------
(* The queries answer, and the call goes on *)

\* The server reads, and no call changed anything since.
LEMMA ServeStep ==
  ASSUME Directory!ConstantsOK, DirectoryInv, NEW q \in asked, Directory!Serve(q)
  PROVE  DirectoryInv'
<1>1. /\ fetched' = [fetched EXCEPT ![q] = Directory!Read(q)]
      /\ missed' = missed \ {q}
      /\ UNCHANGED <<above, alive, keyword, pageOf, expanded, chosen, shownRows, asked, job, ghost,
                     adrift, troubled>>
  BY DEF Directory!Serve
<1>2. q \in Directory!Queries /\ Directory!Read(q) \in Directory!Rows
  BY DirectoryFacts, ReadIs
<1>3. /\ fetched' \in [Directory!Queries -> Directory!Rows]
      /\ fetched'[q] = Directory!Read(q)
      /\ \A r \in Directory!Queries : r # q => fetched'[r] = fetched[r]
  BY <1>1, <1>2, DirectoryFacts
<1>4. DirectoryShape'
  <2>1. Directory!TypeOK'
    BY <1>1, <1>3, DirectoryFacts, TypesNext DEF Directory!TypeOK
  <2>2. Families' /\ Calling'
    BY <1>1, DirectoryFacts DEF Families, Calling
  <2>3. ReadWhileAsked'
    BY <1>1, <1>3, DirectoryFacts DEF ReadWhileAsked
  <2>4. QED
    BY <2>1, <2>2, <2>3 DEF DirectoryShape
<1>5. ListsInv'
  <2>1. Directory!Active' = Directory!Active
    BY <1>1 DEF Directory!Active
  <2>2. \A r : Sure(r)' => Sure(r)
    BY <1>1, <2>1 DEF Sure
  <2>3. \A r : Directory!Read(r)' = Directory!Read(r) /\ Amount(r)' = Amount(r)
    BY <1>1, ReadStays
  <2>4. ~troubled => \A r \in ListQueries : fetched'[r].known /\ r \notin missed' =>
          fetched'[r] = Directory!Read(r)
    BY <1>1, <1>3, QueryForms DEF DirectoryInv, ListsInv
  <2>5. QED
    BY <1>1, <2>1, <2>2, <2>3, <2>4 DEF DirectoryInv, ListsInv
<1>6. RangeInv'
  <2>1. \A r : Amount(r)' = Amount(r)
    BY <1>1, ReadStays
  <2>2. QED
    BY <1>1, <2>1 DEF DirectoryInv, RangeInv, InRange, Leaving
<1>7. DetailInv'
  <2>1. ASSUME NEW n \in alive, ~troubled, fetched'[Directory!Node(n)].known
        PROVE  fetched'[Directory!Node(n)].rows = {n}
    <3>1. /\ Directory!Node(n) \in Directory!Queries /\ Directory!Node(n) \in Directory!NodeQueries
          /\ Directory!Node(n)[2] = n
      BY QueryForms, DirectoryFacts
    <3>2. Directory!Read(Directory!Node(n)).rows = {n}
      BY <3>1, ReadIs, DirectoryFacts
    <3>3. QED
      BY <1>3, <2>1, <3>1, <3>2 DEF DirectoryInv, DetailInv
  <2>2. QED
    BY <1>1, <2>1 DEF DirectoryInv, DetailInv
<1>8. QED
  BY <1>4, <1>5, <1>6, <1>7 DEF DirectoryInv

\* A call of a query is over.
LEMMA EndsAre ==
  ASSUME Directory!ConstantsOK, DirectoryInv, NEW q \in asked, Directory!Ends(q), UNCHANGED above
  PROVE  /\ q \in Directory!Queries
         /\ asked' = asked \ {q} /\ asked' \subseteq Directory!Queries
         /\ fetched' \in [Directory!Queries -> Directory!Rows] /\ ~fetched'[q].known
         /\ \A r \in Directory!Queries : r # q => fetched'[r] = fetched[r]
         /\ job' \in Jobs /\ Calling'
         /\ job'.st = job.st /\ job'.does = job.does /\ job'.node = job.node
         /\ job'.parent = job.parent /\ job'.moves = job.moves
         /\ ReadWhileAsked'
<1>1. /\ asked' = asked \ {q} /\ fetched' = [fetched EXCEPT ![q] = Directory!NoRows]
      /\ job' = [job EXCEPT !.waits = @ \ {q}]
  BY DEF Directory!Ends
<1>2. /\ job' \in Jobs
      /\ job'.st = job.st /\ job'.does = job.does /\ job'.node = job.node
      /\ job'.parent = job.parent /\ job'.moves = job.moves
  BY <1>1, DirectoryFacts DEF Jobs
<1>3. Calling'
  BY <1>2, DirectoryFacts DEF Calling
<1>4. Directory!NoRows \in Directory!Rows /\ ~Directory!NoRows.known
  BY TenantsFinite DEF Directory!NoRows, Directory!Rows
<1>5. /\ q \in Directory!Queries
      /\ fetched' \in [Directory!Queries -> Directory!Rows] /\ ~fetched'[q].known
      /\ \A r \in Directory!Queries : r # q => fetched'[r] = fetched[r]
  BY <1>1, <1>4, DirectoryFacts
<1>6. ReadWhileAsked'
  BY <1>1, <1>5, DirectoryFacts DEF ReadWhileAsked
<1>7. QED
  BY <1>1, <1>2, <1>3, <1>5, <1>6, DirectoryFacts

LEMMA TenantAnswerStep ==
  ASSUME Directory!ConstantsOK, DirectoryInv, NEW q \in asked, Directory!Answer(q)
  PROVE  DirectoryInv'
<1>1. /\ fetched[q].known
      /\ shownRows' = IF q \in Directory!NodeQueries /\ fetched[q].rows = {} THEN shownRows
                      ELSE [shownRows EXCEPT ![q] = fetched[q]]
      /\ Directory!Ends(q)
      /\ UNCHANGED <<above, alive, keyword, pageOf, expanded, chosen, missed, ghost, adrift,
                     troubled>>
  BY DEF Directory!Answer
<1>2. /\ q \in Directory!Queries
      /\ asked' = asked \ {q} /\ asked' \subseteq Directory!Queries
      /\ fetched' \in [Directory!Queries -> Directory!Rows] /\ ~fetched'[q].known
      /\ \A r \in Directory!Queries : r # q => fetched'[r] = fetched[r]
      /\ job' \in Jobs /\ Calling' /\ ReadWhileAsked'
      /\ job'.st = job.st /\ job'.does = job.does /\ job'.node = job.node
      /\ job'.moves = job.moves
  BY <1>1, EndsAre
<1>3. /\ shownRows' \in [Directory!Queries -> Directory!Rows]
      /\ \A r \in Directory!Queries : r # q => shownRows'[r] = shownRows[r]
      /\ q \in ListQueries \/ fetched[q].rows # {} => shownRows'[q] = fetched[q]
  <2>1. q \in ListQueries => q \notin Directory!NodeQueries
    BY QueryForms
  <2>2. fetched[q] \in Directory!Rows
    BY <1>2, DirectoryFacts
  <2>3. CASE q \in Directory!NodeQueries /\ fetched[q].rows = {}
    BY <1>1, <2>1, <2>3, DirectoryFacts
  <2>4. CASE ~(q \in Directory!NodeQueries /\ fetched[q].rows = {})
    <3>1. shownRows' = [shownRows EXCEPT ![q] = fetched[q]]
      BY <1>1, <2>4
    <3>2. QED
      BY <1>2, <2>2, <3>1, DirectoryFacts
  <2>5. QED
    BY <2>3, <2>4
<1>4. DirectoryShape'
  <2>1. Directory!TypeOK'
    BY <1>1, <1>2, <1>3, DirectoryFacts, TypesNext DEF Directory!TypeOK
  <2>2. Families'
    BY <1>1, <1>2, DirectoryFacts DEF Families
  <2>3. QED
    BY <1>2, <2>1, <2>2 DEF DirectoryShape
<1>5. ListsInv'
  <2>1. Directory!Active' = Directory!Active
    BY <1>1 DEF Directory!Active
  <2>2. \A r : Directory!Read(r)' = Directory!Read(r) /\ Amount(r)' = Amount(r)
    BY <1>1, ReadStays
  <2>3. ASSUME ~troubled, NEW r \in ListQueries
        PROVE  /\ Sure(r)' /\ job'.st # "served" => shownRows'[r] = Directory!Read(r)
               /\ Sure(r)' /\ ~(job'.st = "served" /\ job'.does = "remove") =>
                    shownRows'[r].total <= Amount(r)
               /\ fetched'[r].known /\ r \notin missed => fetched'[r] = Directory!Read(r)
               /\ r \in Directory!Active /\ r \notin asked' => shownRows'[r].known
    <3>1. r \in Directory!Queries
      BY QueryForms
    <3>2. CASE r = q
      <4>1. shownRows'[r] = fetched[r] /\ fetched[r].known
        BY <1>1, <1>3, <2>3, <3>2
      <4>2. Sure(r)' => r \notin missed
        BY <1>1 DEF Sure
      <4>3. r \notin missed => fetched[r] = Directory!Read(r)
        BY <2>3, <4>1 DEF DirectoryInv, ListsInv
      <4>4. Directory!Read(r).total = Amount(r) /\ Amount(r) \in Nat
        BY <2>3, <3>1, ReadIs, DirectoryFacts
      <4>5. QED
        BY <1>2, <3>2, <4>1, <4>2, <4>3, <4>4
    <3>3. CASE r # q
      <4>1. shownRows'[r] = shownRows[r] /\ fetched'[r] = fetched[r] /\ (r \in asked' <=> r \in asked)
        BY <1>2, <1>3, <3>1, <3>3
      <4>2. Sure(r)' => Sure(r)
        BY <1>1, <2>1, <4>1 DEF Sure
      <4>3. QED
        BY <1>2, <2>3, <4>1, <4>2 DEF DirectoryInv, ListsInv
    <3>4. QED
      BY <3>2, <3>3
  <2>4. QED
    BY <1>1, <2>1, <2>2, <2>3 DEF ListsInv
<1>6. RangeInv'
  <2>1. \A r : Amount(r)' = Amount(r)
    BY <1>1, ReadStays
  <2>2. QED
    BY <1>1, <1>2, <2>1 DEF DirectoryInv, RangeInv, InRange, Leaving
<1>7. DetailInv'
  <2>1. \A n \in alive : Directory!Node(n) \in Directory!Queries
    BY QueryForms, DirectoryFacts
  <2>2. ASSUME chosen \in alive, Directory!Node(chosen) \notin asked', ~troubled, chosen # None
        PROVE  shownRows'[Directory!Node(chosen)].rows = {chosen}
    <3>1. CASE q = Directory!Node(chosen)
      <4>1. fetched[q].rows = {chosen}
        BY <1>1, <2>2, <3>1 DEF DirectoryInv, DetailInv
      <4>2. QED
        BY <1>3, <3>1, <4>1
    <3>2. CASE q # Directory!Node(chosen)
      <4>1. Directory!Node(chosen) \notin asked
        BY <1>2, <2>2, <3>2
      <4>2. QED
        BY <1>3, <2>1, <2>2, <3>2, <4>1 DEF DirectoryInv, DetailInv
    <3>3. QED
      BY <3>1, <3>2
  <2>3. \A n \in alive : ~troubled /\ fetched'[Directory!Node(n)].known =>
                           fetched'[Directory!Node(n)].rows = {n}
    BY <1>2, <2>1 DEF DirectoryInv, DetailInv
  <2>4. QED
    BY <1>1, <1>2, <2>2, <2>3 DEF DirectoryInv, DetailInv
<1>8. QED
  BY <1>4, <1>5, <1>6, <1>7 DEF DirectoryInv

LEMMA AnswerFailsStep ==
  ASSUME Directory!ConstantsOK, DirectoryInv, NEW q \in asked, Directory!AnswerFails(q)
  PROVE  DirectoryInv'
<1>1. /\ Directory!Ends(q) /\ troubled' = TRUE
      /\ UNCHANGED <<above, alive, keyword, pageOf, expanded, chosen, shownRows, missed, ghost,
                     adrift>>
  BY DEF Directory!AnswerFails
<1>2. /\ asked' = asked \ {q} /\ asked' \subseteq Directory!Queries
      /\ fetched' \in [Directory!Queries -> Directory!Rows]
      /\ job' \in Jobs /\ Calling' /\ ReadWhileAsked'
  BY <1>1, EndsAre
<1>3. Directory!TypeOK'
  BY <1>1, <1>2, DirectoryFacts, TypesNext DEF Directory!TypeOK
<1>4. Families'
  BY <1>1, <1>2, DirectoryFacts DEF Families
<1>5. QED
  BY <1>1, <1>2, <1>3, <1>4, TroubledStep DEF DirectoryShape

\* Creating a tenant leaves the families whole.
LEMMA FamiliesGrow ==
  ASSUME Directory!ConstantsOK, Directory!TypeOK, Families, NEW n \in Tenants,
         NEW parent \in Directory!TenantOrNone, above[n] = Unborn, parent # n,
         parent # None => above[parent] # Unborn,
         above' = [above EXCEPT ![n] = parent], alive' = alive \cup {n}, UNCHANGED <<chosen, asked>>
  PROVE  /\ Families' /\ alive' \subseteq Tenants
         /\ above' \in [Tenants -> Tenants \cup {None, Unborn}]
         /\ \A m \in Tenants : m # n => above'[m] = above[m]
         /\ \A m \in Tenants : above[m] # Unborn => above'[m] # Unborn
         /\ n \notin alive /\ above'[n] = parent
<1>1. /\ above \in [Tenants -> Tenants \cup {None, Unborn}] /\ alive \subseteq Tenants
      /\ chosen \in Tenants \cup {None} /\ parent \in Tenants \cup {None}
      /\ None \notin Tenants /\ Unborn \notin Tenants /\ None # Unborn
  BY TenantsFinite DEF Directory!TypeOK, Directory!TenantOrNone
<1>2. /\ above' \in [Tenants -> Tenants \cup {None, Unborn}] /\ above'[n] = parent
      /\ \A m \in Tenants : m # n => above'[m] = above[m]
  BY <1>1
<1>3. n \notin alive
  BY DEF Families
<1>4. \A m \in alive' : above'[m] # Unborn
  BY <1>1, <1>2 DEF Families
<1>5. ASSUME NEW m \in Tenants
      PROVE  above'[m] # m /\ (above'[m] \in Tenants => above'[above'[m]] # Unborn)
  <2>1. CASE m = n
    <3>1. parent \in Tenants => above'[parent] # Unborn
      BY <1>1, <1>2
    <3>2. QED
      BY <1>2, <2>1, <3>1
  <2>2. CASE m # n
    <3>1. above'[m] = above[m]
      BY <1>2, <2>2
    <3>2. above[m] \in Tenants => above[above[m]] # Unborn /\ above[m] # n
      BY DEF Families
    <3>3. QED
      BY <1>2, <3>1, <3>2 DEF Families
  <2>3. QED
    BY <2>1, <2>2
<1>6. chosen # None => above'[chosen] # Unborn
  BY <1>1, <1>2 DEF Families
<1>7. \A m \in Tenants : above[m] # Unborn => above'[m] # Unborn
  BY <1>2
<1>8. \A q \in asked \cap Directory!NodeQueries : above'[q[2]] # Unborn
  BY <1>7, QueryForms DEF Families
<1>9. QED
  BY <1>1, <1>2, <1>3, <1>4, <1>5, <1>6, <1>7, <1>8 DEF Families

LEMMA OtherChangesStep ==
  ASSUME Directory!ConstantsOK, DirectoryInv, NEW n \in Tenants, Directory!OtherChanges(n)
  PROVE  DirectoryInv'
<1>1. /\ troubled' = TRUE
      /\ UNCHANGED <<keyword, pageOf, expanded, chosen, shownRows, asked, job, missed, ghost,
                     adrift, fetched>>
      /\ \/ above[n] = Unborn /\ n # job.node /\ above' = [above EXCEPT ![n] = None]
            /\ alive' = alive \cup {n}
         \/ alive' \subseteq alive /\ UNCHANGED above
  BY DEF Directory!OtherChanges
<1>2. Directory!TypeOK /\ Families /\ Calling /\ ReadWhileAsked
  BY DirectoryFacts
<1>3. CASE above[n] = Unborn /\ n # job.node /\ above' = [above EXCEPT ![n] = None]
           /\ alive' = alive \cup {n}
  <2>1. /\ Families' /\ alive' \subseteq Tenants
        /\ above' \in [Tenants -> Tenants \cup {None, Unborn}]
        /\ \A m \in Tenants : m # n => above'[m] = above[m]
        /\ \A m \in Tenants : above[m] # Unborn => above'[m] # Unborn
    <3>1. None \in Directory!TenantOrNone /\ None # n
      BY TenantsFinite DEF Directory!TenantOrNone
    <3>2. QED
      BY <1>1, <1>2, <1>3, <3>1, FamiliesGrow
  <2>2. Directory!TypeOK'
    BY <1>1, <1>2, <2>1 DEF Directory!TypeOK
  <2>3. Calling'
    <3>1. job.st # "none" => job.node \in Tenants /\ job.parent \in Directory!TenantOrNone
      BY <1>2, DirectoryFacts DEF Calling, Jobs
    <3>2. QED
      BY <1>1, <1>2, <1>3, <2>1, <3>1 DEF Calling, Directory!TenantOrNone
  <2>4. QED
    BY <1>1, <1>2, <2>1, <2>2, <2>3, TroubledStep DEF DirectoryShape, ReadWhileAsked
<1>4. CASE alive' \subseteq alive /\ UNCHANGED above
  <2>1. Directory!TypeOK'
    BY <1>1, <1>2, <1>4 DEF Directory!TypeOK
  <2>2. Families' /\ Calling'
    BY <1>1, <1>2, <1>4 DEF Families, Calling
  <2>3. QED
    BY <1>1, <1>2, <2>1, <2>2, TroubledStep DEF DirectoryShape, ReadWhileAsked
<1>5. QED
  BY <1>1, <1>3, <1>4

\* The lists that are not adrift when a tenant is removed are on their first page.
LEMMA ServedPages ==
  ASSUME Directory!ConstantsOK, DirectoryInv, job.does = "remove",
         adrift' = adrift \cup Directory!LaterPages, UNCHANGED pageOf
  PROVE  /\ adrift' \subseteq {"roots", "found", "kids"}
         /\ "found" \notin adrift' => pageOf'.found = 0
         /\ "kids" \notin adrift' => \A n \in Tenants : pageOf'.kids[n] = 0
<1>1. /\ pageOf.found \in Nat /\ \A n \in Tenants : pageOf.kids[n] \in Nat
      /\ adrift \subseteq {"roots", "found", "kids"}
  <2>1. Directory!Pages \subseteq Nat
    BY TenantsFinite
  <2>2. QED
    BY <2>1, DirectoryFacts DEF PageChoices
<1>2. /\ pageOf.found > 0 => "found" \in Directory!LaterPages
      /\ (\E n \in Tenants : pageOf.kids[n] > 0) => "kids" \in Directory!LaterPages
      /\ Directory!LaterPages \subseteq {"found", "kids"}
  BY DEF Directory!LaterPages
<1>3. "found" \notin adrift' => pageOf'.found = 0
  BY <1>1, <1>2
<1>4. ASSUME "kids" \notin adrift', NEW n \in Tenants PROVE pageOf'.kids[n] = 0
  <2>1. ~(pageOf.kids[n] > 0) /\ pageOf.kids[n] \in Nat
    BY <1>1, <1>2, <1>4
  <2>2. QED
    BY <2>1
<1>5. QED
  BY <1>1, <1>2, <1>3, <1>4

\* The server changes the tenants.
LEMMA ServedShape ==
  ASSUME Directory!ConstantsOK, DirectoryInv, Directory!ServeJob
  PROVE  /\ DirectoryShape'
         /\ job.st = "sent" /\ job'.st = "served"
         /\ job'.does = job.does /\ job'.node = job.node
         /\ job.does # "remove" => alive \subseteq alive' /\ \A m \in alive : above'[m] = above[m]
         /\ job.does # "create" => UNCHANGED above /\ alive' \subseteq alive
         /\ job.does = "create" => job.node # chosen /\ Directory!Node(job.node) \notin asked
<1>1. /\ job.st = "sent" /\ job' = [job EXCEPT !.st = "served"]
      /\ ghost' = (ghost \/ (chosen # job.node /\ chosen \in alive /\ chosen \notin alive'))
      /\ adrift' = IF job.does = "remove" THEN adrift \cup Directory!LaterPages ELSE adrift
      /\ UNCHANGED <<keyword, pageOf, expanded, chosen, shownRows, asked, troubled, fetched>>
      /\ missed' = missed \cup {q \in asked : fetched[q].known}
  BY DEF Directory!ServeJob
<1>2. /\ job \in Jobs /\ Calling /\ Directory!TypeOK /\ Families /\ ReadWhileAsked
      /\ job.node \in Tenants /\ job.parent \in Directory!TenantOrNone
      /\ job.parent # job.node /\ (job.parent # None => above[job.parent] # Unborn)
      /\ job.does \in {"create", "update", "remove"}
  <2>1. job \in Jobs /\ Calling /\ Directory!TypeOK /\ Families /\ ReadWhileAsked
    BY DirectoryFacts
  <2>2. QED
    BY <1>1, <2>1 DEF Calling, Jobs
<1>3. /\ job' \in Jobs /\ job'.st = "served" /\ job'.does = job.does /\ job'.node = job.node
      /\ job'.parent = job.parent
  BY <1>1, <1>2 DEF Jobs
<1>4. ghost' \in BOOLEAN /\ adrift' \subseteq {"roots", "found", "kids"}
  <2>1. job.does = "remove" => adrift' \subseteq {"roots", "found", "kids"}
    BY <1>1, ServedPages
  <2>2. QED
    BY <1>1, <2>1, DirectoryFacts
<1>5. ASSUME above' \in [Tenants -> Tenants \cup {None, Unborn}], alive' \subseteq Tenants
      PROVE  Directory!TypeOK' /\ ReadWhileAsked'
  <2>1. missed' \subseteq Directory!Queries
    BY <1>1, DirectoryFacts
  <2>2. Directory!TypeOK'
    BY <1>1, <1>3, <1>4, <1>5, <2>1, DirectoryFacts, TypesNext
  <2>3. QED
    BY <1>1, <1>2, <2>2 DEF ReadWhileAsked
<1>6. CASE job.does = "create"
  <2>1. above' = [above EXCEPT ![job.node] = job.parent] /\ alive' = alive \cup {job.node}
    BY <1>6 DEF Directory!ServeJob
  <2>2. above[job.node] = Unborn
    BY <1>1, <1>2, <1>6 DEF Calling
  <2>3. /\ Families' /\ alive' \subseteq Tenants
        /\ above' \in [Tenants -> Tenants \cup {None, Unborn}]
        /\ \A m \in Tenants : m # job.node => above'[m] = above[m]
        /\ \A m \in Tenants : above[m] # Unborn => above'[m] # Unborn
        /\ job.node \notin alive
    BY <1>1, <1>2, <2>1, <2>2, FamiliesGrow
  <2>4. Calling'
    BY <1>2, <1>3, <2>3 DEF Calling, Directory!TenantOrNone
  <2>5. job.node # chosen /\ Directory!Node(job.node) \notin asked
    BY <1>2, <2>2, TenantsFinite, QueryForms DEF Families
  <2>6. alive \subseteq Tenants
    BY <1>2 DEF Directory!TypeOK
  <2>7. QED
    BY <1>1, <1>3, <1>5, <1>6, <2>1, <2>3, <2>4, <2>5, <2>6 DEF DirectoryShape
<1>7. CASE job.does # "create"
  <2>1. UNCHANGED above /\ alive' \subseteq alive /\ (job.does # "remove" => alive' = alive)
    BY <1>2, <1>7 DEF Directory!ServeJob
  <2>2. Families' /\ Calling'
    BY <1>1, <1>2, <1>3, <2>1 DEF Families, Calling
  <2>3. Directory!TypeOK' /\ ReadWhileAsked'
    BY <1>2, <1>5, <2>1 DEF Directory!TypeOK
  <2>4. QED
    BY <1>1, <1>3, <1>7, <2>1, <2>2, <2>3 DEF DirectoryShape
<1>8. QED
  BY <1>6, <1>7

LEMMA ServeJobStep ==
  ASSUME Directory!ConstantsOK, DirectoryInv, Directory!ServeJob
  PROVE  DirectoryInv'
<1>1. /\ ghost' = (ghost \/ (chosen # job.node /\ chosen \in alive /\ chosen \notin alive'))
      /\ adrift' = IF job.does = "remove" THEN adrift \cup Directory!LaterPages ELSE adrift
      /\ UNCHANGED <<keyword, pageOf, expanded, chosen, shownRows, asked, troubled, fetched>>
      /\ missed' = missed \cup {q \in asked : fetched[q].known}
  BY DEF Directory!ServeJob
<1>2. /\ DirectoryShape'
      /\ job.st = "sent" /\ job'.st = "served"
      /\ job'.does = job.does /\ job'.node = job.node
      /\ job.does # "remove" => alive \subseteq alive' /\ \A m \in alive : above'[m] = above[m]
      /\ job.does # "create" => UNCHANGED above /\ alive' \subseteq alive
      /\ job.does = "create" => job.node # chosen /\ Directory!Node(job.node) \notin asked
  BY ServedShape
<1>3. ASSUME NEW q \in Directory!Queries, job.does # "remove"
      PROVE  Amount(q) <= Amount(q)' /\ Amount(q) \in Nat /\ Amount(q)' \in Nat
  <2>1. Directory!ListOf(q) \subseteq Directory!ListOf(q)'
    <3>1. \A p : Directory!ChildrenOf(p, alive) \subseteq Directory!ChildrenOf(p, alive)'
      BY <1>2, <1>3 DEF Directory!ChildrenOf
    <3>2. QED
      BY <1>2, <1>3, <3>1 DEF Directory!ListOf
  <2>2. alive' \subseteq Tenants
    BY <1>2 DEF DirectoryShape, Directory!TypeOK
  <2>3. Directory!ListOf(q)' \in SUBSET Tenants /\ Directory!ListOf(q) \in SUBSET Tenants
    <3>1. Directory!ListOf(q)' \in SUBSET Tenants
      BY <2>2 DEF Directory!ListOf, Directory!ChildrenOf
    <3>2. QED
      BY <2>1, <3>1
  <2>4. /\ IsFiniteSet(Directory!ListOf(q)') /\ Cardinality(Directory!ListOf(q)') \in Nat
        /\ Cardinality(Directory!ListOf(q)) \in Nat
    BY <2>3, PageTyped
  <2>5. Cardinality(Directory!ListOf(q)) <= Cardinality(Directory!ListOf(q)')
    BY <2>1, <2>4, FS_Subset
  <2>6. QED
    BY <2>4, <2>5 DEF Amount
<1>4. ListsInv'
  <2>1. Directory!Active' = Directory!Active
    BY <1>1 DEF Directory!Active
  <2>2. \A q : Sure(q)' => Sure(q)
    BY <1>1, <2>1 DEF Sure
  <2>3. ASSUME ~troubled, job.does # "remove", NEW q \in ListQueries, Sure(q)
        PROVE  shownRows[q].total <= Amount(q)'
    <3>1. q \in Directory!Queries
      BY QueryForms
    <3>2. shownRows[q].total <= Amount(q)
      BY <1>2, <2>3 DEF DirectoryInv, ListsInv
    <3>3. shownRows[q].total \in Nat
      <4>1. shownRows[q] \in Directory!Rows
        BY <3>1, DirectoryFacts
      <4>2. QED
        BY <4>1, TenantsFinite DEF Directory!Rows
    <3>4. QED
      BY <1>3, <2>3, <3>1, <3>2, <3>3
  <2>4. \A q \in ListQueries : fetched[q].known => q \in missed'
    BY <1>1, QueryForms, DirectoryFacts DEF ReadWhileAsked
  <2>5. QED
    BY <1>1, <1>2, <2>1, <2>2, <2>3, <2>4 DEF DirectoryInv, ListsInv
<1>5. RangeInv'
  <2>1. CASE job.does = "remove"
    <3>1. /\ "found" \notin adrift' => pageOf'.found = 0
          /\ "kids" \notin adrift' => \A n \in Tenants : pageOf'.kids[n] = 0
      BY <1>1, <2>1, ServedPages
    <3>2. Leaving'
      BY <1>2, <2>1 DEF Leaving
    <3>3. QED
      BY <3>1, <3>2 DEF RangeInv, InRange
  <2>2. CASE job.does # "remove"
    <3>1. ASSUME NEW q \in Directory!Queries, NEW p \in Directory!Pages, InRange(p, q)
          PROVE  InRange(p, q)'
      <4>1. p \in Nat
        BY TenantsFinite
      <4>2. PICK k \in Nat : k = p * TenantPage
        BY <4>1, TenantsFinite
      <4>3. QED
        BY <1>3, <2>2, <3>1, <4>1, <4>2 DEF InRange
    <3>2. /\ pageOf.roots \in Directory!Pages /\ pageOf.found \in Directory!Pages
          /\ \A n \in Tenants : pageOf.kids[n] \in Directory!Pages
          /\ Directory!Roots(0) \in Directory!Queries
          /\ keyword # None => Directory!Found(keyword, 0) \in Directory!Queries
          /\ \A n \in Tenants : Directory!Kids(n, 0) \in Directory!Queries
      BY DirectoryFacts, QueryForms, TenantsFinite DEF PageChoices
    <3>3. ~Leaving /\ ~Leaving'
      BY <1>2, <2>2 DEF Leaving
    <3>4. QED
      BY <1>1, <2>2, <3>1, <3>2, <3>3 DEF DirectoryInv, RangeInv
  <2>3. QED
    BY <2>1, <2>2
<1>6. DetailInv'
  <2>1. ASSUME ~troubled, chosen # None, ~ghost', chosen \notin alive'
        PROVE  job.does = "remove" /\ job.node = chosen
    <3>1. ~ghost /\ chosen \in alive
      BY <1>1, <1>2, <2>1 DEF DirectoryInv, DetailInv
    <3>2. job.node = chosen
      BY <1>1, <2>1, <3>1
    <3>3. QED
      BY <1>2, <2>1, <3>1, <3>2
  <2>2. ASSUME NEW n \in alive', n \notin alive
        PROVE  n # chosen /\ Directory!Node(n) \notin asked
    <3>1. CASE job.does = "create"
      <4>1. n = job.node
        BY <2>2, <3>1 DEF Directory!ServeJob
      <4>2. QED
        BY <1>2, <3>1, <4>1
    <3>2. CASE job.does # "create"
      BY <1>2, <2>2, <3>2
    <3>3. QED
      BY <3>1, <3>2
  <2>3. \A n \in alive' : fetched[Directory!Node(n)].known => n \in alive
    <3>1. alive' \subseteq Tenants
      BY <1>2 DEF DirectoryShape, Directory!TypeOK
    <3>2. QED
      BY <2>2, <3>1, QueryForms, DirectoryFacts DEF ReadWhileAsked
  <2>4. QED
    BY <1>1, <1>2, <2>1, <2>2, <2>3 DEF DirectoryInv, DetailInv
<1>7. QED
  BY <1>2, <1>4, <1>5, <1>6 DEF DirectoryInv

LEMMA SucceedStep ==
  ASSUME Directory!ConstantsOK, DirectoryInv, Directory!Succeed
  PROVE  DirectoryInv'
<1>1. PICK goes \in BOOLEAN :
        /\ (job.node = chosen) => goes
        /\ job.st = "served" /\ Directory!invalidateTenantQueries
        /\ job' = [job EXCEPT !.st = "settling", !.waits = Directory!Active, !.moves = goes]
        /\ missed' = (missed \ {q \in Directory!Active : shownRows[q].known})
                     \cup {q \in Directory!KidsQueries \ Directory!Active : shownRows[q].known}
        /\ UNCHANGED <<above, alive, keyword, pageOf, expanded, chosen, shownRows, ghost, adrift,
                       troubled>>
  <2>1. (chosen = job.node) \in BOOLEAN
    OBVIOUS
  <2>2. QED
    BY <2>1 DEF Directory!Succeed
<1>2. /\ job' \in Jobs /\ job'.st = "settling" /\ job'.does = job.does /\ job'.node = job.node
      /\ job'.parent = job.parent /\ job'.moves = goes
  <2>1. job \in Jobs /\ Directory!Active \subseteq Directory!Queries
    BY DirectoryFacts
  <2>2. QED
    BY <1>1, <2>1 DEF Jobs
<1>3. /\ asked' = asked \cup Directory!Active /\ asked' \subseteq Directory!Queries
      /\ fetched' \in [Directory!Queries -> Directory!Rows]
      /\ \A q \in Directory!Queries :
           /\ fetched'[q].known => fetched'[q] = fetched[q]
           /\ q \in Directory!Active /\ shownRows[q].known => ~fetched'[q].known
  BY <1>1, AskedAnew
<1>4. missed' \subseteq Directory!Queries
  BY <1>1, QueryForms, DirectoryFacts
<1>5. DirectoryShape'
  <2>1. Directory!TypeOK'
    BY <1>1, <1>2, <1>3, <1>4, DirectoryFacts, TypesNext DEF Directory!TypeOK
  <2>2. Families' /\ Calling'
    BY <1>1, <1>2, <1>3, ActiveDetail, DirectoryFacts DEF Families, Calling
  <2>3. ReadWhileAsked'
    BY <1>3, DirectoryFacts DEF ReadWhileAsked
  <2>4. QED
    BY <2>1, <2>2, <2>3 DEF DirectoryShape
<1>6. ListsInv'
  <2>1. Directory!Active' = Directory!Active
    BY <1>1 DEF Directory!Active
  <2>2. \A q : ~Sure(q)'
    BY <1>1, <1>3, <2>1 DEF Sure
  <2>3. \A q : Directory!Read(q)' = Directory!Read(q)
    BY <1>1, ReadStays
  <2>4. \A q \in Directory!Queries : fetched'[q].known /\ q \notin missed' =>
          fetched[q].known /\ q \notin missed /\ fetched'[q] = fetched[q]
    BY <1>1, <1>3
  <2>5. QED
    BY <1>1, <1>3, <2>1, <2>2, <2>3, <2>4, QueryForms DEF DirectoryInv, ListsInv
<1>7. RangeInv'
  <2>1. \A q : Amount(q)' = Amount(q)
    BY <1>1, ReadStays
  <2>2. QED
    BY <1>1, <1>2, <2>1 DEF DirectoryInv, RangeInv, InRange, Leaving
<1>8. DetailInv'
  <2>1. chosen # None => Directory!Node(chosen) \in asked'
    BY <1>3 DEF Directory!Active, Directory!InUse
  <2>2. \A n \in alive : Directory!Node(n) \in Directory!Queries
    BY QueryForms, DirectoryFacts
  <2>3. QED
    BY <1>1, <1>2, <1>3, <2>1, <2>2 DEF DirectoryInv, DetailInv
<1>9. QED
  BY <1>5, <1>6, <1>7, <1>8 DEF DirectoryInv

\* What the call leaves selected is in the families, and is not what it removed.
LEMMA ReselectedIs ==
  ASSUME Directory!ConstantsOK, DirectoryInv, job.st = "settling"
  PROVE  /\ Directory!Reselected \in Directory!TenantOrNone
         /\ Directory!Reselected # None => above[Directory!Reselected] # Unborn
         /\ Directory!Reselected = chosen /\ ~troubled /\ chosen # None => ghost \/ chosen \in alive
<1>1. /\ job \in Jobs /\ chosen \in Directory!TenantOrNone
      /\ chosen # None => above[chosen] # Unborn
      /\ job.parent # None => above[job.parent] # Unborn
      /\ job.parent # job.node
  BY DirectoryFacts DEF Calling
<1>2. /\ Directory!Reselected \in {chosen, job.parent}
      /\ job.does = "remove" /\ job.moves => Directory!Reselected = job.parent
  BY DEF Directory!Reselected
<1>3. job.parent \in Directory!TenantOrNone
  BY <1>1 DEF Jobs
<1>4. Directory!Reselected = chosen /\ ~troubled /\ chosen # None => ghost \/ chosen \in alive
  BY <1>1, <1>2 DEF DirectoryInv, DetailInv
<1>5. QED
  BY <1>1, <1>2, <1>3, <1>4

LEMMA SettleStep ==
  ASSUME Directory!ConstantsOK, DirectoryInv, Directory!Settle
  PROVE  DirectoryInv'
<1>1. PICK open, pages, node :
        /\ open \in SUBSET Tenants /\ pages \in PageChoices
        /\ node = Directory!Reselected
        /\ pages.roots = 0 /\ pages.found = pageOf.found /\ pages.kids = pageOf.kids
        /\ job.st = "settling" /\ job' = Directory!NoJob
        /\ pageOf' = pages /\ expanded' = open /\ chosen' = node
        /\ Directory!Asks(keyword, pages, open, node)
        /\ ghost' = IF node = chosen THEN ghost ELSE node # None /\ node \notin alive
        /\ adrift' = adrift \ {"roots"}
        /\ UNCHANGED <<above, alive, keyword, shownRows, missed, troubled, fetched>>
  <2>1. PICK open :
          open = IF job.does = "create" /\ job.parent # None THEN expanded \cup {job.parent}
                 ELSE expanded
    OBVIOUS
  <2>2. open \in SUBSET Tenants
    BY <2>1, DirectoryFacts DEF Jobs
  <2>3. PICK pages : pages = Directory!FirstPage(pageOf)
    OBVIOUS
  <2>4. /\ pages \in PageChoices
        /\ pages.roots = 0 /\ pages.found = pageOf.found /\ pages.kids = pageOf.kids
    BY <2>3, DirectoryFacts, TenantsFinite DEF Directory!FirstPage, PageChoices
  <2>5. /\ job.st = "settling" /\ job' = Directory!NoJob
        /\ pageOf' = pages /\ expanded' = open /\ chosen' = Directory!Reselected
        /\ Directory!Asks(keyword, pages, open, Directory!Reselected)
        /\ ghost' = IF Directory!Reselected = chosen THEN ghost
                    ELSE Directory!Reselected # None /\ Directory!Reselected \notin alive
        /\ adrift' = adrift \ {"roots"}
        /\ UNCHANGED <<above, alive, keyword, shownRows, missed, troubled, fetched>>
    BY <2>1, <2>3 DEF Directory!Settle
  <2>6. QED
    BY <2>2, <2>4, <2>5
<1>2. /\ node \in Directory!TenantOrNone
      /\ node # None => above[node] # Unborn
      /\ node = chosen /\ ~troubled /\ chosen # None => ghost \/ chosen \in alive
  BY <1>1, ReselectedIs
<1>3. job' \in Jobs /\ Calling' /\ job'.st = "none" /\ ~Leaving'
  BY <1>1, NoJobTyped DEF Calling, Leaving
<1>4. /\ ghost' \in BOOLEAN /\ adrift' \subseteq {"roots", "found", "kids"}
      /\ node # chosen => node = None \/ ghost' \/ node \in alive
      /\ node = chosen => ghost' = ghost
  <2>1. ghost \in BOOLEAN /\ adrift \subseteq {"roots", "found", "kids"}
    BY DirectoryFacts
  <2>2. (node # None /\ node \notin alive) \in BOOLEAN
    OBVIOUS
  <2>3. QED
    BY <1>1, <2>1, <2>2
<1>5. /\ ~troubled /\ "roots" \notin adrift' /\ ~Leaving' =>
           InRange(pages.roots, Directory!Roots(0))
      /\ ~troubled /\ "found" \notin adrift' =>
           \/ pages.found = 0
           \/ keyword # None /\ InRange(pages.found, Directory!Found(keyword, 0))
      /\ ~troubled /\ "kids" \notin adrift' =>
           \A m \in Tenants : InRange(pages.kids[m], Directory!Kids(m, 0))
  <2>1. InRange(0, Directory!Roots(0))
    BY DEF InRange
  <2>2. QED
    BY <1>1, <2>1 DEF DirectoryInv, RangeInv
<1>6. QED
  BY <1>1, <1>2, <1>3, <1>4, <1>5, DirectoryFacts, VisitorStep

LEMMA JobFailsStep ==
  ASSUME Directory!ConstantsOK, DirectoryInv, Directory!JobFails
  PROVE  DirectoryInv'
<1>1. /\ job' = Directory!NoJob
      /\ UNCHANGED <<above, alive, keyword, pageOf, expanded, chosen, shownRows, asked, missed,
                     ghost, adrift, fetched>>
      /\ (job.st = "sent" /\ UNCHANGED troubled) \/ troubled' = TRUE
  BY DEF Directory!JobFails
<1>2. job' \in Jobs /\ Calling' /\ job'.st = "none"
  BY <1>1, NoJobTyped DEF Calling
<1>3. CASE job.st = "sent" /\ UNCHANGED troubled
  BY <1>1, <1>2, <1>3, DirectoryFacts, DirectoryQuiet
<1>4. CASE troubled' = TRUE
  <2>1. Directory!TypeOK'
    BY <1>1, <1>2, <1>4, DirectoryFacts, TypesNext DEF Directory!TypeOK
  <2>2. Families' /\ ReadWhileAsked'
    BY <1>1, DirectoryFacts DEF Families, ReadWhileAsked
  <2>3. QED
    BY <1>2, <1>4, <2>1, <2>2, TroubledStep DEF DirectoryShape
<1>5. QED
  BY <1>1, <1>3, <1>4

---------------------------------------------------------------------------
(* The invariant, and what it says of the panes *)

LEMMA DirectoryInit == ASSUME Directory!ConstantsOK, Directory!Init PROVE DirectoryInv
<1>1. /\ above \in [Tenants -> Tenants \cup {None, Unborn}]
      /\ \A n \in Tenants : above[n] \in Tenants => above[n] < n /\ above[above[n]] # Unborn
      /\ alive = {n \in Tenants : above[n] # Unborn}
      /\ keyword = None /\ pageOf = Directory!FirstPages /\ expanded = {} /\ chosen = None
      /\ shownRows = [q \in Directory!Queries |-> Directory!NoRows]
      /\ fetched = [q \in Directory!Queries |-> Directory!NoRows]
      /\ asked = {Directory!Roots(0)} /\ job = Directory!NoJob
      /\ missed = {} /\ ghost = FALSE /\ adrift = {} /\ troubled = FALSE
  BY DEF Directory!Init, Directory!Born
<1>2. /\ job \in Jobs /\ job.st = "none" /\ job.does = "none"
  BY <1>1, NoJobTyped
<1>3. /\ pageOf \in PageChoices /\ pageOf.roots = 0 /\ pageOf.found = 0
      /\ \A n \in Tenants : pageOf.kids[n] = 0
  BY <1>1, TenantsFinite DEF PageChoices, Directory!FirstPages
<1>4. /\ shownRows \in [Directory!Queries -> Directory!Rows]
      /\ fetched \in [Directory!Queries -> Directory!Rows]
      /\ \A q \in Directory!Queries : ~shownRows[q].known /\ ~fetched[q].known
  <2>1. Directory!NoRows \in Directory!Rows /\ ~Directory!NoRows.known
    BY TenantsFinite DEF Directory!NoRows, Directory!Rows
  <2>2. QED
    BY <1>1, <2>1
<1>5. /\ Directory!Roots(0) \in ListQueries /\ Directory!Roots(0) \in Directory!Queries
      /\ Directory!Roots(0) \notin Directory!NodeQueries
  BY TenantsFinite, QueryForms
<1>6. DirectoryShape
  <2>1. Directory!TypeOK
    BY <1>1, <1>2, <1>3, <1>4, <1>5
       DEF Directory!TypeOK, PageChoices, Jobs, Directory!TenantOrNone
  <2>2. Families
    <3>1. ASSUME NEW n \in Tenants PROVE above[n] # n
      <4>1. n \in Int /\ ~(n < n)
        BY TenantsFinite
      <4>2. QED
        BY <1>1, <4>1
    <3>2. QED
      BY <1>1, <1>5, <3>1 DEF Families
  <2>3. QED
    BY <1>2, <1>4, <2>1, <2>2 DEF DirectoryShape, Calling, ReadWhileAsked
<1>7. ListsInv
  <2>1. Directory!Active = {Directory!Roots(0)}
    BY <1>1, <1>3 DEF Directory!Active, Directory!InUse
  <2>2. \A q \in Directory!Queries : ~Sure(q)
    BY <1>4 DEF Sure
  <2>3. QED
    BY <1>1, <1>4, <2>1, <2>2, QueryForms DEF ListsInv
<1>8. RangeInv
  BY <1>3 DEF RangeInv, InRange
<1>9. DetailInv
  <2>1. \A n \in alive : Directory!Node(n) \in Directory!Queries
    BY <1>1, QueryForms
  <2>2. QED
    BY <1>1, <1>4, <2>1 DEF DetailInv
<1>10. QED
  BY <1>6, <1>7, <1>8, <1>9 DEF DirectoryInv

LEMMA DirectoryNext ==
  ASSUME Directory!ConstantsOK, DirectoryInv, [Directory!Next]_(Directory!tenantVars)
  PROVE  DirectoryInv'
<1>1. CASE UNCHANGED Directory!tenantVars
  <2>1. /\ UNCHANGED <<above, alive, keyword, pageOf, expanded, chosen, shownRows, missed, ghost,
                       adrift, troubled, asked, job, fetched>>
    BY <1>1 DEF Directory!tenantVars
  <2>2. job' \in Jobs /\ Calling'
    BY <2>1, DirectoryFacts DEF Calling
  <2>3. QED
    BY <2>1, <2>2, DirectoryFacts, DirectoryQuiet
<1>2. CASE Directory!Next
  <2>1. ASSUME NEW n \in Tenants,
               \/ Directory!toggleExpand(n) \/ Directory!OtherChanges(n)
               \/ \E p \in Directory!Pages : Directory!handleChildPageChange(n, p)
               \/ \E parent \in Tenants : Directory!openAddChild(n, parent)
               \/ \E does \in {"create", "update", "remove"} : Directory!Submit(does, n)
        PROVE  DirectoryInv'
    BY <2>1, ToggleExpandStep, OtherChangesStep, ChildPageStep, AddChildStep, SubmitStep
  <2>2. ASSUME NEW n \in Tenants \cup {None}, Directory!handleSelectNode(n) PROVE DirectoryInv'
    BY <2>2, SelectStep
  <2>3. ASSUME NEW p \in Directory!Pages,
               Directory!handleRootPageChange(p) \/ Directory!handleSearchPageChange(p)
        PROVE  DirectoryInv'
    BY <2>3, RootPageStep, SearchPageStep
  <2>4. ASSUME NEW word \in TenantKeywords \cup {None}, Directory!onTreeSearchChange(word)
        PROVE  DirectoryInv'
    BY <2>4, SearchStep
  <2>5. ASSUME NEW q \in asked,
               Directory!Serve(q) \/ Directory!Answer(q) \/ Directory!AnswerFails(q)
        PROVE  DirectoryInv'
    BY <2>5, ServeStep, TenantAnswerStep, AnswerFailsStep
  <2>6. CASE \/ Directory!onRefresh \/ Directory!ServeJob \/ Directory!Succeed
             \/ Directory!Settle \/ Directory!JobFails
    BY <2>6, TenantRefreshStep, ServeJobStep, SucceedStep, SettleStep, JobFailsStep
  <2>7. QED
    BY <1>2, <2>1, <2>2, <2>3, <2>4, <2>5, <2>6 DEF Directory!Next
<1>3. QED
  BY <1>1, <1>2

\* A page that is chosen is empty only when its list is, unless the list is adrift.
LEMMA EmptyPage ==
  ASSUME Directory!ConstantsOK, DirectoryInv, ~troubled, ~Leaving,
         NEW q \in Directory!Lists, q[1] \notin adrift, Directory!Read(q).rows = {}
  PROVE  Directory!Read(q).total = 0
<1>1. /\ q \in ListQueries /\ q \in Directory!Queries /\ q \in Directory!Active
      /\ keyword \in TenantKeywords \cup {None} /\ pageOf \in PageChoices
      /\ expanded \in SUBSET Tenants /\ chosen \in Directory!TenantOrNone
  BY DirectoryFacts DEF Directory!Lists, ListQueries
<1>2. /\ pageOf.roots \in Directory!Pages /\ pageOf.found \in Directory!Pages
      /\ \A n \in expanded : n \in Tenants /\ pageOf.kids[n] \in Directory!Pages
  BY <1>1 DEF PageChoices
<1>3. q[3] \in Directory!Pages /\ InRange(q[3], q)
  <2>1. CASE keyword = None /\ q = Directory!Roots(pageOf.roots)
    <3>1. q[1] = "roots" /\ q[3] = pageOf.roots /\ Amount(q) = Amount(Directory!Roots(0))
      BY <1>2, <2>1, QueryForms, AmountOfList
    <3>2. QED
      BY <1>2, <3>1 DEF DirectoryInv, RangeInv, InRange
  <2>2. CASE keyword # None /\ q = Directory!Found(keyword, pageOf.found)
    <3>1. /\ q[1] = "found" /\ q[3] = pageOf.found
          /\ Amount(q) = Amount(Directory!Found(keyword, 0))
      BY <1>1, <1>2, <2>2, QueryForms, AmountOfList
    <3>2. QED
      BY <1>2, <3>1 DEF DirectoryInv, RangeInv, InRange
  <2>3. ASSUME NEW n \in expanded, q = Directory!Kids(n, pageOf.kids[n])
        PROVE  q[3] \in Directory!Pages /\ InRange(q[3], q)
    <3>1. /\ q[1] = "kids" /\ q[3] = pageOf.kids[n]
          /\ Amount(q) = Amount(Directory!Kids(n, 0))
      BY <1>2, <2>3, QueryForms, AmountOfList
    <3>2. QED
      BY <1>2, <3>1 DEF DirectoryInv, RangeInv, InRange
  <2>4. CASE chosen # None /\ q = Directory!Node(chosen)
    BY <1>1, <2>4, QueryForms DEF Directory!TenantOrNone
  <2>5. QED
    BY <1>1, <2>1, <2>2, <2>3, <2>4, UsesAre DEF Directory!Active
<1>4. /\ Directory!ListOf(q) \in SUBSET Tenants
      /\ Directory!Read(q) = Directory!PageOf(Directory!ListOf(q), q[3])
      /\ Directory!Read(q).total = Amount(q)
  BY <1>1, ReadIs, DirectoryFacts
<1>5. q[3] \in Nat
  BY <1>3, TenantsFinite
<1>6. Cardinality(Directory!ListOf(q)) = 0
  BY <1>3, <1>4, <1>5, PageHasRows DEF InRange, Amount
<1>7. QED
  BY <1>4, <1>6 DEF Amount

LEMMA PanesInSight ==
  ASSUME Directory!ConstantsOK, DirectoryInv PROVE Directory!PanesCurrent
<1>1. ASSUME Directory!Settled
      PROVE  /\ asked \cap Directory!Active = {} /\ ~troubled /\ job.st = "none"
             /\ job.does = "none" /\ ~Leaving
  BY <1>1, NoJobTyped DEF Directory!Settled, Leaving
<1>2. Directory!ListsCurrent
  <2>1. ASSUME Directory!Settled, NEW q \in Directory!Lists \ missed
        PROVE  shownRows[q] = Directory!Read(q)
    <3>1. q \in ListQueries /\ q \in Directory!Active /\ q \notin asked
      BY <1>1, <2>1, DirectoryFacts DEF Directory!Lists, ListQueries
    <3>2. Sure(q)
      BY <1>1, <2>1, <3>1 DEF Sure, DirectoryInv, ListsInv
    <3>3. QED
      BY <1>1, <2>1, <3>1, <3>2 DEF DirectoryInv, ListsInv
  <2>2. QED
    BY <2>1 DEF Directory!ListsCurrent
<1>3. Directory!DetailAlive
  <2>1. ASSUME Directory!Settled, chosen # None, ~ghost
        PROVE  /\ shownRows[Directory!Node(chosen)].rows = {chosen} \cap alive
               /\ chosen \in alive
    <3>1. Directory!Node(chosen) \in Directory!Active
      BY <2>1 DEF Directory!Active, Directory!InUse
    <3>2. chosen \in alive /\ shownRows[Directory!Node(chosen)].rows = {chosen}
      BY <1>1, <2>1, <3>1 DEF DirectoryInv, DetailInv
    <3>3. QED
      BY <3>2
  <2>2. QED
    BY <2>1 DEF Directory!DetailAlive
<1>4. Directory!EmptyListIsEmpty
  <2>1. ASSUME Directory!Settled, NEW q \in Directory!Lists \ missed,
               shownRows[q].rows = {}, q[1] \notin adrift
        PROVE  shownRows[q].total = 0
    <3>1. shownRows[q] = Directory!Read(q)
      BY <1>2, <2>1 DEF Directory!ListsCurrent
    <3>2. QED
      BY <1>1, <2>1, <3>1, EmptyPage
  <2>2. QED
    BY <2>1 DEF Directory!EmptyListIsEmpty
<1>5. QED
  BY <1>2, <1>3, <1>4 DEF Directory!PanesCurrent

\* The tenants, the controls, the queries and the call keep their types.
THEOREM TenantsTyped == ASSUME Directory!ConstantsOK PROVE Directory!Spec => []Directory!TypeOK
<1>1. DirectoryInv => Directory!TypeOK
  BY DEF DirectoryInv, DirectoryShape
<1>2. QED
  BY <1>1, DirectoryInit, DirectoryNext, PTL DEF Directory!Spec

\* With all answered the lists and the detail are the server's tenants, but for the
\* causes the property names.
THEOREM PanesAreCurrent ==
  ASSUME Directory!ConstantsOK PROVE Directory!Spec => []Directory!PanesCurrent
<1>1. QED
  BY PanesInSight, DirectoryInit, DirectoryNext, PTL DEF Directory!Spec
---------------------------------------------------------------------------
(* RoleCodes: the codes of a role and their copy in Redis *)

Requesting ==
  [pc : {"idle", "read", "write"}, job : {None, "load", "assign"}, codes : Codes!Commits \cup {None}]

LEMMA FirstCommit == ASSUME Codes!ConstantsOK PROVE 0 \in Codes!Commits
  BY DEF Codes!ConstantsOK, Codes!Commits

\* The rows, the copy and the requests have their types at first.
LEMMA CodesTypeInit == ASSUME Codes!ConstantsOK, Codes!Init PROVE Codes!TypeOK
<1>1. Codes!Idle \in Requesting
  BY DEF Codes!Idle, Requesting
<1>2. request \in [CodesRequests -> Requesting]
  BY <1>1 DEF Codes!Init
<1>3. errors \in 0 .. MaxCodesErrors
  BY DEF Codes!Init, Codes!ConstantsOK
<1>4. QED
  BY <1>2, <1>3, FirstCommit DEF Codes!Init, Codes!TypeOK, Requesting

\* A step leaves every request a request.
LEMMA CodesRequestStep ==
  ASSUME Codes!ConstantsOK, Codes!TypeOK, NEW r \in CodesRequests, NEW q \in Requesting,
         request' = [request EXCEPT ![r] = q]
  PROVE  request' \in [CodesRequests -> Requesting]
BY DEF Codes!TypeOK, Requesting

\* Every step keeps the types.
LEMMA CodesTypeStep == ASSUME Codes!ConstantsOK, Codes!TypeOK, [Codes!Next]_(Codes!vars) PROVE Codes!TypeOK'
<1> USE DEF Requesting
<1>1. CASE UNCHANGED Codes!vars
  BY <1>1 DEF Codes!TypeOK, Codes!vars, Codes!Commits
<1>2. ASSUME NEW r \in CodesRequests,
             Codes!Hit(r) \/ Codes!Miss(r) \/ Codes!Assign(r) \/ Codes!ReadRows(r) \/ Codes!WriteCache(r) \/ Codes!CallFails(r)
      PROVE  Codes!TypeOK'
  <2>1. /\ rows \in 0 .. MaxAssigns /\ errors \in 0 .. MaxCodesErrors
        /\ MaxAssigns \in Nat /\ MaxCodesErrors \in Nat
    BY DEF Codes!TypeOK, Codes!Commits, Codes!ConstantsOK
  <2>2. Codes!Idle \in Requesting
    BY DEF Codes!Idle
  <2>3. CASE Codes!Hit(r)
    BY <2>3 DEF Codes!Hit, Codes!TypeOK, Codes!vars, Codes!Commits
  <2>4. CASE Codes!Miss(r)
    <3>1. [Codes!Idle EXCEPT !.pc = "read", !.job = "load"] \in Requesting
      BY DEF Codes!Idle
    <3>2. request' \in [CodesRequests -> Requesting]
      BY <2>4, <3>1, CodesRequestStep DEF Codes!Miss
    <3>3. errors' \in 0 .. MaxCodesErrors
      BY <2>1, <2>4 DEF Codes!Miss
    <3>4. QED
      BY <2>4, <3>2, <3>3 DEF Codes!Miss, Codes!TypeOK, Codes!Commits
  <2>5. CASE Codes!Assign(r)
    <3>1. [Codes!Idle EXCEPT !.pc = "read", !.job = "assign"] \in Requesting
      BY DEF Codes!Idle
    <3>2. request' \in [CodesRequests -> Requesting]
      BY <2>5, <3>1, CodesRequestStep DEF Codes!Assign
    <3>3. rows' \in 0 .. MaxAssigns
      BY <2>1, <2>5 DEF Codes!Assign
    <3>4. raced' \in BOOLEAN
      BY <2>5 DEF Codes!Assign
    <3>5. QED
      BY <2>5, <3>2, <3>3, <3>4 DEF Codes!Assign, Codes!TypeOK, Codes!Commits
  <2>6. CASE Codes!ReadRows(r)
    <3>1. [request[r] EXCEPT !.pc = "write", !.codes = rows] \in Requesting
      BY DEF Codes!TypeOK
    <3>2. request' = [request EXCEPT ![r] = [request[r] EXCEPT !.pc = "write", !.codes = rows]]
      BY <2>6 DEF Codes!ReadRows, Codes!TypeOK
    <3>3. request' \in [CodesRequests -> Requesting]
      BY <3>1, <3>2, CodesRequestStep
    <3>4. QED
      BY <2>6, <3>3 DEF Codes!ReadRows, Codes!TypeOK, Codes!Commits
  <2>7. CASE Codes!WriteCache(r)
    <3>1. request' \in [CodesRequests -> Requesting]
      BY <2>7, <2>2, CodesRequestStep DEF Codes!WriteCache, Codes!Finish
    <3>2. cache' \in Codes!Commits \cup {None}
      BY <2>7 DEF Codes!WriteCache, Codes!TypeOK
    <3>3. QED
      BY <2>7, <3>1, <3>2 DEF Codes!WriteCache, Codes!TypeOK, Codes!Commits
  <2>8. CASE Codes!CallFails(r)
    <3>1. request' \in [CodesRequests -> Requesting]
      BY <2>8, <2>2, CodesRequestStep DEF Codes!CallFails, Codes!Finish
    <3>2. errors' \in 0 .. MaxCodesErrors
      BY <2>1, <2>8 DEF Codes!CallFails
    <3>3. lost' \in BOOLEAN
      BY <2>8 DEF Codes!CallFails
    <3>4. QED
      BY <2>8, <3>1, <3>2, <3>3 DEF Codes!CallFails, Codes!TypeOK, Codes!Commits
  <2>9. QED
    BY <1>2, <2>3, <2>4, <2>5, <2>6, <2>7, <2>8
<1>3. QED
  BY <1>1, <1>2 DEF Codes!Next

\* The rows, the copy and the requests keep their types.
THEOREM CodesTypeCorrect == ASSUME Codes!ConstantsOK PROVE Codes!Spec => []Codes!TypeOK
<1>1. Codes!Init => Codes!TypeOK
  BY CodesTypeInit
<1>2. Codes!TypeOK /\ [Codes!Next]_(Codes!vars) => Codes!TypeOK'
  BY CodesTypeStep
<1>3. QED
  BY <1>1, <1>2, PTL DEF Codes!Spec

---------------------------------------------------------------------------
\* Codes that were read and not yet written are the rows, unless an assignment
\* was noticed since; who is idle has no assignment to refresh.
HeldAreRows == \A r \in CodesRequests : Codes!At(r, "write") => request[r].codes = rows \/ raced
IdleHasNoJob == \A r \in CodesRequests : Codes!At(r, "idle") => request[r].job # "assign"

CacheInv == Codes!TypeOK /\ HeldAreRows /\ IdleHasNoJob /\ Codes!StaleNeedsRace

LEMMA CacheInit == ASSUME Codes!ConstantsOK, Codes!Init PROVE CacheInv
<1>1. HeldAreRows
  BY DEF Codes!Init, HeldAreRows, Codes!At, Codes!Idle
<1>2. IdleHasNoJob
  BY DEF Codes!Init, IdleHasNoJob, Codes!Idle, Codes!ConstantsOK
<1>3. Codes!StaleNeedsRace
  BY DEF Codes!Init, Codes!StaleNeedsRace
<1>4. QED
  BY <1>1, <1>2, <1>3, CodesTypeInit DEF CacheInv

\* Every step keeps what is held and what is stored.
LEMMA CacheStep ==
  ASSUME Codes!ConstantsOK, CacheInv, [Codes!Next]_(Codes!vars)
  PROVE  HeldAreRows' /\ IdleHasNoJob' /\ Codes!StaleNeedsRace'
<1>1. /\ HeldAreRows /\ IdleHasNoJob /\ Codes!StaleNeedsRace
      /\ request \in [CodesRequests -> Requesting] /\ None # "assign"
  BY DEF CacheInv, Codes!TypeOK, Requesting, Codes!ConstantsOK
<1>2. CASE UNCHANGED Codes!vars
  BY <1>1, <1>2 DEF Codes!vars, HeldAreRows, IdleHasNoJob, Codes!StaleNeedsRace, Codes!At,
     Codes!Refreshing
<1>3. ASSUME NEW r \in CodesRequests,
             Codes!Hit(r) \/ Codes!Miss(r) \/ Codes!Assign(r) \/ Codes!ReadRows(r) \/ Codes!WriteCache(r) \/ Codes!CallFails(r)
      PROVE  HeldAreRows' /\ IdleHasNoJob' /\ Codes!StaleNeedsRace'
  <2>1. CASE Codes!Hit(r)
    BY <1>1, <2>1 DEF Codes!Hit, Codes!vars, HeldAreRows, IdleHasNoJob, Codes!StaleNeedsRace,
       Codes!At, Codes!Refreshing
  <2>2. CASE Codes!Miss(r)
    <3>1. /\ \A q \in CodesRequests : q # r => request'[q] = request[q]
          /\ request'[r].pc = "read" /\ request[r].pc = "idle"
          /\ UNCHANGED <<rows, cache, raced, lost>>
      BY <1>1, <2>2 DEF Codes!Miss, Codes!Idle, Codes!At
    <3>2. HeldAreRows' /\ IdleHasNoJob'
      BY <1>1, <3>1 DEF HeldAreRows, IdleHasNoJob, Codes!At
    <3>3. Codes!Refreshing \subseteq Codes!Refreshing'
      BY <1>1, <3>1 DEF Codes!Refreshing, IdleHasNoJob, Codes!At
    <3>4. QED
      BY <1>1, <3>1, <3>2, <3>3 DEF Codes!StaleNeedsRace
  <2>3. CASE Codes!Assign(r)
    <3>1. /\ \A q \in CodesRequests : q # r => request'[q] = request[q]
          /\ request'[r].pc = "read" /\ request'[r].job = "assign"
          /\ raced' = (raced \/ Codes!Holding # {})
      BY <1>1, <2>3 DEF Codes!Assign, Codes!Idle
    <3>2. HeldAreRows' /\ IdleHasNoJob'
      BY <1>1, <3>1 DEF HeldAreRows, IdleHasNoJob, Codes!At, Codes!Holding
    <3>3. r \in Codes!Refreshing'
      BY <3>1 DEF Codes!Refreshing
    <3>4. QED
      BY <3>2, <3>3 DEF Codes!StaleNeedsRace
  <2>4. CASE Codes!ReadRows(r)
    <3>1. /\ \A q \in CodesRequests : q # r => request'[q] = request[q]
          /\ request'[r].pc = "write" /\ request'[r].codes = rows
          /\ request'[r].job = request[r].job
          /\ UNCHANGED <<rows, cache, raced, lost>>
      BY <1>1, <2>4 DEF Codes!ReadRows, Requesting
    <3>2. HeldAreRows' /\ IdleHasNoJob'
      BY <1>1, <3>1 DEF HeldAreRows, IdleHasNoJob, Codes!At
    <3>3. Codes!Refreshing' = Codes!Refreshing
      BY <3>1 DEF Codes!Refreshing
    <3>4. QED
      BY <1>1, <3>1, <3>2, <3>3 DEF Codes!StaleNeedsRace
  <2>5. CASE Codes!WriteCache(r)
    <3>1. /\ \A q \in CodesRequests : q # r => request'[q] = request[q]
          /\ request'[r].pc = "idle" /\ request'[r].job = None
          /\ cache' = request[r].codes
          /\ UNCHANGED <<rows, raced, lost>>
      BY <1>1, <2>5 DEF Codes!WriteCache, Codes!Finish, Codes!Idle
    <3>2. HeldAreRows' /\ IdleHasNoJob'
      BY <1>1, <3>1 DEF HeldAreRows, IdleHasNoJob, Codes!At
    <3>3. cache' = rows \/ raced
      BY <1>1, <2>5, <3>1 DEF Codes!WriteCache, HeldAreRows
    <3>4. QED
      BY <3>1, <3>2, <3>3 DEF Codes!StaleNeedsRace
  <2>6. CASE Codes!CallFails(r)
    <3>1. /\ \A q \in CodesRequests : q # r => request'[q] = request[q]
          /\ request'[r].pc = "idle" /\ request'[r].job = None
          /\ lost' = (lost \/ request[r].job = "assign")
          /\ UNCHANGED <<rows, cache, raced>>
      BY <1>1, <2>6 DEF Codes!CallFails, Codes!Finish, Codes!Idle
    <3>2. HeldAreRows' /\ IdleHasNoJob'
      BY <1>1, <3>1 DEF HeldAreRows, IdleHasNoJob, Codes!At
    <3>3. lost' \/ Codes!Refreshing \subseteq Codes!Refreshing'
      BY <3>1 DEF Codes!Refreshing
    <3>4. QED
      BY <1>1, <3>1, <3>2, <3>3 DEF Codes!StaleNeedsRace
  <2>7. QED
    BY <1>3, <2>1, <2>2, <2>3, <2>4, <2>5, <2>6
<1>4. QED
  BY <1>2, <1>3 DEF Codes!Next

\* The copy in Redis is only behind the rows while it is being refreshed, after
\* an overtaken fill, or after a refresh that failed.
THEOREM StaleCodesNeedRace == ASSUME Codes!ConstantsOK PROVE Codes!Spec => []Codes!StaleNeedsRace
<1>1. Codes!Init => CacheInv
  BY CacheInit
<1>2. CacheInv /\ [Codes!Next]_(Codes!vars) => CacheInv'
  BY CacheStep, CodesTypeStep DEF CacheInv
<1>3. CacheInv => Codes!StaleNeedsRace
  BY DEF CacheInv
<1>4. QED
  BY <1>1, <1>2, <1>3, PTL DEF Codes!Spec

---------------------------------------------------------------------------
(* Inbox: the badge, the bell and the list of the inbox *)

Answers ==
  [st : {"idle", "sent", "served"}, version : Notices!Versions \cup {None}]

\* A change is still to be announced, or its signal to be received.
Pending == emits > 0 \/ signals > 0 \/ \E c \in NoticeCalls : mark[c] = "committed"

\* What was read of the inbox is the inbox, unless it is known to be behind.
ReadNow(q) ==
  ~behind[q] =>
    /\ answer[q].st = "served" => answer[q].version = version
    /\ answer[q].st = "idle" /\ Notices!HasData(q) => shown[q] = version

InboxInv == Notices!TypeOK /\ (Pending \/ \A q \in Notices!Queries : ReadNow(q))

LEMMA AnswerTypes ==
  ASSUME Notices!ConstantsOK
  PROVE  /\ Notices!NoAnswer \in Answers /\ Notices!NoAnswer.st = "idle"
         /\ Notices!Sent \in Answers /\ Notices!Sent.st = "sent"
BY DEF Notices!NoAnswer, Notices!Sent, Answers

LEMMA InboxInit == ASSUME Notices!ConstantsOK, Notices!Init PROVE InboxInv
<1>1. answer \in [Notices!Queries -> Answers] /\ \A q \in Notices!Queries : answer[q].st # "served"
  BY AnswerTypes DEF Notices!Init
<1>2. Notices!TypeOK
  <2>1. version \in Notices!Versions /\ troubles \in 0 .. MaxTurns /\ emits \in Nat /\ signals \in Nat
    BY DEF Notices!Init, Notices!ConstantsOK, Notices!Versions
  <2>2. shown \in [Notices!Queries -> Notices!Versions \cup {None}]
    BY DEF Notices!Init
  <2>3. mark \in [NoticeCalls -> {"idle", "sent", "committed", "emitted"}]
    BY DEF Notices!Init
  <2>4. behind \in [Notices!Queries -> BOOLEAN] /\ stream \in BOOLEAN /\ listed \in NoticeKeys \cup {None}
    BY DEF Notices!Init
  <2>5. QED
    BY <1>1, <2>1, <2>2, <2>3, <2>4 DEF Notices!TypeOK, Answers
<1>3. \A q \in Notices!Queries : ReadNow(q)
  BY <1>1 DEF Notices!Init, ReadNow, Notices!HasData
<1>4. QED
  BY <1>2, <1>3 DEF InboxInv

LEMMA TroubleCounts ==
  ASSUME Notices!ConstantsOK, Notices!TypeOK
  PROVE  /\ Notices!Trouble => troubles' \in 0 .. MaxTurns
         /\ Notices!Room => version + 1 \in Notices!Versions
BY DEF Notices!TypeOK, Notices!ConstantsOK, Notices!Trouble, Notices!Room, Notices!Versions

\* Marking what nothing will refetch leaves nothing else out of date.
LEMMA LostReads ==
  ASSUME Notices!TypeOK, Notices!Lost, UNCHANGED <<answer, shown>>
  PROVE  /\ behind' \in [Notices!Queries -> BOOLEAN]
         /\ \A q \in Notices!Queries : ReadNow(q)'
<1>1. behind' \in [Notices!Queries -> BOOLEAN]
  BY DEF Notices!Lost, Notices!TypeOK, Notices!Missed
<1>2. \A q \in Notices!Queries : Notices!Missed(q) => behind'[q]
  BY DEF Notices!Lost
<1>3. QED
  BY <1>1, <1>2 DEF ReadNow, Notices!Missed, Notices!HasData

LEMMA BroadcastReads ==
  ASSUME Notices!TypeOK, Notices!Broadcast, UNCHANGED <<answer, shown>>
  PROVE  /\ signals' \in Nat /\ behind' \in [Notices!Queries -> BOOLEAN]
         /\ signals' > 0 \/ \A q \in Notices!Queries : ReadNow(q)'
<1>1. CASE stream
  BY <1>1 DEF Notices!Broadcast, Notices!TypeOK
<1>2. CASE ~stream
  BY <1>2, LostReads DEF Notices!Broadcast, Notices!TypeOK
<1>3. QED
  BY <1>1, <1>2

\* After an invalidation every query is asked again, empty or known to be behind.
LEMMA InvalidateReads ==
  ASSUME Notices!ConstantsOK, Notices!TypeOK, Notices!Invalidate, UNCHANGED <<shown>>
  PROVE  /\ answer' \in [Notices!Queries -> Answers]
         /\ behind' \in [Notices!Queries -> BOOLEAN]
         /\ \A q \in Notices!Queries : ReadNow(q)'
<1>1. answer' \in [Notices!Queries -> Answers] /\ behind' \in [Notices!Queries -> BOOLEAN]
  BY AnswerTypes
     DEF Notices!Invalidate, Notices!TypeOK, Notices!Missed, Notices!Active, Notices!StartsOver,
         Notices!HasData, Answers
<1>2. ASSUME NEW q \in Notices!Queries PROVE ReadNow(q)'
  <2>1. CASE Notices!Active(q) /\ Notices!StartsOver(q)
    BY <1>1, <2>1, AnswerTypes DEF Notices!Invalidate, Notices!Invalidated, ReadNow
  <2>2. CASE ~(Notices!Active(q) /\ Notices!StartsOver(q))
    <3>1. answer'[q] = answer[q] /\ (Notices!Missed(q) => behind'[q])
      BY <1>1, <2>2 DEF Notices!Invalidate, Notices!Invalidated
    <3>2. QED
      BY <3>1 DEF ReadNow, Notices!Missed, Notices!HasData
  <2>3. QED
    BY <2>1, <2>2
<1>3. QED
  BY <1>1, <1>2

\* A query that is asked again owes nothing.
LEMMA AskedReads ==
  ASSUME Notices!ConstantsOK, InboxInv, answer' \in [Notices!Queries -> Answers],
         \A q \in Notices!Queries : answer'[q] = answer[q] \/ answer'[q].st = "sent",
         UNCHANGED <<version, emits, stream, signals, shown, mark, behind, troubles>>,
         listed' \in NoticeKeys \cup {None}
  PROVE  InboxInv'
<1>1. Notices!TypeOK'
  BY DEF InboxInv, Notices!TypeOK, Answers
<1>2. ASSUME NEW q \in Notices!Queries, ReadNow(q) PROVE ReadNow(q)'
  BY <1>2 DEF ReadNow, Notices!HasData
<1>3. QED
  BY <1>1, <1>2 DEF InboxInv, Pending

LEMMA JoinedAsks ==
  ASSUME Notices!ConstantsOK, Notices!TypeOK, NEW q \in Notices!Queries
  PROVE  /\ Notices!Joined(q) \in [Notices!Queries -> Answers]
         /\ \A p \in Notices!Queries :
              Notices!Joined(q)[p] = answer[p] \/ Notices!Joined(q)[p].st = "sent"
BY AnswerTypes DEF Notices!Joined, Notices!TypeOK, Answers

---------------------------------------------------------------------------
(* Queries and the page *)

LEMMA ServeFetchStep ==
  ASSUME Notices!ConstantsOK, InboxInv, NEW q \in Notices!Queries, Notices!ServeFetch(q)
  PROVE  InboxInv'
<1>1. /\ answer' = [answer EXCEPT ![q] = [st |-> "served", version |-> version]]
      /\ behind' = [behind EXCEPT ![q] = FALSE]
      /\ UNCHANGED <<version, emits, stream, signals, shown, listed, mark, troubles>>
  BY DEF Notices!ServeFetch
<1>2. [st |-> "served", version |-> version] \in Answers
  BY DEF InboxInv, Notices!TypeOK, Answers
<1>3. answer' \in [Notices!Queries -> Answers] /\ behind' \in [Notices!Queries -> BOOLEAN]
  BY <1>1, <1>2 DEF InboxInv, Notices!TypeOK, Answers
<1>4. Notices!TypeOK'
  BY <1>1, <1>3 DEF InboxInv, Notices!TypeOK, Answers
<1>5. ASSUME NEW p \in Notices!Queries, ReadNow(p) PROVE ReadNow(p)'
  BY <1>1, <1>5 DEF InboxInv, Notices!TypeOK, ReadNow, Notices!HasData
<1>6. QED
  BY <1>1, <1>4, <1>5 DEF InboxInv, Pending

LEMMA ReceiveFetchStep ==
  ASSUME Notices!ConstantsOK, InboxInv, NEW q \in Notices!Queries, Notices!ReceiveFetch(q)
  PROVE  InboxInv'
<1>1. /\ answer[q].st = "served"
      /\ shown' = [shown EXCEPT ![q] = answer[q].version]
      /\ answer' = [answer EXCEPT ![q] = Notices!NoAnswer]
      /\ UNCHANGED <<version, emits, stream, signals, listed, mark, behind, troubles>>
  BY DEF Notices!ReceiveFetch
<1>2. Notices!TypeOK'
  <2>1. answer' \in [Notices!Queries -> Answers]
    BY <1>1, AnswerTypes DEF InboxInv, Notices!TypeOK, Answers
  <2>2. shown' \in [Notices!Queries -> Notices!Versions \cup {None}]
    BY <1>1 DEF InboxInv, Notices!TypeOK
  <2>3. QED
    BY <1>1, <2>1, <2>2 DEF InboxInv, Notices!TypeOK, Answers
<1>3. ASSUME NEW p \in Notices!Queries, ReadNow(p) PROVE ReadNow(p)'
  BY <1>1, <1>3, AnswerTypes DEF InboxInv, Notices!TypeOK, ReadNow, Notices!HasData
<1>4. QED
  BY <1>1, <1>2, <1>3 DEF InboxInv, Pending

LEMMA FailFetchStep ==
  ASSUME Notices!ConstantsOK, InboxInv, NEW q \in Notices!Queries, Notices!FailFetch(q)
  PROVE  InboxInv'
<1>1. /\ answer' = [answer EXCEPT ![q] = Notices!NoAnswer]
      /\ behind' = [behind EXCEPT ![q] = TRUE]
      /\ UNCHANGED <<version, emits, stream, signals, shown, listed, mark>>
  BY DEF Notices!FailFetch
<1>2. troubles' \in 0 .. MaxTurns
  BY TroubleCounts DEF InboxInv, Notices!FailFetch
<1>3. answer' \in [Notices!Queries -> Answers] /\ behind' \in [Notices!Queries -> BOOLEAN]
  BY <1>1, AnswerTypes DEF InboxInv, Notices!TypeOK, Answers
<1>4. Notices!TypeOK'
  BY <1>1, <1>2, <1>3 DEF InboxInv, Notices!TypeOK, Answers
<1>5. ASSUME NEW p \in Notices!Queries, ReadNow(p) PROVE ReadNow(p)'
  BY <1>1, <1>5 DEF InboxInv, Notices!TypeOK, ReadNow, Notices!HasData
<1>6. QED
  BY <1>1, <1>4, <1>5 DEF InboxInv, Pending

LEMMA NoticeRefreshStep ==
  ASSUME Notices!ConstantsOK, InboxInv, NEW scope, Notices!Refresh(scope) PROVE InboxInv'
<1>1. answer' \in [Notices!Queries -> Answers]
  BY AnswerTypes DEF InboxInv, Notices!TypeOK, Answers, Notices!Refresh
<1>2. \A q \in Notices!Queries : answer'[q] = answer[q] \/ answer'[q].st = "sent"
  BY AnswerTypes DEF Notices!Refresh
<1>3. listed' \in NoticeKeys \cup {None}
  BY DEF InboxInv, Notices!TypeOK, Notices!Refresh
<1>4. QED
  BY <1>1, <1>2, <1>3, AskedReads DEF Notices!Refresh

LEMMA PageStep ==
  ASSUME Notices!ConstantsOK, InboxInv,
         Notices!Visit \/ Notices!Leave \/ \E k \in NoticeKeys : Notices!ChangeKey(k)
  PROVE  InboxInv'
<1>1. FirstKey \in Notices!Queries /\ NoticeKeys \subseteq Notices!Queries /\ FirstKey \in NoticeKeys
  BY DEF Notices!ConstantsOK, Notices!Queries
<1>2. answer \in [Notices!Queries -> Answers]
  BY DEF InboxInv, Notices!TypeOK, Answers
<1>3. CASE Notices!Visit
  <2>1. answer' = answer \/ answer' = Notices!Joined(FirstKey)
    BY <1>3 DEF Notices!Visit
  <2>2. QED
    BY <1>1, <1>2, <1>3, <2>1, JoinedAsks, AskedReads DEF InboxInv, Notices!Visit
<1>4. CASE Notices!Leave
  BY <1>2, <1>4, AskedReads DEF Notices!Leave
<1>5. ASSUME NEW k \in NoticeKeys, Notices!ChangeKey(k) PROVE InboxInv'
  <2>1. k \in Notices!Queries
    BY <1>1
  <2>2. answer' = Notices!Joined(k)
    BY <1>5 DEF Notices!ChangeKey
  <2>3. QED
    BY <1>5, <2>1, <2>2, JoinedAsks, AskedReads DEF InboxInv, Notices!ChangeKey
<1>6. QED
  BY <1>3, <1>4, <1>5

---------------------------------------------------------------------------
(* Changes, their signals and the calls of this user *)

\* Steps after which nothing on screen or on its way is out of date.
LEMMA CaughtUp ==
  ASSUME Notices!TypeOK', \A q \in Notices!Queries : ReadNow(q)' PROVE InboxInv'
BY DEF InboxInv, Notices!Queries

LEMMA ChangeStep == ASSUME Notices!ConstantsOK, InboxInv, Notices!Change PROVE InboxInv'
<1>1. version' = version + 1 /\ version' \in Notices!Versions /\ emits' = emits + 1 /\ emits \in Nat
  BY TroubleCounts DEF InboxInv, Notices!TypeOK, Notices!Change
<1>2. Notices!TypeOK'
  BY <1>1 DEF InboxInv, Notices!TypeOK, Notices!Change
<1>3. emits' > 0
  BY <1>1
<1>4. QED
  BY <1>2, <1>3 DEF InboxInv, Pending

LEMMA EmitStep == ASSUME Notices!ConstantsOK, InboxInv, Notices!Emit PROVE InboxInv'
<1>1. /\ Notices!Broadcast /\ emits' \in Nat
      /\ UNCHANGED <<version, stream, shown, answer, listed, mark, troubles>>
  BY DEF InboxInv, Notices!TypeOK, Notices!Emit
<1>2. /\ signals' \in Nat /\ behind' \in [Notices!Queries -> BOOLEAN]
      /\ signals' > 0 \/ \A q \in Notices!Queries : ReadNow(q)'
  BY <1>1, BroadcastReads DEF InboxInv
<1>3. Notices!TypeOK'
  BY <1>1, <1>2 DEF InboxInv, Notices!TypeOK
<1>4. QED
  BY <1>2, <1>3 DEF InboxInv, Pending, Notices!Queries

LEMMA LoseSignalStep == ASSUME Notices!ConstantsOK, InboxInv, Notices!LoseSignal PROVE InboxInv'
<1>1. /\ Notices!Lost /\ emits' \in Nat /\ signals' \in Nat
      /\ UNCHANGED <<version, stream, shown, answer, listed, mark>>
  BY DEF InboxInv, Notices!TypeOK, Notices!LoseSignal
<1>2. troubles' \in 0 .. MaxTurns
  BY TroubleCounts DEF InboxInv, Notices!LoseSignal
<1>3. behind' \in [Notices!Queries -> BOOLEAN] /\ \A q \in Notices!Queries : ReadNow(q)'
  BY <1>1, LostReads DEF InboxInv
<1>4. Notices!TypeOK'
  BY <1>1, <1>2, <1>3 DEF InboxInv, Notices!TypeOK
<1>5. QED
  BY <1>3, <1>4, CaughtUp

LEMMA ReceiveSignalStep ==
  ASSUME Notices!ConstantsOK, InboxInv, Notices!ReceiveSignal PROVE InboxInv'
<1>1. /\ Notices!Invalidate /\ signals' \in Nat
      /\ UNCHANGED <<version, emits, stream, shown, listed, mark, troubles>>
  BY DEF InboxInv, Notices!TypeOK, Notices!ReceiveSignal
<1>2. /\ answer' \in [Notices!Queries -> Answers] /\ behind' \in [Notices!Queries -> BOOLEAN]
      /\ \A q \in Notices!Queries : ReadNow(q)'
  BY <1>1, InvalidateReads DEF InboxInv
<1>3. Notices!TypeOK'
  BY <1>1, <1>2 DEF InboxInv, Notices!TypeOK, Answers
<1>4. QED
  BY <1>2, <1>3, CaughtUp

LEMMA ConnectStep == ASSUME Notices!ConstantsOK, InboxInv, Notices!Connect PROVE InboxInv'
<1>1. stream' = TRUE /\ UNCHANGED <<version, emits, signals, shown, answer, listed, mark, behind, troubles>>
  BY DEF Notices!Connect
<1>2. QED
  BY <1>1 DEF InboxInv, Notices!TypeOK, Pending, ReadNow, Notices!HasData

LEMMA DisconnectStep == ASSUME Notices!ConstantsOK, InboxInv, Notices!Disconnect PROVE InboxInv'
<1>1. /\ stream' = FALSE /\ signals' = 0
      /\ UNCHANGED <<version, emits, shown, answer, listed, mark>>
  BY DEF Notices!Disconnect
<1>2. troubles' \in 0 .. MaxTurns
  BY TroubleCounts DEF InboxInv, Notices!Disconnect
<1>3. CASE signals > 0
  <2>1. behind' \in [Notices!Queries -> BOOLEAN] /\ \A q \in Notices!Queries : ReadNow(q)'
    BY <1>1, <1>3, LostReads DEF InboxInv, Notices!Disconnect
  <2>2. Notices!TypeOK'
    BY <1>1, <1>2, <2>1 DEF InboxInv, Notices!TypeOK
  <2>3. QED
    BY <2>1, <2>2, CaughtUp
<1>4. CASE ~(signals > 0)
  <2>1. behind' = behind
    BY <1>4 DEF Notices!Disconnect
  <2>2. Notices!TypeOK'
    BY <1>1, <1>2, <2>1 DEF InboxInv, Notices!TypeOK
  <2>3. QED
    BY <1>1, <1>4, <2>1, <2>2 DEF InboxInv, Pending, ReadNow, Notices!HasData
<1>5. QED
  BY <1>3, <1>4

\* A call is sent, or given up before its commit or after its signal.
LEMMA MarkStep ==
  ASSUME Notices!ConstantsOK, InboxInv, NEW c \in NoticeCalls,
         Notices!Mark(c) \/ Notices!FailMark(c)
  PROVE  InboxInv'
<1>1. /\ mark' \in [NoticeCalls -> {"idle", "sent", "committed", "emitted"}]
      /\ \A d \in NoticeCalls : mark[d] = "committed" => mark'[d] = "committed"
      /\ UNCHANGED <<version, emits, stream, signals, shown, answer, listed, behind>>
  BY DEF InboxInv, Notices!TypeOK, Notices!Mark, Notices!FailMark
<1>2. troubles' \in 0 .. MaxTurns
  BY TroubleCounts DEF InboxInv, Notices!TypeOK, Notices!Mark, Notices!FailMark
<1>3. Notices!TypeOK'
  BY <1>1, <1>2 DEF InboxInv, Notices!TypeOK
<1>4. QED
  BY <1>1, <1>3 DEF InboxInv, Pending, ReadNow, Notices!HasData

LEMMA ServeMarkStep ==
  ASSUME Notices!ConstantsOK, InboxInv, NEW c \in NoticeCalls, Notices!ServeMark(c)
  PROVE  InboxInv'
<1>1. /\ mark' \in [NoticeCalls -> {"idle", "sent", "committed", "emitted"}]
      /\ mark'[c] = "committed" /\ version' \in Notices!Versions
  BY TroubleCounts DEF InboxInv, Notices!TypeOK, Notices!ServeMark
<1>2. Notices!TypeOK'
  BY <1>1 DEF InboxInv, Notices!TypeOK, Notices!ServeMark
<1>3. QED
  BY <1>1, <1>2 DEF InboxInv, Pending

LEMMA EmitMarkStep ==
  ASSUME Notices!ConstantsOK, InboxInv, NEW c \in NoticeCalls, Notices!EmitMark(c)
  PROVE  InboxInv'
<1>1. /\ mark' \in [NoticeCalls -> {"idle", "sent", "committed", "emitted"}]
      /\ Notices!Broadcast
      /\ UNCHANGED <<version, emits, stream, shown, answer, listed, troubles>>
  BY DEF InboxInv, Notices!TypeOK, Notices!EmitMark
<1>2. /\ signals' \in Nat /\ behind' \in [Notices!Queries -> BOOLEAN]
      /\ signals' > 0 \/ \A q \in Notices!Queries : ReadNow(q)'
  BY <1>1, BroadcastReads DEF InboxInv
<1>3. Notices!TypeOK'
  BY <1>1, <1>2 DEF InboxInv, Notices!TypeOK
<1>4. QED
  BY <1>2, <1>3 DEF InboxInv, Pending, Notices!Queries

LEMMA AnswerMarkStep ==
  ASSUME Notices!ConstantsOK, InboxInv, NEW c \in NoticeCalls, Notices!AnswerMark(c)
  PROVE  InboxInv'
<1>1. /\ mark' \in [NoticeCalls -> {"idle", "sent", "committed", "emitted"}]
      /\ Notices!Invalidate
      /\ UNCHANGED <<version, emits, stream, signals, shown, listed, troubles>>
  BY DEF InboxInv, Notices!TypeOK, Notices!AnswerMark
<1>2. /\ answer' \in [Notices!Queries -> Answers] /\ behind' \in [Notices!Queries -> BOOLEAN]
      /\ \A q \in Notices!Queries : ReadNow(q)'
  BY <1>1, InvalidateReads DEF InboxInv
<1>3. Notices!TypeOK'
  BY <1>1, <1>2 DEF InboxInv, Notices!TypeOK, Answers
<1>4. QED
  BY <1>2, <1>3, CaughtUp

---------------------------------------------------------------------------
LEMMA InboxNext ==
  ASSUME Notices!ConstantsOK, InboxInv, [Notices!Next]_(Notices!inboxVars) PROVE InboxInv'
<1>1. ASSUME NEW q \in Notices!Queries,
             Notices!ServeFetch(q) \/ Notices!ReceiveFetch(q) \/ Notices!FailFetch(q)
      PROVE  InboxInv'
  BY <1>1, ServeFetchStep, ReceiveFetchStep, FailFetchStep
<1>2. ASSUME NEW scope, Notices!Refresh(scope) PROVE InboxInv'
  BY <1>2, NoticeRefreshStep
<1>3. CASE Notices!Visit \/ Notices!Leave \/ \E k \in NoticeKeys : Notices!ChangeKey(k)
  BY <1>3, PageStep
<1>4. CASE \/ Notices!Change \/ Notices!Emit \/ Notices!LoseSignal \/ Notices!ReceiveSignal
           \/ Notices!Connect \/ Notices!Disconnect
  BY <1>4, ChangeStep, EmitStep, LoseSignalStep, ReceiveSignalStep, ConnectStep,
     DisconnectStep
<1>5. ASSUME NEW c \in NoticeCalls,
             \/ Notices!Mark(c) \/ Notices!ServeMark(c) \/ Notices!EmitMark(c)
             \/ Notices!AnswerMark(c) \/ Notices!FailMark(c)
      PROVE  InboxInv'
  BY <1>5, MarkStep, ServeMarkStep, EmitMarkStep, AnswerMarkStep
<1>6. CASE UNCHANGED Notices!inboxVars
  BY <1>6 DEF InboxInv, Notices!inboxVars, Notices!TypeOK, Pending, ReadNow, Notices!HasData
<1>7. QED
  BY <1>1, <1>2, <1>3, <1>4, <1>5, <1>6 DEF Notices!Next

\* The inbox keeps its types.
THEOREM InboxTyped == ASSUME Notices!ConstantsOK PROVE Notices!Spec => []Notices!TypeOK
<1>1. InboxInv => Notices!TypeOK
  BY DEF InboxInv
<1>2. QED
  BY <1>1, InboxInit, InboxNext, PTL DEF Notices!Spec

\* With nothing in flight, what is mounted shows the inbox or is known to be behind.
THEOREM InboxShown == ASSUME Notices!ConstantsOK PROVE Notices!Spec => []Notices!InboxCurrent
<1>1. InboxInv => Notices!InboxCurrent
  BY DEF InboxInv, Notices!TypeOK, Notices!InboxCurrent, Notices!Quiet, Pending, ReadNow
<1>2. QED
  BY <1>1, InboxInit, InboxNext, PTL DEF Notices!Spec

---------------------------------------------------------------------------
(* Navigation: the menus of the bars, cached as a tree for each role *)

\* Rows of menus, each below a smaller one, and what is kept of some of them:
\* trees whose every branch starts at the root.
MenuRows ==
  {table \in [Bars!Menus -> [up : {None} \cup Bars!Menus, on : BOOLEAN, shown : BOOLEAN]] :
     table[1].up = None /\ \A m \in 2 .. 4 : table[m].up \in 1 .. m - 1}
TreeRows == [up : {None} \cup Bars!Menus, shown : BOOLEAN]
IsTree(t) ==
  /\ 1 \in DOMAIN t => t[1].up = None
  /\ \A m \in DOMAIN t : m # 1 => t[m].up \in DOMAIN t /\ t[m].up \in 1 .. m - 1
MenuTrees == {t \in UNION {[D -> TreeRows] : D \in SUBSET Bars!Menus} : IsTree(t)}

\* The request for the menus, by what it has read.
Loads ==
  [st : {"cache", "rows", "answer"}, role : 1 .. 3, list : MenuTrees, fresh : BOOLEAN]
  \cup [st : {"grants"}, role : 1 .. 2, list : MenuTrees, rows : MenuRows, fresh : BOOLEAN]
  \cup [st : {"fill"}, role : 1 .. 2, list : MenuTrees, tree : MenuTrees, fresh : BOOLEAN]

BarShape ==
  /\ side \in Bars!Sides
  /\ menus \in MenuRows
  /\ grants \in [1 .. 2 -> SUBSET Bars!Menus]
  /\ trees \in [1 .. 2 -> MenuTrees \cup {None}]
  /\ clearing \subseteq 1 .. 2
  /\ load \in Loads \cup {Bars!NoLoad}
  /\ load.st \in {"cache", "rows"} => load.role \in 1 .. 2
  /\ load.st = "answer" => load.role = 3
  /\ nav \in [data : MenuTrees, fresh : BOOLEAN]
  /\ groupCode \in BOOLEAN /\ staled \in [1 .. 2 -> BOOLEAN]
  /\ faults \in 0 .. MaxBarErrors /\ moves \in 0 .. MaxBarInputs

\* What a request read of a role is current unless the role was staled meanwhile.
FillInv ==
  /\ load.st = "grants" /\ ~staled[load.role] => load.rows = menus
  /\ load.st = "fill" /\ ~staled[load.role] =>
       load.tree = Bars!TreeOf(menus, grants[load.role])

\* A request that no change came upon has joined the roles it went through.
GrantedTo(n) == UNION {Bars!Included(menus, grants[r]) : r \in {q \in 1 .. 2 : q < n}}
OfRows(t) == \A m \in DOMAIN t : t[m] = [up |-> menus[m].up, shown |-> menus[m].shown]
BarFreshInv ==
  load.fresh =>
    /\ clearing = {} /\ \A r \in 1 .. 2 : ~staled[r]
    /\ load.st # "none" => DOMAIN load.list = GrantedTo(load.role) /\ OfRows(load.list)

BarInv ==
  BarShape /\ FillInv /\ BarFreshInv /\ Bars!CachedTreeCurrent /\ Bars!NavShowsGrants

---------------------------------------------------------------------------
(* The menus above a menu, and trees of them *)

LEMMA MenusAre ==
  Bars!Menus = 1 .. 4 /\ Bars!Roles = 1 .. 2 /\ Bars!Root = 1
  BY DEF Bars!Menus, Bars!Roles, Bars!Root

\* The recursion over rows goes on at a smaller menu, so it has a value.
LEMMA AboveIs ==
  ASSUME Bars!ConstantsOK, NEW table \in MenuRows
  PROVE  Bars!Above(table) =
           [m \in 1 .. 4 |->
              {m} \cup (IF table[m].up = None THEN {} ELSE Bars!Above(table)[table[m].up])]
<1> DEFINE of(up) == [m \in 1 .. 4 |-> {m} \cup (IF table[m].up = None THEN {} ELSE up[table[m].up])]
           a1 == {1}
           a2 == {2} \cup a1
           a3 == {3} \cup (IF table[3].up = 1 THEN a1 ELSE a2)
           a4 == {4} \cup (IF table[4].up = 1 THEN a1 ELSE IF table[4].up = 2 THEN a2 ELSE a3)
           w == [m \in 1 .. 4 |-> IF m = 1 THEN a1 ELSE IF m = 2 THEN a2
                                  ELSE IF m = 3 THEN a3 ELSE a4]
<1>1. /\ table[1].up = None /\ table[2].up \in 1 .. 1 /\ table[3].up \in 1 .. 2
      /\ table[4].up \in 1 .. 3 /\ None \notin 1 .. 4
  BY MenusAre DEF MenuRows, Bars!ConstantsOK
<1>2. w[1] = a1 /\ w[2] = a2 /\ w[3] = a3 /\ w[4] = a4
  OBVIOUS
<1>3. ASSUME NEW m \in 1 .. 4
      PROVE  w[m] = {m} \cup (IF table[m].up = None THEN {} ELSE w[table[m].up])
  <2> HIDE DEF w
  <2>1. CASE m = 1
    BY <1>1, <1>2, <2>1
  <2>2. CASE m = 2
    <3>1. table[m].up = 1 /\ table[m].up # None
      BY <1>1, <2>2
    <3>2. QED
      BY <1>2, <2>2, <3>1
  <2>3. CASE m = 3
    <3>1. (table[m].up = 1 \/ table[m].up = 2) /\ table[m].up # None
      BY <1>1, <2>3
    <3>2. QED
      BY <1>2, <2>3, <3>1
  <2>4. CASE m = 4
    <3>1. (table[m].up = 1 \/ table[m].up = 2 \/ table[m].up = 3) /\ table[m].up # None
      BY <1>1, <2>4
    <3>2. QED
      BY <1>2, <2>4, <3>1
  <2>5. QED
    BY <2>1, <2>2, <2>3, <2>4
<1>4. w = of(w)
  <2>1. DOMAIN w = 1 .. 4 /\ w = [m \in 1 .. 4 |-> w[m]]
    OBVIOUS
  <2> HIDE DEF w
  <2>2. QED
    BY <1>3, <2>1
<1>5. Bars!Above(table) = CHOOSE up : up = of(up)
  BY MenusAre DEF Bars!Above
<1>6. QED
  <2> HIDE DEF w
  <2>1. Bars!Above(table) = of(Bars!Above(table))
    <3> HIDE DEF of
    <3>1. QED
      BY <1>4, <1>5
  <2>2. QED
    BY <2>1

\* A menu is above itself, and with a menu everything above that one.
LEMMA AboveClosed ==
  ASSUME Bars!ConstantsOK, NEW table \in MenuRows, NEW k \in 1 .. 4
  PROVE  /\ Bars!Above(table)[k] \in SUBSET (1 .. k) /\ k \in Bars!Above(table)[k]
         /\ \A m \in Bars!Above(table)[k] : m # 1 => table[m].up \in Bars!Above(table)[k]
<1> DEFINE up == Bars!Above(table)
           whole(j) == /\ up[j] \in SUBSET (1 .. j) /\ j \in up[j]
                       /\ \A m \in up[j] : m # 1 => table[m].up \in up[j]
<1>1. /\ table[1].up = None /\ table[2].up \in 1 .. 1 /\ table[3].up \in 1 .. 2
      /\ table[4].up \in 1 .. 3 /\ None \notin 1 .. 4
  BY MenusAre DEF MenuRows, Bars!ConstantsOK
<1>2. /\ up[1] = {1}
      /\ \A j \in 2 .. 4 : table[j].up \in 1 .. j - 1 /\ up[j] = {j} \cup up[table[j].up]
  <2>1. ASSUME NEW j \in 1 .. 4
        PROVE  up[j] = {j} \cup (IF table[j].up = None THEN {} ELSE up[table[j].up])
    BY AboveIs
  <2> HIDE DEF up
  <2>2. up[1] = {1}
    BY <1>1, <2>1
  <2>3. ASSUME NEW j \in 2 .. 4
        PROVE  table[j].up \in 1 .. j - 1 /\ up[j] = {j} \cup up[table[j].up]
    <3>1. table[j].up \in 1 .. j - 1
      BY DEF MenuRows
    <3>2. table[j].up # None /\ j \in 1 .. 4
      BY <1>1, <3>1
    <3>3. QED
      BY <2>1, <3>1, <3>2
  <2>4. QED
    BY <2>2, <2>3
<1> HIDE DEF up
<1>3. ASSUME NEW j \in 2 .. 4, whole(table[j].up) PROVE whole(j)
  <2>1. PICK i \in 1 .. j - 1 : i = table[j].up
    BY <1>2
  <2>2. up[j] = {j} \cup up[i] /\ whole(i)
    BY <1>2, <1>3, <2>1
  <2>3. up[j] \in SUBSET (1 .. j) /\ j \in up[j]
    BY <2>1, <2>2
  <2>4. ASSUME NEW m \in up[j], m # 1 PROVE table[m].up \in up[j]
    BY <2>1, <2>2, <2>4
  <2>5. QED
    BY <2>3, <2>4
<1>4. whole(1)
  BY <1>2
<1>5. whole(2)
  BY <1>1, <1>3, <1>4
<1>6. whole(3)
  <2>1. table[3].up = 1 \/ table[3].up = 2
    BY <1>1
  <2>2. QED
    BY <1>3, <1>4, <1>5, <2>1
<1>7. whole(4)
  <2>1. table[4].up = 1 \/ table[4].up = 2 \/ table[4].up = 3
    BY <1>1
  <2>2. QED
    BY <1>3, <1>4, <1>5, <1>6, <2>1
<1>8. whole(k)
  <2>1. k = 1 \/ k = 2 \/ k = 3 \/ k = 4
    OBVIOUS
  <2>2. QED
    BY <1>4, <1>5, <1>6, <1>7, <2>1
<1>9. QED
  BY <1>8 DEF up

LEMMA TreeOfTyped ==
  ASSUME Bars!ConstantsOK, NEW table \in MenuRows, NEW given \in SUBSET Bars!Menus
  PROVE  /\ Bars!TreeOf(table, given) \in MenuTrees
         /\ DOMAIN Bars!TreeOf(table, given) = Bars!Included(table, given)
<1> DEFINE D == Bars!Included(table, given)
           t == Bars!TreeOf(table, given)
<1>1. table \in [1 .. 4 -> [up : {None} \cup (1 .. 4), on : BOOLEAN, shown : BOOLEAN]]
  BY MenusAre DEF MenuRows
<1>2. D = UNION {Bars!Above(table)[m] : m \in {k \in given \cap Bars!Enabled(table) :
                                          Bars!Above(table)[k] \subseteq Bars!Enabled(table)}}
  BY DEF Bars!Included
<1>3. D \in SUBSET (1 .. 4) /\ \A m \in D : m # 1 => table[m].up \in D
  <2>1. ASSUME NEW m \in D PROVE m \in 1 .. 4 /\ (m # 1 => table[m].up \in D)
    <3>1. PICK k \in given \cap Bars!Enabled(table) :
            m \in Bars!Above(table)[k] /\ Bars!Above(table)[k] \subseteq D
      BY <1>2
    <3>2. k \in 1 .. 4
      BY <3>1, MenusAre
    <3>3. QED
      BY <3>1, <3>2, AboveClosed
  <2>2. QED
    BY <2>1
<1> HIDE DEF D
<1>4. t = [m \in D |-> [up |-> table[m].up, shown |-> table[m].shown]]
  BY DEF Bars!TreeOf, D
<1>5. t \in [D -> TreeRows]
  BY <1>1, <1>3, <1>4, MenusAre DEF TreeRows
<1>6. IsTree(t)
  <2>1. ASSUME NEW m \in D, m # 1 PROVE t[m].up \in D /\ t[m].up \in 1 .. m - 1
    <3>1. m \in 2 .. 4 /\ t[m].up = table[m].up
      BY <1>3, <1>4, <2>1
    <3>2. table[m].up \in 1 .. m - 1
      BY <3>1 DEF MenuRows
    <3>3. QED
      BY <1>3, <2>1, <3>1, <3>2
  <2>2. 1 \in D => t[1].up = None
    BY <1>4 DEF MenuRows
  <2>3. QED
    BY <1>5, <2>1, <2>2 DEF IsTree
<1>7. t \in MenuTrees
  BY <1>3, <1>5, <1>6, MenusAre DEF MenuTrees
<1>8. QED
  BY <1>4, <1>7 DEF D

\* A tree is a function whose domain is a set of menus.
LEMMA TreesAre ==
  ASSUME NEW t \in MenuTrees
  PROVE  /\ DOMAIN t \in SUBSET (1 .. 4) /\ t \in [DOMAIN t -> TreeRows]
         /\ 1 \in DOMAIN t => t[1].up = None
         /\ \A m \in DOMAIN t : m # 1 => t[m].up \in DOMAIN t /\ t[m].up \in 1 .. m - 1
<1>1. PICK D \in SUBSET (1 .. 4) : t \in [D -> TreeRows]
  BY MenusAre DEF MenuTrees
<1>2. IsTree(t)
  BY DEF MenuTrees
<1>3. DOMAIN t = D
  BY <1>1
<1>4. /\ 1 \in DOMAIN t => t[1].up = None
      /\ \A m \in DOMAIN t : m # 1 => t[m].up \in DOMAIN t /\ t[m].up \in 1 .. m - 1
  BY <1>2 DEF IsTree
<1>5. QED
  BY <1>1, <1>3, <1>4

LEMMA TreeMade ==
  ASSUME NEW D \in SUBSET (1 .. 4), NEW t \in [D -> TreeRows], IsTree(t) PROVE t \in MenuTrees
  BY MenusAre DEF MenuTrees

LEMMA JoinedTyped ==
  ASSUME NEW list \in MenuTrees, NEW tree \in MenuTrees
  PROVE  /\ Bars!Joined(list, tree) \in MenuTrees
         /\ DOMAIN Bars!Joined(list, tree) = DOMAIN list \cup DOMAIN tree
<1> DEFINE t == Bars!Joined(list, tree)
           D == DOMAIN list \cup DOMAIN tree
<1>1. t = [m \in D |-> IF m \in DOMAIN list THEN list[m] ELSE tree[m]]
  BY DEF Bars!Joined
<1>2. D \in SUBSET (1 .. 4)
  BY TreesAre
<1>3. t \in [D -> TreeRows]
  BY <1>1, TreesAre
<1>4. \A m \in D : m # 1 => t[m].up \in D /\ t[m].up \in 1 .. m - 1
  <2>1. ASSUME NEW m \in D, m # 1 PROVE t[m].up \in D /\ t[m].up \in 1 .. m - 1
    <3>1. CASE m \in DOMAIN list
      BY <1>1, <2>1, <3>1, TreesAre
    <3>2. CASE m \notin DOMAIN list
      BY <1>1, <2>1, <3>2, TreesAre
    <3>3. QED
      BY <3>1, <3>2
  <2>2. QED
    BY <2>1
<1>5. 1 \in D => t[1].up = None
  BY <1>1, TreesAre
<1>6. DOMAIN t = D
  BY <1>1
<1>7. QED
  BY <1>2, <1>3, <1>4, <1>5, <1>6, TreeMade DEF IsTree

\* In a tree every menu is reached from the root, so building it drops none.
LEMMA RootedIs ==
  ASSUME NEW t \in MenuTrees PROVE Bars!Rooted(t) = DOMAIN t /\ Bars!FromFlat(t) = t
<1> DEFINE D == DOMAIN t
           of(up) == [m \in 1 .. 4 |-> m \in D /\ (m = 1 \/ up[t[m].up])]
           w == [m \in 1 .. 4 |-> m \in D]
           up1 == CHOOSE up : up = of(up)
<1>1. /\ D \in SUBSET (1 .. 4) /\ t = [m \in D |-> t[m]]
      /\ \A m \in D : m # 1 => t[m].up \in D /\ t[m].up \in 1 .. m - 1
  BY TreesAre
<1>2. w = of(w)
  <2>1. ASSUME NEW m \in 1 .. 4 PROVE (m \in D) = (m \in D /\ (m = 1 \/ w[t[m].up]))
    <3>1. CASE m \in D /\ m # 1
      <4>1. t[m].up \in 1 .. 4 /\ t[m].up \in D
        BY <1>1, <3>1
      <4>2. w[t[m].up] = TRUE
        BY <4>1
      <4>3. QED
        BY <3>1, <4>2
    <3>2. CASE ~(m \in D /\ m # 1)
      BY <3>2
    <3>3. QED
      BY <3>1, <3>2
  <2>2. QED
    BY <2>1
<1>3. up1 = of(up1)
  <2> HIDE DEF w, of
  <2>1. QED
    BY <1>2
<1> HIDE DEF up1, w
<1>4. \A m \in 1 .. 4 : up1[m] = (m \in D /\ (m = 1 \/ up1[t[m].up]))
  BY <1>3
<1>5. ASSUME NEW m \in D, m # 1 => up1[t[m].up] = TRUE PROVE up1[m] = TRUE
  <2>1. m \in 1 .. 4
    BY <1>1
  <2>2. TRUE = (m \in D /\ (m = 1 \/ up1[t[m].up]))
    BY <1>5
  <2>3. QED
    BY <1>4, <2>1, <2>2
<1>6. 1 \in D => up1[1] = TRUE
  BY <1>5
<1>7. 2 \in D => up1[2] = TRUE
  <2>1. 2 \in D => t[2].up = 1 /\ 1 \in D
    BY <1>1
  <2>2. QED
    BY <1>5, <1>6, <2>1
<1>8. 3 \in D => up1[3] = TRUE
  <2>1. 3 \in D => (t[3].up = 1 \/ t[3].up = 2) /\ t[3].up \in D
    BY <1>1
  <2>2. QED
    BY <1>5, <1>6, <1>7, <2>1
<1>9. 4 \in D => up1[4] = TRUE
  <2>1. 4 \in D => (t[4].up = 1 \/ t[4].up = 2 \/ t[4].up = 3) /\ t[4].up \in D
    BY <1>1
  <2>2. QED
    BY <1>5, <1>6, <1>7, <1>8, <2>1
<1>10. ASSUME NEW m \in D PROVE up1[m]
  <2>1. m = 1 \/ m = 2 \/ m = 3 \/ m = 4
    BY <1>1
  <2>2. QED
    BY <1>6, <1>7, <1>8, <1>9, <2>1
<1>11. Bars!Rooted(t) = {m \in D : up1[m]}
  BY MenusAre DEF Bars!Rooted, up1
<1>12. Bars!Rooted(t) = D
  BY <1>10, <1>11
<1>13. QED
  BY <1>1, <1>12 DEF Bars!FromFlat

LEMMA NoMenusTyped == Bars!NoMenus \in MenuTrees /\ DOMAIN Bars!NoMenus = {}
<1>1. Bars!NoMenus = [m \in {} |-> None]
  BY DEF Bars!NoMenus
<1>2. Bars!NoMenus \in [{} -> TreeRows] /\ DOMAIN Bars!NoMenus = {}
  BY <1>1
<1>3. QED
  BY <1>2, TreeMade DEF IsTree

\* What the roles were granted together is what each was granted.
LEMMA GrantedTogether ==
  ASSUME Bars!ConstantsOK, BarShape
  PROVE  /\ GrantedTo(1) = {} /\ GrantedTo(2) = Bars!Included(menus, grants[1])
         /\ GrantedTo(3) = Bars!Included(menus, UNION {grants[r] : r \in Bars!Roles})
         /\ GrantedTo(3) = GrantedTo(2) \cup Bars!Included(menus, grants[2])
<1>1. GrantedTo(1) = {} /\ GrantedTo(2) = Bars!Included(menus, grants[1])
  <2>1. {q \in 1 .. 2 : q < 1} = {} /\ {q \in 1 .. 2 : q < 2} = {1}
    OBVIOUS
  <2>2. QED
    BY <2>1 DEF GrantedTo
<1>2. GrantedTo(3) = Bars!Included(menus, grants[1]) \cup Bars!Included(menus, grants[2])
  <2>1. {q \in 1 .. 2 : q < 3} = {1, 2}
    OBVIOUS
  <2>2. QED
    BY <2>1 DEF GrantedTo
<1>3. UNION {grants[r] : r \in Bars!Roles} = grants[1] \cup grants[2]
  <2>1. Bars!Roles = {1, 2}
    BY MenusAre
  <2>2. QED
    BY <2>1
<1>4. \A g, h : Bars!Included(menus, g \cup h) =
                  Bars!Included(menus, g) \cup Bars!Included(menus, h)
  BY DEF Bars!Included
<1>5. QED
  BY <1>1, <1>2, <1>3, <1>4

---------------------------------------------------------------------------
(* Changes, and the trees they delete *)

\* What the steps use of the types.
LEMMA BarFacts ==
  ASSUME Bars!ConstantsOK, BarInv
  PROVE  /\ menus \in MenuRows /\ grants \in [1 .. 2 -> SUBSET Bars!Menus]
         /\ trees \in [1 .. 2 -> MenuTrees \cup {None}] /\ clearing \subseteq 1 .. 2
         /\ load \in Loads \cup {Bars!NoLoad} /\ nav \in [data : MenuTrees, fresh : BOOLEAN]
         /\ staled \in [1 .. 2 -> BOOLEAN]
         /\ load.fresh \in BOOLEAN
         /\ load.st \in {"none", "cache", "rows", "grants", "fill", "answer"}
         /\ load.st # "none" => load \in Loads /\ load.list \in MenuTrees
         /\ load.st \in {"cache", "rows", "grants", "fill"} => load.role \in 1 .. 2
         /\ load.st = "answer" => load.role = 3
         /\ load.st = "grants" => load.rows \in MenuRows
         /\ load.st = "fill" => load.tree \in MenuTrees
<1>1. BarShape
  BY DEF BarInv
<1>2. CASE load = Bars!NoLoad
  BY <1>1, <1>2 DEF BarShape, Bars!NoLoad
<1>3. CASE load \in [st : {"cache", "rows", "answer"}, role : 1 .. 3, list : MenuTrees, fresh : BOOLEAN]
  BY <1>1, <1>3 DEF BarShape, Loads
<1>4. CASE load \in [st : {"grants"}, role : 1 .. 2, list : MenuTrees, rows : MenuRows, fresh : BOOLEAN]
  BY <1>1, <1>4 DEF BarShape, Loads
<1>5. CASE load \in [st : {"fill"}, role : 1 .. 2, list : MenuTrees, tree : MenuTrees, fresh : BOOLEAN]
  BY <1>1, <1>5 DEF BarShape, Loads
<1>6. QED
  BY <1>1, <1>2, <1>3, <1>4, <1>5 DEF BarShape, Loads

\* A request goes on as it is, but it may be known to be behind.
LEMMA LoadAged ==
  ASSUME Bars!ConstantsOK, BarInv, load' = [load EXCEPT !.fresh = FALSE]
  PROVE  /\ load' \in Loads \cup {Bars!NoLoad} /\ load'.st = load.st /\ load'.fresh = FALSE
         /\ load.st # "none" => load'.role = load.role
         /\ load.st = "grants" => load'.rows = load.rows
         /\ load.st = "fill" => load'.tree = load.tree
BY BarFacts DEF Loads, Bars!NoLoad

LEMMA ChangedStep ==
  ASSUME Bars!ConstantsOK, BarInv, NEW rs \in SUBSET (1 .. 2), Bars!Changed(rs),
         menus' \in MenuRows, grants' \in [1 .. 2 -> SUBSET Bars!Menus],
         \A r \in (1 .. 2) \ rs : menus' = menus /\ grants'[r] = grants[r],
         Bars!Input
  PROVE  BarInv'
<1>1. /\ clearing' = clearing \cup rs
      /\ staled' = [r \in 1 .. 2 |-> staled[r] \/ (r \in rs /\ Bars!Filling(r))]
      /\ load' = [load EXCEPT !.fresh = FALSE]
      /\ nav' = [nav EXCEPT !.fresh = FALSE]
      /\ UNCHANGED <<side, trees, groupCode, faults>>
      /\ moves < MaxBarInputs /\ moves' = moves + 1
  BY MenusAre DEF Bars!Changed, Bars!Input
<1>2. /\ load' \in Loads \cup {Bars!NoLoad} /\ load'.st = load.st /\ load'.fresh = FALSE
      /\ load.st # "none" => load'.role = load.role
      /\ load.st = "grants" => load'.rows = load.rows
      /\ load.st = "fill" => load'.tree = load.tree
  BY <1>1, LoadAged
<1>3. staled' \in [1 .. 2 -> BOOLEAN]
  <2>1. \A r \in 1 .. 2 : (staled[r] \/ (r \in rs /\ Bars!Filling(r))) \in BOOLEAN
    OBVIOUS
  <2>2. QED
    BY <1>1, <2>1
<1>4. ASSUME NEW r \in 1 .. 2, ~staled'[r]
      PROVE  ~staled[r] /\ (Bars!Filling(r) => r \notin rs)
  <2>1. staled'[r] = (staled[r] \/ (r \in rs /\ Bars!Filling(r)))
    BY <1>1
  <2>2. ~(staled[r] \/ (r \in rs /\ Bars!Filling(r)))
    BY <1>4, <2>1
  <2>3. QED
    BY <2>2
<1>5. nav' \in [data : MenuTrees, fresh : BOOLEAN] /\ nav'.fresh = FALSE
  BY <1>1, BarFacts
<1>6. BarShape'
  <2>1. moves' \in 0 .. MaxBarInputs
    BY <1>1 DEF BarInv, BarShape, Bars!ConstantsOK
  <2>2. QED
    BY <1>1, <1>2, <1>3, <1>5, <2>1, BarFacts DEF BarInv, BarShape
<1>7. FillInv'
  <2>1. ASSUME load.st \in {"grants", "fill"}, ~staled'[load.role]
        PROVE  /\ load.role \in 1 .. 2 /\ ~staled[load.role]
               /\ menus' = menus /\ grants'[load.role] = grants[load.role]
    <3>1. load.role \in 1 .. 2 /\ Bars!Filling(load.role)
      BY <2>1, BarFacts DEF Bars!Filling
    <3>2. QED
      BY <1>4, <2>1, <3>1
  <2>2. QED
    BY <1>2, <2>1 DEF BarInv, FillInv
<1>8. BarFreshInv'
  BY <1>2 DEF BarFreshInv
<1>9. Bars!CachedTreeCurrent'
  <2>1. ASSUME NEW r \in 1 .. 2, trees'[r] # None, r \notin clearing', ~staled'[r]
        PROVE  trees'[r] = Bars!TreeOf(menus', grants'[r])
    <3>1. ~staled[r] /\ r \notin clearing /\ trees[r] # None
      BY <1>1, <1>4, <2>1
    <3>2. menus' = menus /\ grants'[r] = grants[r]
      BY <1>1, <2>1
    <3>3. QED
      BY <1>1, <3>1, <3>2, MenusAre DEF BarInv, Bars!CachedTreeCurrent
  <2>2. QED
    BY <2>1, MenusAre DEF Bars!CachedTreeCurrent
<1>10. Bars!NavShowsGrants'
  BY <1>5 DEF Bars!NavShowsGrants
<1>11. QED
  BY <1>6, <1>7, <1>8, <1>9, <1>10 DEF BarInv

LEMMA UpdateMenuStep ==
  ASSUME Bars!ConstantsOK, BarInv, Bars!UpdateMenu PROVE BarInv'
<1>1. PICK m \in 2 .. 4 :
        \/ \E p \in 1 .. m - 1 : menus' = [menus EXCEPT ![m].up = p]
        \/ menus' = [menus EXCEPT ![m].on = ~@]
        \/ menus' = [menus EXCEPT ![m].shown = ~@]
  <2>1. Bars!Menus \ {Bars!Root} = 2 .. 4
    BY MenusAre
  <2>2. QED
    BY <2>1 DEF Bars!UpdateMenu
<1>2. Bars!Changed(1 .. 2) /\ UNCHANGED grants /\ Bars!Input
  BY MenusAre DEF Bars!UpdateMenu, Bars!MenuReaders
<1>3. menus \in MenuRows
  BY BarFacts
<1>4. PICK row \in [up : 1 .. m - 1, on : BOOLEAN, shown : BOOLEAN] :
        menus' = [menus EXCEPT ![m] = row]
  <2>1. menus[m] \in [up : 1 .. m - 1, on : BOOLEAN, shown : BOOLEAN]
    BY <1>3, MenusAre DEF MenuRows
  <2>2. ASSUME NEW p \in 1 .. m - 1, menus' = [menus EXCEPT ![m].up = p]
        PROVE  menus' = [menus EXCEPT ![m] = [menus[m] EXCEPT !.up = p]]
               /\ [menus[m] EXCEPT !.up = p] \in [up : 1 .. m - 1, on : BOOLEAN, shown : BOOLEAN]
    BY <2>1, <2>2
  <2>3. ASSUME menus' = [menus EXCEPT ![m].on = ~@]
        PROVE  menus' = [menus EXCEPT ![m] = [menus[m] EXCEPT !.on = ~@]]
               /\ [menus[m] EXCEPT !.on = ~@] \in [up : 1 .. m - 1, on : BOOLEAN, shown : BOOLEAN]
    BY <2>1, <2>3
  <2>4. ASSUME menus' = [menus EXCEPT ![m].shown = ~@]
        PROVE  menus' = [menus EXCEPT ![m] = [menus[m] EXCEPT !.shown = ~@]]
               /\ [menus[m] EXCEPT !.shown = ~@] \in [up : 1 .. m - 1, on : BOOLEAN, shown : BOOLEAN]
    BY <2>1, <2>4
  <2>5. QED
    BY <1>1, <2>2, <2>3, <2>4
<1>5. menus' \in MenuRows
  <2>1. row \in [up : {None} \cup Bars!Menus, on : BOOLEAN, shown : BOOLEAN]
    BY MenusAre
  <2>2. menus' \in [Bars!Menus -> [up : {None} \cup Bars!Menus, on : BOOLEAN, shown : BOOLEAN]]
    BY <1>3, <1>4, <2>1 DEF MenuRows
  <2>3. menus'[1].up = None
    BY <1>3, <1>4, MenusAre DEF MenuRows
  <2>4. ASSUME NEW k \in 2 .. 4 PROVE menus'[k].up \in 1 .. k - 1
    BY <1>3, <1>4, MenusAre DEF MenuRows
  <2>5. QED
    BY <2>2, <2>3, <2>4 DEF MenuRows
<1>6. grants' \in [1 .. 2 -> SUBSET Bars!Menus]
  BY <1>2, BarFacts
<1>7. QED
  BY <1>2, <1>5, <1>6, ChangedStep

LEMMA AssignMenusStep ==
  ASSUME Bars!ConstantsOK, BarInv, Bars!AssignMenus PROVE BarInv'
<1>1. PICK r \in 1 .. 2, given \in SUBSET Bars!Menus :
        /\ grants' = [grants EXCEPT ![r] = given] /\ Bars!Changed({r})
        /\ UNCHANGED menus /\ Bars!Input
  <2>1. {{3}, {2, 4}, {}} \subseteq SUBSET Bars!Menus
    BY MenusAre
  <2>2. QED
    BY <2>1, MenusAre DEF Bars!AssignMenus
<1>2. grants \in [1 .. 2 -> SUBSET Bars!Menus] /\ menus' \in MenuRows
  BY <1>1, BarFacts
<1>3. /\ grants' \in [1 .. 2 -> SUBSET Bars!Menus]
      /\ \A q \in (1 .. 2) \ {r} : menus' = menus /\ grants'[q] = grants[q]
  BY <1>1, <1>2
<1>4. {r} \in SUBSET (1 .. 2)
  OBVIOUS
<1>5. QED
  BY <1>1, <1>2, <1>3, <1>4, ChangedStep

LEMMA ClearTreesStep ==
  ASSUME Bars!ConstantsOK, BarInv, Bars!ClearTrees PROVE BarInv'
<1>1. /\ clearing # {} /\ clearing' = {}
      /\ trees' = [r \in 1 .. 2 |-> IF r \in clearing THEN None ELSE trees[r]]
      /\ staled' = [r \in 1 .. 2 |-> staled[r] /\ (r \notin clearing \/ Bars!Filling(r))]
      /\ UNCHANGED <<side, menus, grants, load, nav, groupCode, faults, moves>>
  BY MenusAre DEF Bars!ClearTrees
<1>2. ~load.fresh
  BY <1>1 DEF BarInv, BarFreshInv
<1>3. BarShape'
  <2>1. \A r \in 1 .. 2 : (staled[r] /\ (r \notin clearing \/ Bars!Filling(r))) \in BOOLEAN
    OBVIOUS
  <2>2. staled' \in [1 .. 2 -> BOOLEAN]
    BY <1>1, <2>1
  <2>3. trees' \in [1 .. 2 -> MenuTrees \cup {None}]
    BY <1>1, BarFacts
  <2>4. QED
    BY <1>1, <2>2, <2>3 DEF BarInv, BarShape
<1>4. ASSUME NEW r \in 1 .. 2, ~staled'[r], r \notin clearing \/ Bars!Filling(r)
      PROVE  ~staled[r]
  <2>1. staled'[r] = (staled[r] /\ (r \notin clearing \/ Bars!Filling(r)))
    BY <1>1
  <2>2. ~(staled[r] /\ (r \notin clearing \/ Bars!Filling(r)))
    BY <1>4, <2>1
  <2>3. QED
    BY <1>4, <2>2
<1>5. FillInv'
  <2>1. ASSUME load.st \in {"grants", "fill"}, ~staled'[load.role] PROVE ~staled[load.role]
    <3>1. load.role \in 1 .. 2 /\ Bars!Filling(load.role)
      BY <2>1, BarFacts DEF Bars!Filling
    <3>2. QED
      BY <1>4, <2>1, <3>1
  <2>2. QED
    BY <1>1, <2>1 DEF BarInv, FillInv
<1>6. BarFreshInv'
  BY <1>1, <1>2 DEF BarFreshInv
<1>7. Bars!CachedTreeCurrent'
  <2>1. ASSUME NEW r \in 1 .. 2, trees'[r] # None, ~staled'[r]
        PROVE  trees'[r] = Bars!TreeOf(menus, grants[r])
    <3>1. r \notin clearing /\ trees'[r] = trees[r]
      BY <1>1, <2>1
    <3>2. ~staled[r]
      BY <1>4, <2>1, <3>1
    <3>3. QED
      BY <2>1, <3>1, <3>2, MenusAre DEF BarInv, Bars!CachedTreeCurrent
  <2>2. QED
    BY <1>1, <2>1, MenusAre DEF Bars!CachedTreeCurrent
<1>8. Bars!NavShowsGrants'
  BY <1>1 DEF BarInv, Bars!NavShowsGrants
<1>9. QED
  BY <1>3, <1>5, <1>6, <1>7, <1>8 DEF BarInv

LEMMA FaultCounted ==
  ASSUME Bars!ConstantsOK, BarInv, Bars!Fault
  PROVE  faults' \in 0 .. MaxBarErrors /\ UNCHANGED moves
BY DEF BarInv, BarShape, Bars!Fault, Bars!ConstantsOK

LEMMA ClearFailsStep ==
  ASSUME Bars!ConstantsOK, BarInv, Bars!ClearFails PROVE BarInv'
<1>1. /\ clearing # {} /\ clearing' = {}
      /\ staled' = [r \in 1 .. 2 |-> staled[r] \/ r \in clearing]
      /\ UNCHANGED <<side, menus, grants, trees, load, nav, groupCode>>
      /\ faults' \in 0 .. MaxBarErrors /\ UNCHANGED moves
  BY MenusAre, FaultCounted DEF Bars!ClearFails
<1>2. ~load.fresh
  BY <1>1 DEF BarInv, BarFreshInv
<1>3. BarShape'
  <2>1. \A r \in 1 .. 2 : (staled[r] \/ r \in clearing) \in BOOLEAN
    OBVIOUS
  <2>2. staled' \in [1 .. 2 -> BOOLEAN]
    BY <1>1, <2>1
  <2>3. QED
    BY <1>1, <2>2 DEF BarInv, BarShape
<1>4. ASSUME NEW r \in 1 .. 2, ~staled'[r] PROVE ~staled[r] /\ r \notin clearing
  <2>1. staled'[r] = (staled[r] \/ r \in clearing)
    BY <1>1
  <2>2. ~(staled[r] \/ r \in clearing)
    BY <1>4, <2>1
  <2>3. QED
    BY <2>2
<1>5. FillInv'
  <2>1. ASSUME load.st \in {"grants", "fill"}, ~staled'[load.role] PROVE ~staled[load.role]
    BY <1>4, <2>1, BarFacts
  <2>2. QED
    BY <1>1, <2>1 DEF BarInv, FillInv
<1>6. BarFreshInv'
  BY <1>1, <1>2 DEF BarFreshInv
<1>7. Bars!CachedTreeCurrent'
  BY <1>1, <1>4, MenusAre DEF BarInv, Bars!CachedTreeCurrent
<1>8. Bars!NavShowsGrants'
  BY <1>1 DEF BarInv, Bars!NavShowsGrants
<1>9. QED
  BY <1>3, <1>5, <1>6, <1>7, <1>8 DEF BarInv

---------------------------------------------------------------------------
(* The request for the menus *)

\* The request goes on, or its answer is there; the cache may be filled.
LEMMA LoadStep ==
  ASSUME Bars!ConstantsOK, BarInv,
         UNCHANGED <<side, menus, grants, clearing, staled>>,
         groupCode' \in BOOLEAN, faults' \in 0 .. MaxBarErrors, moves' \in 0 .. MaxBarInputs,
         load' \in Loads \cup {Bars!NoLoad},
         load'.st \in {"cache", "rows"} => load'.role \in 1 .. 2,
         load'.st = "answer" => load'.role = 3,
         FillInv', BarFreshInv',
         UNCHANGED trees \/ \E r \in 1 .. 2, t \in MenuTrees :
                              /\ trees' = [trees EXCEPT ![r] = t]
                              /\ ~staled[r] => t = Bars!TreeOf(menus, grants[r]),
         UNCHANGED nav \/ (nav' \in [data : MenuTrees, fresh : BOOLEAN] /\ Bars!NavShowsGrants')
  PROVE  BarInv'
<1>1. trees' \in [1 .. 2 -> MenuTrees \cup {None}] /\ Bars!CachedTreeCurrent'
  <2>1. CASE UNCHANGED trees
    BY <2>1, BarFacts DEF BarInv, Bars!CachedTreeCurrent
  <2>2. ASSUME NEW r \in 1 .. 2, NEW t \in MenuTrees, trees' = [trees EXCEPT ![r] = t],
               ~staled[r] => t = Bars!TreeOf(menus, grants[r])
        PROVE  trees' \in [1 .. 2 -> MenuTrees \cup {None}] /\ Bars!CachedTreeCurrent'
    <3>1. /\ trees' \in [1 .. 2 -> MenuTrees \cup {None}] /\ trees'[r] = t
          /\ \A q \in 1 .. 2 : q # r => trees'[q] = trees[q]
      BY <2>2, BarFacts
    <3>2. QED
      BY <2>2, <3>1, MenusAre DEF BarInv, Bars!CachedTreeCurrent
  <2>3. QED
    BY <2>1, <2>2
<1>2. nav' \in [data : MenuTrees, fresh : BOOLEAN] /\ Bars!NavShowsGrants'
  <2>1. CASE UNCHANGED nav
    BY <2>1, BarFacts DEF BarInv, Bars!NavShowsGrants
  <2>2. CASE nav' \in [data : MenuTrees, fresh : BOOLEAN] /\ Bars!NavShowsGrants'
    BY <2>2
  <2>3. QED
    BY <2>1, <2>2
<1>3. BarShape'
  BY <1>1, <1>2 DEF BarInv, BarShape
<1>4. QED
  BY <1>1, <1>2, <1>3 DEF BarInv

LEMMA BarQuiet ==
  ASSUME Bars!ConstantsOK, BarInv,
         UNCHANGED <<side, menus, grants, trees, clearing, load, nav, staled>>,
         groupCode' \in BOOLEAN, faults' \in 0 .. MaxBarErrors, moves' \in 0 .. MaxBarInputs
  PROVE  BarInv'
<1>1. FillInv' /\ BarFreshInv'
  BY DEF BarInv, FillInv, BarFreshInv, GrantedTo, OfRows
<1>2. /\ load' \in Loads \cup {Bars!NoLoad}
      /\ load'.st \in {"cache", "rows"} => load'.role \in 1 .. 2
      /\ load'.st = "answer" => load'.role = 3
  BY DEF BarInv, BarShape
<1>3. QED
  BY <1>1, <1>2, LoadStep

\* Nothing a role was granted changes while a request goes on.
LEMMA GrantsStay ==
  ASSUME UNCHANGED <<menus, grants>>
  PROVE  /\ GrantedTo(load.role)' = GrantedTo(load'.role)
         /\ OfRows(load.list)' = OfRows(load'.list)
  BY DEF GrantedTo, OfRows

\* The tree of a role is made of its rows, and so are two trees joined.
LEMMA RowsJoined ==
  ASSUME NEW list \in MenuTrees, NEW tree \in MenuTrees, OfRows(list), OfRows(tree)
  PROVE  OfRows(Bars!Joined(list, tree))
  BY DEF OfRows, Bars!Joined

LEMMA TreeOfRows == ASSUME NEW g PROVE OfRows(Bars!TreeOf(menus, g))
  BY DEF OfRows, Bars!TreeOf

LEMMA AskMenusStep ==
  ASSUME Bars!ConstantsOK, BarInv, Bars!AskMenus PROVE BarInv'
<1>1. PICK fresh \in BOOLEAN :
        /\ fresh => clearing = {} /\ \A r \in 1 .. 2 : ~staled[r]
        /\ load' = [st |-> "cache", role |-> 1, list |-> Bars!NoMenus, fresh |-> fresh]
        /\ UNCHANGED <<side, menus, grants, trees, clearing, nav, groupCode, staled, faults>>
        /\ moves < MaxBarInputs /\ moves' = moves + 1
  <2>1. (clearing = {} /\ \A r \in 1 .. 2 : ~staled[r]) \in BOOLEAN
    OBVIOUS
  <2>2. QED
    BY <2>1, MenusAre DEF Bars!AskMenus, Bars!Input
<1>2. load' \in Loads /\ load'.st = "cache" /\ load'.role = 1
  BY <1>1, NoMenusTyped DEF Loads
<1>3. moves' \in 0 .. MaxBarInputs /\ groupCode' \in BOOLEAN /\ faults' \in 0 .. MaxBarErrors
  BY <1>1 DEF BarInv, BarShape, Bars!ConstantsOK
<1>4. FillInv'
  BY <1>2 DEF FillInv
<1>5. BarFreshInv'
  <2>1. GrantedTo(1) = {} /\ GrantedTo(load.role)' = GrantedTo(load'.role)
    BY <1>1, GrantedTogether, GrantsStay DEF BarInv
  <2>2. load'.list = Bars!NoMenus /\ load'.fresh = fresh
    BY <1>1
  <2>3. GrantedTo(load.role)' = {} /\ DOMAIN load'.list = {}
    BY <1>2, <2>1, <2>2, NoMenusTyped
  <2>4. QED
    BY <1>1, <2>2, <2>3 DEF BarFreshInv, OfRows
<1>6. QED
  BY <1>1, <1>2, <1>3, <1>4, <1>5, LoadStep

\* A request that goes on with the tree of a role has what the roles so far were granted.
LEMMA ContinueStep ==
  ASSUME Bars!ConstantsOK, BarInv, NEW tree \in MenuTrees, Bars!Continue(tree),
         load.st \in {"cache", "fill"},
         load.fresh => tree = Bars!TreeOf(menus, grants[load.role]),
         UNCHANGED <<side, menus, grants, clearing, nav, groupCode, staled, moves>>,
         faults' \in 0 .. MaxBarErrors,
         UNCHANGED trees \/ (/\ trees' = [trees EXCEPT ![load.role] = tree]
                             /\ ~staled[load.role] => tree = Bars!TreeOf(menus, grants[load.role]))
  PROVE  BarInv'
<1>1. PICK role \in 1 .. 2, list \in MenuTrees :
        /\ role = load.role /\ list = load.list
        /\ load' = [st |-> IF role = 2 THEN "answer" ELSE "cache", role |-> role + 1,
                    list |-> Bars!Joined(list, tree), fresh |-> load.fresh]
  BY BarFacts DEF Bars!Continue
<1>2. /\ Bars!Joined(list, tree) \in MenuTrees
      /\ DOMAIN Bars!Joined(list, tree) = DOMAIN list \cup DOMAIN tree
  BY JoinedTyped
<1>3. /\ load' \in Loads
      /\ (load'.st = "cache" /\ role = 1) \/ (load'.st = "answer" /\ role = 2)
      /\ load'.role = role + 1 /\ load'.list = Bars!Joined(list, tree)
      /\ load'.fresh = load.fresh
  <2>1. role + 1 \in 1 .. 3 /\ load.fresh \in BOOLEAN /\ (role = 1 \/ role = 2)
    BY BarFacts
  <2>2. QED
    BY <1>1, <1>2, <2>1 DEF Loads
<1>4. /\ load'.st \in {"cache", "rows"} => load'.role \in 1 .. 2
      /\ load'.st = "answer" => load'.role = 3
      /\ load'.st \notin {"grants", "fill"} /\ load'.st # "none"
  BY <1>3
<1>5. FillInv'
  BY <1>4 DEF FillInv
<1>6. BarFreshInv'
  <2>1. ASSUME load.fresh
        PROVE  /\ clearing = {} /\ \A r \in 1 .. 2 : ~staled[r]
               /\ DOMAIN load'.list = GrantedTo(load.role)' /\ OfRows(load.list)'
    <3>1. /\ clearing = {} /\ \A r \in 1 .. 2 : ~staled[r]
          /\ DOMAIN list = GrantedTo(role) /\ OfRows(list)
      BY <1>1, <2>1 DEF BarInv, BarFreshInv
    <3>2. DOMAIN load'.list = GrantedTo(role) \cup Bars!Included(menus, grants[role])
      <4>1. DOMAIN tree = Bars!Included(menus, grants[role])
        BY <1>1, <2>1 DEF Bars!TreeOf
      <4>2. QED
        BY <1>2, <1>3, <3>1, <4>1
    <3>3. GrantedTo(load.role)' = GrantedTo(role + 1)
      BY <1>3, GrantsStay
    <3>4. GrantedTo(role + 1) = GrantedTo(role) \cup Bars!Included(menus, grants[role])
      <4>1. CASE role = 1
        BY <4>1, GrantedTogether DEF BarInv
      <4>2. CASE role = 2
        BY <4>2, GrantedTogether DEF BarInv
      <4>3. QED
        BY <4>1, <4>2
    <3>5. OfRows(load.list)'
      <4>1. OfRows(tree)
        BY <2>1, TreeOfRows
      <4>2. OfRows(load'.list)
        BY <1>3, <3>1, <4>1, RowsJoined
      <4>3. QED
        BY <4>2, GrantsStay
    <3>6. QED
      BY <3>1, <3>2, <3>3, <3>4, <3>5
  <2>2. QED
    BY <1>3, <2>1 DEF BarFreshInv
<1>7. groupCode' \in BOOLEAN /\ moves' \in 0 .. MaxBarInputs
  BY DEF BarInv, BarShape
<1>8. UNCHANGED trees \/ \E r \in 1 .. 2, t \in MenuTrees :
                           /\ trees' = [trees EXCEPT ![r] = t]
                           /\ ~staled[r] => t = Bars!TreeOf(menus, grants[r])
  BY <1>1
<1>9. QED
  BY <1>3, <1>4, <1>5, <1>6, <1>7, <1>8, LoadStep

LEMMA ReadTreeStep ==
  ASSUME Bars!ConstantsOK, BarInv, Bars!ReadTree \/ Bars!ReadTreeFails PROVE BarInv'
<1>1. /\ load.st = "cache"
      /\ UNCHANGED <<side, menus, grants, trees, clearing, nav, groupCode, staled, moves>>
      /\ faults' \in 0 .. MaxBarErrors
      /\ \/ trees[load.role] # None /\ Bars!Continue(trees[load.role])
         \/ load' = [load EXCEPT !.st = "rows"]
  <2>1. faults \in 0 .. MaxBarErrors
    BY DEF BarInv, BarShape
  <2>2. QED
    BY <2>1, FaultCounted DEF Bars!ReadTree, Bars!ReadTreeFails
<1>2. CASE trees[load.role] # None /\ Bars!Continue(trees[load.role])
  <2>1. load.role \in 1 .. 2 /\ trees[load.role] \in MenuTrees
    BY <1>1, <1>2, BarFacts
  <2>2. ASSUME load.fresh PROVE trees[load.role] = Bars!TreeOf(menus, grants[load.role])
    <3>1. clearing = {} /\ ~staled[load.role]
      BY <2>1, <2>2 DEF BarInv, BarFreshInv
    <3>2. QED
      BY <1>2, <2>1, <3>1, MenusAre DEF BarInv, Bars!CachedTreeCurrent
  <2>3. QED
    BY <1>1, <1>2, <2>1, <2>2, ContinueStep
<1>3. CASE load' = [load EXCEPT !.st = "rows"]
  <2>1. load \in [st : {"cache", "rows", "answer"}, role : 1 .. 3, list : MenuTrees, fresh : BOOLEAN]
    BY <1>1, BarFacts DEF Loads
  <2>2. /\ load' \in Loads /\ load'.st = "rows" /\ load'.role = load.role
        /\ load'.list = load.list /\ load'.fresh = load.fresh
    BY <1>3, <2>1 DEF Loads
  <2>3. FillInv'
    BY <2>2 DEF FillInv
  <2>4. BarFreshInv'
    <3>1. /\ GrantedTo(load.role)' = GrantedTo(load.role)
          /\ OfRows(load.list)' = OfRows(load.list)
      BY <1>1, <2>2, GrantsStay
    <3>2. QED
      BY <1>1, <2>2, <3>1 DEF BarInv, BarFreshInv
  <2>5. groupCode' \in BOOLEAN /\ moves' \in 0 .. MaxBarInputs /\ load'.role \in 1 .. 2
    BY <1>1, <2>2, BarFacts DEF BarInv, BarShape
  <2>6. QED
    BY <1>1, <2>2, <2>3, <2>4, <2>5, LoadStep
<1>4. QED
  BY <1>1, <1>2, <1>3

LEMMA ReadRowsStep ==
  ASSUME Bars!ConstantsOK, BarInv, Bars!ReadRows PROVE BarInv'
<1>1. PICK role \in 1 .. 2, list \in MenuTrees, fresh \in BOOLEAN :
        /\ load.st = "rows" /\ role = load.role /\ list = load.list /\ fresh = load.fresh
        /\ load' = [st |-> "grants", role |-> role, list |-> list, rows |-> menus, fresh |-> fresh]
        /\ UNCHANGED <<side, menus, grants, trees, clearing, nav, groupCode, staled, faults, moves>>
  BY BarFacts DEF Bars!ReadRows
<1>2. /\ load' \in Loads /\ load'.st = "grants" /\ load'.role = role
      /\ load'.list = list /\ load'.fresh = fresh /\ load'.rows = menus
  <2>1. menus \in MenuRows
    BY BarFacts
  <2>2. QED
    BY <1>1, <2>1 DEF Loads
<1>3. FillInv'
  BY <1>1, <1>2 DEF FillInv
<1>4. BarFreshInv'
  <2>1. /\ GrantedTo(load.role)' = GrantedTo(load.role)
        /\ OfRows(load.list)' = OfRows(load.list)
    BY <1>1, <1>2, GrantsStay
  <2>2. QED
    BY <1>1, <1>2, <2>1 DEF BarInv, BarFreshInv
<1>5. groupCode' \in BOOLEAN /\ moves' \in 0 .. MaxBarInputs /\ faults' \in 0 .. MaxBarErrors
  BY <1>1 DEF BarInv, BarShape
<1>6. QED
  BY <1>1, <1>2, <1>3, <1>4, <1>5, LoadStep

LEMMA ReadGrantsStep ==
  ASSUME Bars!ConstantsOK, BarInv, Bars!ReadGrants PROVE BarInv'
<1>1. PICK role \in 1 .. 2, list \in MenuTrees, fresh \in BOOLEAN,
          tree \in {Bars!TreeOf(load.rows, grants[load.role])} :
        /\ load.st = "grants" /\ role = load.role /\ list = load.list /\ fresh = load.fresh
        /\ load' = [st |-> "fill", role |-> role, list |-> list, tree |-> tree, fresh |-> fresh]
        /\ UNCHANGED <<side, menus, grants, trees, clearing, nav, groupCode, staled, faults, moves>>
  BY BarFacts DEF Bars!ReadGrants
<1>2. tree \in MenuTrees
  <2>1. load.rows \in MenuRows /\ grants[role] \in SUBSET Bars!Menus
    BY <1>1, BarFacts
  <2>2. QED
    BY <1>1, <2>1, TreeOfTyped
<1>3. /\ load' \in Loads /\ load'.st = "fill" /\ load'.role = role
      /\ load'.list = list /\ load'.fresh = fresh /\ load'.tree = tree
  BY <1>1, <1>2 DEF Loads
<1>4. FillInv'
  <2>1. ~staled[role] => load.rows = menus
    BY <1>1 DEF BarInv, FillInv
  <2>2. (Bars!TreeOf(menus, grants[load.role]))' = Bars!TreeOf(menus, grants[load'.role])
    <3>1. Bars!Above(menus)' = Bars!Above(menus)
      BY <1>1 DEF Bars!Above, Bars!Menus
    <3>2. Bars!Included(menus, grants[load.role])' = Bars!Included(menus, grants[load'.role])
      BY <1>1, <3>1 DEF Bars!Included, Bars!Enabled, Bars!Menus
    <3>3. QED
      BY <1>1, <3>2 DEF Bars!TreeOf
  <2>3. QED
    BY <1>1, <1>3, <2>1, <2>2 DEF FillInv
<1>5. BarFreshInv'
  <2>1. /\ GrantedTo(load.role)' = GrantedTo(load.role)
        /\ OfRows(load.list)' = OfRows(load.list)
    BY <1>1, <1>3, GrantsStay
  <2>2. QED
    BY <1>1, <1>3, <2>1 DEF BarInv, BarFreshInv
<1>6. groupCode' \in BOOLEAN /\ moves' \in 0 .. MaxBarInputs /\ faults' \in 0 .. MaxBarErrors
  BY <1>1 DEF BarInv, BarShape
<1>7. QED
  BY <1>1, <1>3, <1>4, <1>5, <1>6, LoadStep

LEMMA FillTreeStep ==
  ASSUME Bars!ConstantsOK, BarInv, Bars!FillTree \/ Bars!FillFails PROVE BarInv'
<1>1. PICK tree \in MenuTrees :
        /\ tree = load.tree /\ load.st = "fill" /\ Bars!Continue(tree)
        /\ UNCHANGED <<side, menus, grants, clearing, nav, groupCode, staled, moves>>
        /\ faults' \in 0 .. MaxBarErrors
        /\ UNCHANGED trees \/ trees' = [trees EXCEPT ![load.role] = tree]
  <2>1. faults \in 0 .. MaxBarErrors /\ (load.st = "fill" => load.tree \in MenuTrees)
    BY BarFacts DEF BarInv, BarShape
  <2>2. CASE Bars!FillTree
    BY <2>1, <2>2 DEF Bars!FillTree
  <2>3. CASE Bars!FillFails
    BY <2>1, <2>3, FaultCounted DEF Bars!FillFails
  <2>4. QED
    BY <2>2, <2>3
<1>2. ~staled[load.role] => tree = Bars!TreeOf(menus, grants[load.role])
  BY <1>1 DEF BarInv, FillInv
<1>3. ASSUME load.fresh PROVE tree = Bars!TreeOf(menus, grants[load.role])
  <2>1. load.role \in 1 .. 2
    BY <1>1, BarFacts
  <2>2. QED
    BY <1>2, <1>3, <2>1 DEF BarInv, BarFreshInv
<1>4. UNCHANGED trees \/ (/\ trees' = [trees EXCEPT ![load.role] = tree]
                          /\ ~staled[load.role] => tree = Bars!TreeOf(menus, grants[load.role]))
  BY <1>1, <1>2
<1>5. QED
  BY <1>1, <1>3, <1>4, ContinueStep

LEMMA NoLoadStep ==
  ASSUME Bars!ConstantsOK, BarInv, load' = Bars!NoLoad,
         UNCHANGED <<side, menus, grants, trees, clearing, groupCode, staled, moves>>,
         faults' \in 0 .. MaxBarErrors, nav' \in [data : MenuTrees, fresh : BOOLEAN],
         Bars!NavShowsGrants'
  PROVE  BarInv'
<1>1. load'.st = "none" /\ load'.fresh = FALSE
  BY DEF Bars!NoLoad
<1>2. FillInv' /\ BarFreshInv'
  BY <1>1 DEF FillInv, BarFreshInv
<1>3. groupCode' \in BOOLEAN /\ moves' \in 0 .. MaxBarInputs
  BY DEF BarInv, BarShape
<1>4. QED
  BY <1>1, <1>2, <1>3, LoadStep

LEMMA ReceiveMenusStep ==
  ASSUME Bars!ConstantsOK, BarInv, Bars!ReceiveMenus PROVE BarInv'
<1>1. PICK list \in MenuTrees, fresh \in BOOLEAN :
        /\ load.st = "answer" /\ list = load.list /\ fresh = load.fresh /\ load.role = 3
        /\ nav' = [data |-> Bars!FromFlat(list), fresh |-> fresh]
        /\ load' = Bars!NoLoad
        /\ UNCHANGED <<side, menus, grants, trees, clearing, groupCode, staled, faults, moves>>
  BY BarFacts DEF Bars!ReceiveMenus
<1>2. nav'.data = list /\ nav'.fresh = fresh /\ nav' \in [data : MenuTrees, fresh : BOOLEAN]
  BY <1>1, RootedIs
<1>3. Bars!NavShowsGrants'
  <2>1. ASSUME fresh
        PROVE  list = Bars!TreeOf(menus, UNION {grants[r] : r \in Bars!Roles})
    <3>1. DOMAIN list = GrantedTo(3) /\ OfRows(list)
      BY <1>1, <2>1 DEF BarInv, BarFreshInv
    <3>2. DOMAIN list = Bars!Included(menus, UNION {grants[r] : r \in Bars!Roles})
      BY <3>1, GrantedTogether DEF BarInv
    <3>3. list = [m \in DOMAIN list |-> list[m]]
      BY TreesAre
    <3>4. QED
      BY <3>1, <3>2, <3>3 DEF OfRows, Bars!TreeOf
  <2>2. Bars!Above(menus)' = Bars!Above(menus)
    BY <1>1 DEF Bars!Above, Bars!Menus
  <2>3. Bars!Included(menus, UNION {grants[r] : r \in Bars!Roles})' =
          Bars!Included(menus, UNION {grants[r] : r \in Bars!Roles})
    BY <1>1, <2>2 DEF Bars!Included, Bars!Enabled, Bars!Menus, Bars!Roles
  <2>4. Bars!TreeOf(menus, UNION {grants[r] : r \in Bars!Roles})' =
          Bars!TreeOf(menus, UNION {grants[r] : r \in Bars!Roles})
    BY <1>1, <2>3 DEF Bars!TreeOf
  <2>5. QED
    BY <1>2, <2>1, <2>4 DEF Bars!NavShowsGrants
<1>4. faults' \in 0 .. MaxBarErrors
  BY <1>1 DEF BarInv, BarShape
<1>5. QED
  BY <1>1, <1>2, <1>3, <1>4, NoLoadStep

LEMMA MenusFailStep ==
  ASSUME Bars!ConstantsOK, BarInv, Bars!MenusFail PROVE BarInv'
<1>1. /\ nav' = Bars!NavAfterFailure /\ load' = Bars!NoLoad
      /\ UNCHANGED <<side, menus, grants, trees, clearing, groupCode, staled, moves>>
      /\ faults' \in 0 .. MaxBarErrors
  BY FaultCounted DEF Bars!MenusFail
<1>2. UNCHANGED nav \/ nav' = [data |-> Bars!NoMenus, fresh |-> FALSE]
  BY <1>1 DEF Bars!NavAfterFailure
<1>3. nav' \in [data : MenuTrees, fresh : BOOLEAN] /\ Bars!NavShowsGrants'
  <2>1. CASE UNCHANGED nav
    BY <1>1, <2>1, BarFacts DEF BarInv, Bars!NavShowsGrants
  <2>2. CASE nav' = [data |-> Bars!NoMenus, fresh |-> FALSE]
    BY <2>2, NoMenusTyped DEF Bars!NavShowsGrants
  <2>3. QED
    BY <1>2, <2>1, <2>2
<1>4. QED
  BY <1>1, <1>3, NoLoadStep

LEMMA ReceiveHeaderStep ==
  ASSUME Bars!ConstantsOK, BarInv, Bars!ReceiveHeader PROVE BarInv'
<1>1. /\ groupCode' \in BOOLEAN
      /\ UNCHANGED <<side, menus, grants, trees, clearing, load, nav, staled, faults, moves>>
  <2>1. (menus[side.group].on /\ \E r \in Bars!Roles : side.group \in grants[r]) \in BOOLEAN
    <3>1. menus[side.group].on \in BOOLEAN
      <4>1. side.group \in Bars!Menus
        BY DEF BarInv, BarShape, Bars!Sides
      <4>2. QED
        BY <4>1, BarFacts DEF MenuRows
    <3>2. (\E r \in Bars!Roles : side.group \in grants[r]) \in BOOLEAN
      OBVIOUS
    <3>3. QED
      BY <3>1, <3>2
  <2>2. QED
    BY <2>1 DEF Bars!ReceiveHeader
<1>2. faults' \in 0 .. MaxBarErrors /\ moves' \in 0 .. MaxBarInputs
  BY <1>1 DEF BarInv, BarShape
<1>3. QED
  BY <1>1, <1>2, BarQuiet

---------------------------------------------------------------------------
(* What the bars link *)

\* What the workspace draws is the tree itself.
LEMMA WorkspaceMerged ==
  ASSUME Bars!ConstantsOK, BarShape, side.at = "workspace"
  PROVE  \A m : Bars!Below(m) = {c \in DOMAIN nav.data : nav.data[c].up = m}
<1>1. Bars!BuiltIn = {}
  BY DEF Bars!BuiltIn
<1>2. nav.data \in MenuTrees
  BY DEF BarShape
<1>3. DOMAIN nav.data \in SUBSET (1 .. 4)
  BY <1>2, TreesAre
<1>4. Bars!Merged = [m \in DOMAIN nav.data |-> nav.data[m]]
  BY <1>1, <1>3, MenusAre DEF Bars!Merged
<1>5. QED
  BY <1>4 DEF Bars!Below

\* The recursion over the menus goes on at greater menus, so it has a value.
LEMMA CollectedIs ==
  ASSUME Bars!ConstantsOK, BarShape, side.at = "workspace", NEW m \in 1 .. 4
  PROVE  Bars!collectNavigableItems[m] =
           IF ~Bars!Navigable(m) THEN {}
           ELSE IF Bars!Kind(m) = "page" THEN {m}
           ELSE UNION {Bars!collectNavigableItems[c] : c \in Bars!Below(m)}
<1> DEFINE of(f) == [k \in 1 .. 4 |->
                       IF ~Bars!Navigable(k) THEN {}
                       ELSE IF Bars!Kind(k) = "page" THEN {k}
                       ELSE UNION {f[c] : c \in Bars!Below(k)}]
           own(k, below) == IF ~Bars!Navigable(k) THEN {}
                            ELSE IF Bars!Kind(k) = "page" THEN {k} ELSE below
           c4 == own(4, {})
           c3 == own(3, IF 4 \in Bars!Below(3) THEN c4 ELSE {})
           c2 == own(2, (IF 3 \in Bars!Below(2) THEN c3 ELSE {})
                        \cup (IF 4 \in Bars!Below(2) THEN c4 ELSE {}))
           c1 == own(1, (IF 2 \in Bars!Below(1) THEN c2 ELSE {})
                        \cup (IF 3 \in Bars!Below(1) THEN c3 ELSE {})
                        \cup (IF 4 \in Bars!Below(1) THEN c4 ELSE {}))
           w == [k \in 1 .. 4 |-> IF k = 1 THEN c1 ELSE IF k = 2 THEN c2
                                  ELSE IF k = 3 THEN c3 ELSE c4]
<1>1. \A k \in 1 .. 4 : Bars!Below(k) \subseteq {c \in 1 .. 4 : c > k}
  <2>1. nav.data \in MenuTrees
    BY DEF BarShape
  <2>2. ASSUME NEW k \in 1 .. 4, NEW c \in Bars!Below(k) PROVE c \in 1 .. 4 /\ c > k
    <3>1. c \in DOMAIN nav.data /\ nav.data[c].up = k
      BY <2>2, WorkspaceMerged
    <3>2. c \in 1 .. 4 /\ (c = 1 => nav.data[c].up = None) /\ (c # 1 => nav.data[c].up \in 1 .. c - 1)
      BY <2>1, <3>1, TreesAre
    <3>3. k # None
      BY MenusAre DEF Bars!ConstantsOK
    <3>4. QED
      BY <3>1, <3>2, <3>3
  <2>3. QED
    BY <2>2
<1>2. w[1] = c1 /\ w[2] = c2 /\ w[3] = c3 /\ w[4] = c4
  OBVIOUS
<1>3. /\ Bars!Below(4) = {} /\ Bars!Below(3) \subseteq {4} /\ Bars!Below(2) \subseteq {3, 4}
      /\ Bars!Below(1) \subseteq {2, 3, 4}
  <2>1. Bars!Below(4) \subseteq {c \in 1 .. 4 : c > 4} /\ {c \in 1 .. 4 : c > 4} = {}
    BY <1>1
  <2>2. Bars!Below(3) \subseteq {c \in 1 .. 4 : c > 3} /\ {c \in 1 .. 4 : c > 3} = {4}
    BY <1>1
  <2>3. Bars!Below(2) \subseteq {c \in 1 .. 4 : c > 2} /\ {c \in 1 .. 4 : c > 2} = {3, 4}
    BY <1>1
  <2>4. Bars!Below(1) \subseteq {c \in 1 .. 4 : c > 1} /\ {c \in 1 .. 4 : c > 1} = {2, 3, 4}
    BY <1>1
  <2>5. QED
    BY <2>1, <2>2, <2>3, <2>4
<1>4. ASSUME NEW k \in 1 .. 4 PROVE w[k] = own(k, UNION {w[c] : c \in Bars!Below(k)})
  <2> HIDE DEF w
  <2>1. UNION {w[c] : c \in Bars!Below(4)} = {}
    BY <1>3
  <2>2. UNION {w[c] : c \in Bars!Below(3)} = IF 4 \in Bars!Below(3) THEN w[4] ELSE {}
    BY <1>3
  <2>3. UNION {w[c] : c \in Bars!Below(2)} = (IF 3 \in Bars!Below(2) THEN w[3] ELSE {})
                                              \cup (IF 4 \in Bars!Below(2) THEN w[4] ELSE {})
    BY <1>3
  <2>4. UNION {w[c] : c \in Bars!Below(1)} = (IF 2 \in Bars!Below(1) THEN w[2] ELSE {})
                                              \cup (IF 3 \in Bars!Below(1) THEN w[3] ELSE {})
                                              \cup (IF 4 \in Bars!Below(1) THEN w[4] ELSE {})
    BY <1>3
  <2> HIDE DEF own
  <2>5. k = 1 \/ k = 2 \/ k = 3 \/ k = 4
    OBVIOUS
  <2>6. QED
    BY <1>2, <2>1, <2>2, <2>3, <2>4, <2>5
<1>5. w = of(w)
  <2>1. w = [k \in 1 .. 4 |-> w[k]]
    OBVIOUS
  <2> HIDE DEF w
  <2>2. QED
    BY <1>4, <2>1
<1>6. Bars!collectNavigableItems = CHOOSE f : f = of(f)
  BY MenusAre DEF Bars!collectNavigableItems
<1>7. Bars!collectNavigableItems = of(Bars!collectNavigableItems)
  <2> HIDE DEF w, of
  <2>1. QED
    BY <1>5, <1>6
<1>8. QED
  BY <1>7

\* The recursion to a menu's path goes on at a smaller menu, so it has a value.
LEMMA PathIs ==
  ASSUME Bars!ConstantsOK, BarShape, NEW m \in 1 .. 4
  PROVE  /\ m \notin DOMAIN nav.data \ {1} => Bars!PathTo[m] = {}
         /\ m \in DOMAIN nav.data \ {1} =>
              Bars!PathTo[m] = {m} \cup Bars!PathTo[nav.data[m].up]
<1> DEFINE D == DOMAIN nav.data \ {1}
           t == nav.data
           of(f) == [k \in 1 .. 4 |-> IF k \in D THEN {k} \cup f[t[k].up] ELSE {}]
           p2 == IF 2 \in D THEN {2} ELSE {}
           p3 == IF 3 \in D THEN {3} \cup (IF t[3].up = 2 THEN p2 ELSE {}) ELSE {}
           p4 == IF 4 \in D THEN {4} \cup (IF t[4].up = 2 THEN p2
                                           ELSE IF t[4].up = 3 THEN p3 ELSE {}) ELSE {}
           w == [k \in 1 .. 4 |-> IF k = 1 THEN {} ELSE IF k = 2 THEN p2
                                  ELSE IF k = 3 THEN p3 ELSE p4]
<1>1. /\ 1 \notin D
      /\ 2 \in D => t[2].up = 1
      /\ 3 \in D => t[3].up = 1 \/ t[3].up = 2
      /\ 4 \in D => t[4].up = 1 \/ t[4].up = 2 \/ t[4].up = 3
  <2>1. t \in MenuTrees
    BY DEF BarShape
  <2>2. \A k \in D : t[k].up \in 1 .. k - 1
    BY <2>1, TreesAre
  <2>3. QED
    BY <2>2
<1>2. w[1] = {} /\ w[2] = p2 /\ w[3] = p3 /\ w[4] = p4
  OBVIOUS
<1>3. ASSUME NEW k \in 1 .. 4 PROVE w[k] = IF k \in D THEN {k} \cup w[t[k].up] ELSE {}
  <2> HIDE DEF w, D, t
  <2>1. k = 1 \/ k = 2 \/ k = 3 \/ k = 4
    OBVIOUS
  <2>2. QED
    BY <1>1, <1>2, <2>1
<1>4. w = of(w)
  <2>1. w = [k \in 1 .. 4 |-> w[k]]
    OBVIOUS
  <2> HIDE DEF w
  <2>2. QED
    BY <1>3, <2>1
<1>5. Bars!PathTo = CHOOSE f : f = of(f)
  BY MenusAre DEF Bars!PathTo
<1>6. Bars!PathTo = of(Bars!PathTo)
  <2> HIDE DEF w, of
  <2>1. QED
    BY <1>4, <1>5
<1>7. QED
  BY <1>6

\* A path is a chain: what lies above one of its menus is that menu's own path, and
\* nothing of the path comes between a menu and its parent.
Chain(m) ==
  LET path == Bars!PathTo[m]
  IN  /\ path \in SUBSET (DOMAIN nav.data \ {1}) /\ m \in path /\ \A b \in path : b <= m
      /\ \E c \in path : c \in Bars!Below(1)
      /\ \A a \in path : a # m => \E k \in path : k \in Bars!Below(a)
      /\ \A k \in path : /\ nav.data[k].up \in path \cup {1}
                         /\ Bars!PathTo[k] = {b \in path : b <= k}
                         /\ \A b \in path : b >= k \/ b <= nav.data[k].up

LEMMA PathsAreChains ==
  ASSUME Bars!ConstantsOK, BarShape, side.at = "workspace", NEW m \in DOMAIN nav.data \ {1}
  PROVE  Chain(m)
<1> DEFINE D == DOMAIN nav.data \ {1}
           t == nav.data
           path(j) == Bars!PathTo[j]
<1>1. D \in SUBSET (2 .. 4) /\ \A j \in D : t[j].up \in 1 .. j - 1 /\ t[j].up \in DOMAIN t
  <2>1. t \in MenuTrees
    BY DEF BarShape
  <2>2. QED
    BY <2>1, TreesAre
<1>2. ASSUME NEW j \in D, NEW i \in 1 .. j - 1, i = t[j].up, i = 1 \/ (i \in D /\ Chain(i))
      PROVE  Chain(j)
  <2>1. path(j) = {j} \cup path(i) /\ j \in Bars!Below(i) /\ j \in 2 .. 4
    BY <1>1, <1>2, PathIs, WorkspaceMerged
  <2>2. CASE i = 1
    <3>1. path(j) = {j}
      BY <2>1, <2>2, PathIs
    <3>2. t[j].up = 1 /\ j \in D /\ {b \in {j} : b <= j} = {j} /\ j >= j /\ j \in Bars!Below(1)
      BY <1>2, <2>1, <2>2
    <3>3. \A a \in {j} : a = j
      OBVIOUS
    <3> HIDE DEF path, t, D
    <3>4. /\ path(j) \in SUBSET D /\ j \in path(j) /\ \A b \in path(j) : b <= j
          /\ \E c \in path(j) : c \in Bars!Below(1)
          /\ \A a \in path(j) : a # j => \E k \in path(j) : k \in Bars!Below(a)
      BY <2>1, <3>1, <3>2
    <3>5. \A k \in path(j) : /\ t[k].up \in path(j) \cup {1}
                             /\ path(k) = {b \in path(j) : b <= k}
                             /\ \A b \in path(j) : b >= k \/ b <= t[k].up
      BY <3>1, <3>2, <3>3
    <3>6. QED
      BY <3>4, <3>5 DEF Chain, path, t, D
  <2>3. CASE i \in D /\ Chain(i)
    <3>1. /\ path(i) \in SUBSET D /\ i \in path(i) /\ \A b \in path(i) : b <= i
          /\ \E c \in path(i) : c \in Bars!Below(1)
          /\ \A a \in path(i) : a # i => \E k \in path(i) : k \in Bars!Below(a)
          /\ \A k \in path(i) : /\ t[k].up \in path(i) \cup {1}
                                /\ path(k) = {b \in path(i) : b <= k}
                                /\ \A b \in path(i) : b >= k \/ b <= t[k].up
      BY <2>3 DEF Chain
    <3> HIDE DEF path
    <3>2. /\ path(j) \in SUBSET D /\ j \in path(j) /\ \A b \in path(j) : b <= j
          /\ \E c \in path(j) : c \in Bars!Below(1)
      BY <1>1, <1>2, <2>1, <3>1
    <3>3. ASSUME NEW a \in path(j), a # j PROVE \E k \in path(j) : k \in Bars!Below(a)
      BY <2>1, <3>1, <3>3
    <3>4. ASSUME NEW k \in path(j)
          PROVE  /\ t[k].up \in path(j) \cup {1}
                 /\ path(k) = {b \in path(j) : b <= k}
                 /\ \A b \in path(j) : b >= k \/ b <= t[k].up
      <4>1. CASE k = j
        BY <1>1, <1>2, <2>1, <3>1, <3>2, <4>1
      <4>2. CASE k \in path(i)
        <5>1. \A b \in path(i) : b \in 2 .. 4
          BY <1>1, <3>1
        <5>2. k \in 2 .. 4 /\ k < j /\ j > t[k].up
          BY <1>1, <2>1, <3>1, <4>2, <5>1
        <5>3. {b \in path(j) : b <= k} = {b \in path(i) : b <= k}
          BY <2>1, <5>1, <5>2
        <5>4. t[k].up \in path(j) \cup {1}
          BY <2>1, <3>1, <4>2
        <5>5. \A b \in path(j) : b >= k \/ b <= t[k].up
          BY <2>1, <3>1, <4>2, <5>2
        <5>6. QED
          BY <3>1, <4>2, <5>3, <5>4, <5>5
      <4>3. QED
        BY <2>1, <4>1, <4>2
    <3>5. QED
      BY <3>2, <3>3, <3>4 DEF Chain, path
  <2>4. QED
    BY <1>2, <2>2, <2>3
<1>3. 2 \in D => Chain(2)
  <2>1. 2 \in D => t[2].up = 1
    BY <1>1
  <2>2. QED
    BY <1>2, <2>1
<1>4. 3 \in D => Chain(3)
  <2>1. 3 \in D => t[3].up = 1 \/ (t[3].up = 2 /\ 2 \in D)
    BY <1>1
  <2>2. QED
    BY <1>2, <1>3, <2>1
<1>5. 4 \in D => Chain(4)
  <2>1. 4 \in D => t[4].up = 1 \/ (t[4].up = 2 /\ 2 \in D) \/ (t[4].up = 3 /\ 3 \in D)
    BY <1>1
  <2>2. QED
    BY <1>2, <1>3, <1>4, <2>1
<1>6. m = 2 \/ m = 3 \/ m = 4
  BY <1>1
<1>7. QED
  BY <1>3, <1>4, <1>5, <1>6

\* What a menu other than the root stands for: the pages whose path goes through it
\* with nothing hidden, and no other page, from it on.
Stands(c) ==
  Bars!collectNavigableItems[c] =
    {m \in DOMAIN nav.data \ {1} :
       /\ c \in Bars!PathTo[m] /\ Bars!Kind(m) = "page"
       /\ \A a \in Bars!PathTo[m] :
            a >= c => Bars!Navigable(a) /\ (Bars!Kind(a) = "page" => a = m)}

LEMMA MenusStand ==
  ASSUME Bars!ConstantsOK, BarShape, side.at = "workspace", NEW c \in DOMAIN nav.data \ {1}
  PROVE  Stands(c)
<1> DEFINE D == DOMAIN nav.data \ {1}
           t == nav.data
           path(m) == Bars!PathTo[m]
           below(k) == Bars!Below(k)
           items(k) == Bars!collectNavigableItems[k]
           isPage(a) == Bars!Kind(a) = "page"
           shows(a) == Bars!Navigable(a)
           through(k) == {m \in D : /\ k \in path(m) /\ isPage(m)
                                    /\ \A a \in path(m) : a >= k => shows(a) /\ (isPage(a) => a = m)}
<1>1. /\ D \in SUBSET (2 .. 4)
      /\ \A j \in D : t[j].up \in 1 .. j - 1 /\ t[j].up \in DOMAIN t
      /\ \A k \in 1 .. 4 : below(k) = {m \in D : t[m].up = k}
  <2>1. t \in MenuTrees
    BY DEF BarShape
  <2>2. D \in SUBSET (2 .. 4) /\ \A j \in D : t[j].up \in 1 .. j - 1 /\ t[j].up \in DOMAIN t
    BY <2>1, TreesAre
  <2>3. ASSUME NEW k \in 1 .. 4 PROVE below(k) = {m \in D : t[m].up = k}
    <3>1. 1 \in DOMAIN t => t[1].up # k
      BY <2>1, TreesAre, MenusAre DEF Bars!ConstantsOK
    <3>2. QED
      BY <3>1, WorkspaceMerged
  <2>4. QED
    BY <2>2, <2>3
<1>2. ASSUME NEW m \in D
      PROVE  /\ path(m) \in SUBSET D /\ m \in path(m) /\ \A b \in path(m) : b <= m
             /\ \A a \in path(m) : a # m => \E k \in path(m) : k \in below(a)
             /\ \A k \in path(m) : t[k].up \in path(m) \cup {1}
             /\ \A k, b \in path(m) : b >= k \/ b <= t[k].up
  BY PathsAreChains DEF Chain
<1>3. ASSUME NEW k \in D
      PROVE  items(k) = IF ~shows(k) THEN {} ELSE IF isPage(k) THEN {k}
                        ELSE UNION {items(j) : j \in below(k)}
  <2>1. k \in 1 .. 4
    BY <1>1
  <2>2. QED
    BY <2>1, CollectedIs
<1> HIDE DEF path, below, items, isPage, shows, D, t
<1>4. ASSUME NEW k \in D, \A j \in below(k) : items(j) = through(j) PROVE items(k) = through(k)
  <2>1. k \in 2 .. 4 /\ \A m \in D : path(m) \in SUBSET (2 .. 4)
    BY <1>1, <1>2
  <2>2. ASSUME NEW m \in items(k) PROVE m \in through(k)
    <3>1. shows(k)
      BY <1>3, <2>2
    <3>2. CASE isPage(k)
      <4>1. m = k
        BY <1>3, <2>2, <3>1, <3>2
      <4>2. \A a \in path(k) : a >= k => a = k
        BY <1>2, <2>1
      <4>3. QED
        BY <1>2, <3>1, <3>2, <4>1, <4>2
    <3>3. CASE ~isPage(k)
      <4>1. PICK j \in below(k) : m \in through(j)
        BY <1>3, <1>4, <2>2, <3>1, <3>3
      <4>2. j \in D /\ t[j].up = k /\ j \in path(m) /\ m \in D /\ j > k /\ k # 1
        BY <1>1, <2>1, <4>1
      <4>3. k \in path(m)
        BY <1>2, <4>2
      <4>4. ASSUME NEW a \in path(m), a >= k PROVE a >= j \/ a = k
        BY <1>2, <2>1, <4>2, <4>4
      <4>5. QED
        BY <3>1, <3>3, <4>1, <4>2, <4>3, <4>4
    <3>4. QED
      BY <3>2, <3>3
  <2>3. ASSUME NEW m \in through(k) PROVE m \in items(k)
    <3>1. /\ m \in D /\ k \in path(m) /\ isPage(m) /\ shows(k) /\ (isPage(k) => k = m)
          /\ \A a \in path(m) : a >= k => shows(a) /\ (isPage(a) => a = m)
      BY <2>1, <2>3
    <3>2. CASE k = m
      BY <1>3, <3>1, <3>2
    <3>3. CASE k # m
      <4>1. PICK j \in path(m) : j \in below(k)
        BY <1>2, <3>1, <3>3
      <4>2. j \in D /\ j > k /\ j \in 2 .. 4
        BY <1>1, <2>1, <3>1, <4>1
      <4>3. \A a \in path(m) : a >= j => a >= k
        BY <2>1, <3>1, <4>1, <4>2
      <4>4. m \in through(j)
        BY <3>1, <4>1, <4>3
      <4>5. QED
        BY <1>3, <1>4, <3>1, <3>3, <4>1, <4>4
    <3>4. QED
      BY <3>2, <3>3
  <2>4. QED
    BY <2>2, <2>3
<1>5. ASSUME NEW k \in D, NEW j \in below(k) PROVE j \in D /\ j \in 2 .. 4 /\ j > k
  <2>1. k \in 1 .. 4
    BY <1>1
  <2>2. j \in D /\ t[j].up = k
    BY <1>1, <2>1
  <2>3. j \in 2 .. 4 /\ t[j].up \in 1 .. j - 1
    BY <1>1, <2>2
  <2>4. QED
    BY <2>1, <2>2, <2>3
<1> HIDE DEF through
<1>6. 4 \in D => items(4) = through(4)
  <2>1. 4 \in D => below(4) = {}
    BY <1>5
  <2>2. QED
    BY <1>4, <2>1
<1>7. 3 \in D => items(3) = through(3)
  <2>1. 3 \in D => \A j \in below(3) : j = 4 /\ j \in D
    BY <1>5
  <2>2. QED
    BY <1>4, <1>6, <2>1
<1>8. 2 \in D => items(2) = through(2)
  <2>1. 2 \in D => \A j \in below(2) : (j = 3 \/ j = 4) /\ j \in D
    BY <1>5
  <2>2. QED
    BY <1>4, <1>6, <1>7, <2>1
<1>9. items(c) = through(c)
  <2>1. c \in D /\ (c = 2 \/ c = 3 \/ c = 4)
    BY <1>1 DEF D
  <2>2. QED
    BY <1>6, <1>7, <1>8, <2>1
<1>10. QED
  BY <1>9 DEF Stands, items, through, path, isPage, shows, D

LEMMA BarsCardinality == ASSUME NEW S PROVE Bars!Cardinality(S) = Cardinality(S)
  BY DEF Bars!Cardinality, Cardinality

\* How many menus there are from below the root down to a menu.
LEMMA DepthIs ==
  ASSUME Bars!ConstantsOK, BarShape, NEW m \in 1 .. 4
  PROVE  LET D == DOMAIN nav.data \ {1}
             up == nav.data[m].up
         IN  Bars!Depth(m) = IF m \notin D THEN 0 ELSE IF up = 1 THEN 1
                             ELSE IF nav.data[up].up = 1 THEN 2 ELSE 3
<1> DEFINE D == DOMAIN nav.data \ {1}
           t == nav.data
<1>1. \A k \in D : /\ k \in 2 .. 4 /\ t[k].up \in 1 .. k - 1
                   /\ t[k].up # 1 => t[k].up \in D
  <2>1. t \in MenuTrees
    BY DEF BarShape
  <2>2. QED
    BY <2>1, TreesAre
<1>2. Bars!Depth(m) = Cardinality(Bars!PathTo[m])
  BY BarsCardinality DEF Bars!Depth
<1>3. Bars!PathTo[1] = {}
  BY PathIs
<1>4. CASE m \notin D
  <2>1. Bars!PathTo[m] = {}
    BY <1>4, PathIs
  <2>2. QED
    BY <1>2, <1>4, <2>1, FS_EmptySet
<1>5. CASE m \in D /\ t[m].up = 1
  <2>1. Bars!PathTo[m] = {m}
    BY <1>3, <1>5, PathIs
  <2>2. QED
    BY <1>2, <1>5, <2>1, FS_Singleton
<1>6. CASE m \in D /\ t[m].up # 1 /\ t[t[m].up].up = 1
  <2>1. PICK p \in D : p = t[m].up /\ p \in 1 .. 4 /\ p < m
    BY <1>1, <1>6
  <2>2. Bars!PathTo[p] = {p} /\ Bars!PathTo[m] = {m} \cup Bars!PathTo[p]
    BY <1>3, <1>6, <2>1, PathIs
  <2>3. Cardinality({m} \cup {p}) = 2
    <3>1. m \notin {p}
      BY <2>1
    <3>2. IsFiniteSet({p}) /\ Cardinality({p}) = 1
      BY FS_Singleton
    <3>3. Cardinality({p} \cup {m}) = Cardinality({p}) + 1
      BY <3>1, <3>2, FS_AddElement
    <3>4. {p} \cup {m} = {m} \cup {p}
      OBVIOUS
    <3>5. QED
      BY <3>2, <3>3, <3>4
  <2>4. QED
    BY <1>2, <1>6, <2>2, <2>3
<1>7. CASE m \in D /\ t[m].up # 1 /\ t[t[m].up].up # 1
  <2>1. /\ m = 4 /\ t[4].up = 3 /\ t[3].up = 2 /\ t[2].up = 1
        /\ 2 \in D /\ 3 \in D /\ 4 \in D
    BY <1>1, <1>7
  <2>2. Bars!PathTo[2] = {2}
    BY <1>3, <2>1, PathIs
  <2>3. Bars!PathTo[3] = {3} \cup Bars!PathTo[2]
    BY <2>1, PathIs
  <2>4. Bars!PathTo[4] = {4} \cup Bars!PathTo[3]
    BY <2>1, PathIs
  <2>5. Bars!PathTo[4] = 2 .. 4
    BY <2>2, <2>3, <2>4
  <2>6. Cardinality(2 .. 4) = 3
    <3>1. 2 \in Int /\ 4 \in Int
      OBVIOUS
    <3>2. Cardinality(2 .. 4) = IF 2 > 4 THEN 0 ELSE 4 - 2 + 1
      BY <3>1, FS_Interval, Zenon
    <3>3. QED
      BY <3>2
  <2>7. QED
    BY <1>2, <1>7, <2>1, <2>5, <2>6
<1>8. QED
  BY <1>4, <1>5, <1>6, <1>7

\* The console's bar goes two levels below the root, and an entry it adds hangs below
\* its group, wherever that is.
LEMMA ConsoleIsLinked ==
  ASSUME Bars!ConstantsOK, BarShape PROVE Bars!ConsoleLinked
<1> DEFINE D == DOMAIN nav.data
           t == nav.data
           B == Bars!BuiltIn
<1>1. SUFFICES ASSUME side.at = "console"
               PROVE  /\ Bars!AdminNavBar \cap (1 .. 4) =
                           {m \in D : \/ Bars!Depth(m) = 2
                                      \/ Bars!Depth(m) = 1 /\ Bars!Below(m) = {}}
                      /\ Bars!AdminNavBar \ (1 .. 4) =
                           IF Bars!Depth(side.group) = 1 THEN B ELSE {}
  BY MenusAre DEF Bars!ConsoleLinked
<1>2. /\ D \in SUBSET (1 .. 4) /\ (1 \in D => t[1].up # 1)
      /\ \A m \in D : m # 1 => t[m].up \in D /\ t[m].up \in 1 .. m - 1
  <2>1. t \in MenuTrees
    BY DEF BarShape
  <2>2. None # 1
    BY MenusAre DEF Bars!ConstantsOK
  <2>3. QED
    BY <2>1, <2>2, TreesAre
<1>3. /\ side.group \in 2 .. 4 /\ B \subseteq {5, 6}
      /\ B # {} => side.group \in D
  <2>1. side.group \in 2 .. 4
    BY MenusAre DEF BarShape, Bars!Sides
  <2>2. QED
    BY <2>1 DEF Bars!BuiltIn, Bars!Storage, Bars!Stats
<1>4. /\ DOMAIN Bars!Merged = D \cup B
      /\ \A m \in D : Bars!Merged[m] = t[m]
      /\ \A b \in B : Bars!Merged[b].up = side.group
  <2>1. Bars!Merged = [m \in D \cup B |->
                         IF m \in 1 .. 4 THEN t[m] ELSE [up |-> side.group, shown |-> TRUE]]
    BY MenusAre DEF Bars!Merged
  <2>2. \A m \in D : m \in 1 .. 4
    BY <1>2
  <2>3. \A b \in B : b \notin 1 .. 4
    BY <1>3
  <2>4. QED
    BY <2>1, <2>2, <2>3
<1> DEFINE top == {m \in D : t[m].up = 1}
<1>5. \A g : Bars!Below(g) = {c \in D : t[c].up = g} \cup (IF g = side.group THEN B ELSE {})
  <2> HIDE DEF B
  <2>1. \A g : Bars!Below(g) = {c \in D \cup B : Bars!Merged[c].up = g}
    BY <1>4 DEF Bars!Below
  <2>2. QED
    BY <1>4, <2>1
<1>6. Bars!Below(1) = top
  BY <1>3, <1>5
<1>7. Bars!AdminNavBar = {m \in top : Bars!Below(m) = {}} \cup UNION {Bars!Below(g) : g \in top}
  BY <1>6, MenusAre DEF Bars!AdminNavBar
<1>8. \A m \in 1 .. 4 : /\ Bars!Depth(m) = 1 <=> m \in top
                        /\ Bars!Depth(m) = 2 <=> m \in D /\ t[m].up \in top
  <2>1. SUFFICES ASSUME NEW m \in 1 .. 4
                 PROVE  /\ Bars!Depth(m) = 1 <=> m \in top
                        /\ Bars!Depth(m) = 2 <=> m \in D /\ t[m].up \in top
    OBVIOUS
  <2>2. Bars!Depth(m) = IF m \notin D \ {1} THEN 0 ELSE IF t[m].up = 1 THEN 1
                        ELSE IF t[t[m].up].up = 1 THEN 2 ELSE 3
    BY DepthIs
  <2>3. m \in D /\ m = 1 => t[m].up \notin D /\ t[m].up # 1
    <3>1. 1 \in D => t[1].up = None
      BY TreesAre DEF BarShape
    <3>2. None \notin 1 .. 4
      BY MenusAre DEF Bars!ConstantsOK
    <3>3. QED
      BY <1>2, <3>1, <3>2
  <2>4. QED
    BY <1>2, <2>2, <2>3
<1> HIDE DEF B
<1>9. \A x : x \in Bars!AdminNavBar <=>
               \/ x \in top /\ Bars!Below(x) = {}
               \/ x \in D /\ t[x].up \in top
               \/ x \in B /\ side.group \in top
  <2>1. \A x : x \in UNION {Bars!Below(g) : g \in top} <=>
                 \/ x \in D /\ t[x].up \in top
                 \/ x \in B /\ side.group \in top
    BY <1>5
  <2>2. QED
    BY <1>7, <2>1
<1>10. \A b \in B : b \notin 1 .. 4
  BY <1>3
<1>11. Bars!AdminNavBar \cap (1 .. 4) =
         {m \in D : Bars!Depth(m) = 2 \/ (Bars!Depth(m) = 1 /\ Bars!Below(m) = {})}
  <2>1. \A m \in D : m \in 1 .. 4
    BY <1>2
  <2>2. QED
    BY <1>8, <1>9, <1>10, <2>1
<1>12. Bars!AdminNavBar \ (1 .. 4) = IF Bars!Depth(side.group) = 1 THEN B ELSE {}
  <2>1. side.group \in 1 .. 4 /\ \A m \in D : m \in 1 .. 4
    BY <1>2, <1>3
  <2>2. Bars!Depth(side.group) = 1 <=> side.group \in top
    BY <1>8, <2>1
  <2>3. QED
    BY <1>9, <1>10, <2>1, <2>2
<1>13. QED
  BY <1>11, <1>12

\* The workspace links the pages as its property says.
LEMMA PagesAreLinked ==
  ASSUME Bars!ConstantsOK, BarShape PROVE Bars!PagesLinked
<1> DEFINE D == DOMAIN nav.data \ {1}
           t == nav.data
           path(m) == Bars!PathTo[m]
           below(k) == Bars!Below(k)
           items(k) == Bars!collectNavigableItems[k]
           isPage(a) == Bars!Kind(a) = "page"
           shows(a) == Bars!Navigable(a)
           over(m) == Bars!PagesOver(m)
           open == Bars!OpenPages
           under(p) == Bars!ItemsBelow(p)
           top == under(1)
<1>1. SUFFICES
        ASSUME side.at = "workspace"
        PROVE  Bars!NavMain = {m \in open : \/ Cardinality(over(m)) = 1
                                            \/ over(m) = {} /\ \A k \in open : m \notin over(k)}
  <2>1. \A m : Bars!Cardinality(over(m)) = Cardinality(over(m))
    BY BarsCardinality
  <2>2. QED
    BY <2>1 DEF Bars!PagesLinked
<1>2. /\ Bars!NavMain = {p \in top : under(p) = {}} \cup UNION {under(p) : p \in top}
      /\ \A p : under(p) = UNION {items(c) : c \in below(p)}
      /\ open = {m \in D : isPage(m) /\ \A a \in path(m) : shows(a)}
      /\ \A m : over(m) = {a \in path(m) \ {m} : isPage(a)}
  BY MenusAre DEF Bars!NavMain, Bars!ItemsBelow, Bars!OpenPages, Bars!PagesOver
<1>3. /\ D \in SUBSET (2 .. 4)
      /\ \A j \in D : t[j].up \in 1 .. j - 1
      /\ \A k \in 1 .. 4 : below(k) = {m \in D : t[m].up = k}
  <2>1. t \in MenuTrees
    BY DEF BarShape
  <2>2. D \in SUBSET (2 .. 4) /\ \A j \in D : t[j].up \in 1 .. j - 1
    BY <2>1, TreesAre
  <2>3. ASSUME NEW k \in 1 .. 4 PROVE below(k) = {m \in D : t[m].up = k}
    <3>1. 1 \in DOMAIN t => t[1].up # k
      BY <2>1, TreesAre, MenusAre DEF Bars!ConstantsOK
    <3>2. QED
      BY <1>1, <3>1, WorkspaceMerged
  <2>4. QED
    BY <2>2, <2>3
<1>4. ASSUME NEW m \in D
      PROVE  /\ path(m) \in SUBSET D /\ m \in path(m) /\ \A b \in path(m) : b <= m
             /\ \E c \in path(m) : c \in below(1)
             /\ \A a \in path(m) : a # m => \E k \in path(m) : k \in below(a)
             /\ \A k \in path(m) : /\ t[k].up \in path(m) \cup {1}
                                   /\ path(k) = {b \in path(m) : b <= k}
             /\ \A k, b \in path(m) : b >= k \/ b <= t[k].up
  BY <1>1, PathsAreChains DEF Chain
<1>5. ASSUME NEW c \in D
      PROVE  items(c) = {m \in D : /\ c \in path(m) /\ isPage(m)
                                   /\ \A a \in path(m) :
                                        a >= c => shows(a) /\ (isPage(a) => a = m)}
  BY <1>1, MenusStand DEF Stands
<1> HIDE DEF D, t, path, below, items, isPage, shows, over, open, under
<1>6. \A m \in D : m \in 2 .. 4 /\ path(m) \in SUBSET (2 .. 4)
  BY <1>3, <1>4
<1>7. ASSUME NEW k \in 1 .. 4, NEW c \in below(k) PROVE c \in D /\ t[c].up = k /\ k < c
  <2>1. c \in D /\ t[c].up = k
    BY <1>3
  <2>2. c \in 2 .. 4 /\ t[c].up \in 1 .. c - 1
    BY <1>3, <2>1
  <2>3. QED
    BY <2>1, <2>2
\* The pages at the top: nothing hidden above them, and no page.
<1>8. top = {m \in open : over(m) = {}}
  <2>1. ASSUME NEW m \in top PROVE m \in open /\ over(m) = {}
    <3>1. PICK c \in below(1) : m \in items(c)
      BY <1>2, <2>1
    <3>2. c \in D /\ t[c].up = 1
      BY <1>7, <3>1
    <3>3. /\ m \in D /\ c \in path(m) /\ isPage(m)
          /\ \A a \in path(m) : a >= c => shows(a) /\ (isPage(a) => a = m)
      BY <1>5, <3>1, <3>2
    <3>4. \A a \in path(m) : a >= c
      <4>1. \A a \in path(m) : a \in 2 .. 4 /\ (a >= c \/ a <= 1)
        BY <1>4, <1>6, <3>2, <3>3
      <4>2. QED
        BY <4>1
    <3>5. QED
      BY <1>2, <3>3, <3>4
  <2>2. ASSUME NEW m \in open, over(m) = {} PROVE m \in top
    <3>1. /\ m \in D /\ isPage(m) /\ \A a \in path(m) : shows(a) /\ (isPage(a) => a = m)
      BY <1>2, <2>2
    <3>2. PICK c \in path(m) : c \in below(1)
      BY <1>4, <3>1
    <3>3. c \in D
      BY <1>7, <3>2
    <3>4. m \in items(c)
      BY <1>5, <3>1, <3>2, <3>3
    <3>5. QED
      BY <1>2, <3>2, <3>4
  <2>3. QED
    BY <2>1, <2>2
\* The pages below a menu: nothing hidden between, and no page.
<1>9. ASSUME NEW p \in D
      PROVE  under(p) = {m \in D : /\ p \in path(m) /\ m # p /\ isPage(m)
                                   /\ \A a \in path(m) :
                                        a > p => shows(a) /\ (isPage(a) => a = m)}
  <2>1. p \in 2 .. 4 /\ p \in 1 .. 4 /\ p # 1
    BY <1>6
  <2>2. ASSUME NEW m \in under(p)
        PROVE  /\ m \in D /\ p \in path(m) /\ m # p /\ isPage(m)
               /\ \A a \in path(m) : a > p => shows(a) /\ (isPage(a) => a = m)
    <3>1. PICK c \in below(p) : m \in items(c)
      BY <1>2, <2>2
    <3>2. c \in D /\ t[c].up = p /\ p < c /\ c \in 2 .. 4
      BY <1>6, <1>7, <2>1, <3>1
    <3>3. /\ m \in D /\ c \in path(m) /\ isPage(m)
          /\ \A a \in path(m) : a >= c => shows(a) /\ (isPage(a) => a = m)
      BY <1>5, <3>1, <3>2
    <3>4. p \in path(m) /\ c <= m
      BY <1>4, <2>1, <3>2, <3>3
    <3>5. m # p
      BY <1>6, <2>1, <3>2, <3>3, <3>4
    <3>6. ASSUME NEW a \in path(m), a > p PROVE a >= c
      <4>1. a >= c \/ a <= p
        BY <1>4, <3>2, <3>3, <3>6
      <4>2. a \in 2 .. 4
        BY <1>6, <3>3
      <4>3. QED
        BY <2>1, <3>6, <4>1, <4>2
    <3>7. QED
      BY <3>3, <3>4, <3>5, <3>6
  <2>3. ASSUME NEW m \in D, p \in path(m), m # p, isPage(m),
               \A a \in path(m) : a > p => shows(a) /\ (isPage(a) => a = m)
        PROVE  m \in under(p)
    <3>1. PICK c \in path(m) : c \in below(p)
      BY <1>4, <2>3
    <3>2. c \in D /\ p < c /\ c \in 2 .. 4
      BY <1>6, <1>7, <2>1, <3>1
    <3>3. ASSUME NEW a \in path(m), a >= c PROVE a > p
      <4>1. a \in 2 .. 4
        BY <1>6, <2>3
      <4>2. QED
        BY <2>1, <3>2, <3>3, <4>1
    <3>4. m \in items(c)
      BY <1>5, <2>3, <3>1, <3>2, <3>3
    <3>5. QED
      BY <1>2, <3>1, <3>4
  <2>4. QED
    BY <2>2, <2>3
\* A page of the list of a top page has that one page above it.
<1>10. ASSUME NEW p \in top, NEW m \in under(p) PROVE m \in open /\ over(m) = {p}
  <2>1. p \in D /\ isPage(p) /\ (\A a \in path(p) : shows(a)) /\ over(p) = {}
    BY <1>2, <1>8
  <2>2. /\ m \in D /\ p \in path(m) /\ m # p /\ isPage(m)
        /\ \A a \in path(m) : a > p => shows(a) /\ (isPage(a) => a = m)
    BY <1>9, <2>1
  <2>3. ASSUME NEW a \in path(m) PROVE a > p \/ a \in path(p)
    <3>1. a \in 2 .. 4 /\ p \in 2 .. 4 /\ path(p) = {b \in path(m) : b <= p}
      BY <1>4, <1>6, <2>1, <2>2
    <3>2. QED
      BY <3>1
  <2>4. \A a \in path(m) : shows(a)
    BY <2>1, <2>2, <2>3
  <2>5. \A a \in path(m) \ {m} : isPage(a) => a = p
    BY <1>2, <2>1, <2>2, <2>3
  <2>6. QED
    BY <1>2, <2>1, <2>2, <2>4, <2>5
\* And a page with one page above it is in the list of that one.
<1>11. ASSUME NEW m \in open, NEW p, over(m) = {p} PROVE p \in top /\ m \in under(p)
  <2>1. /\ m \in D /\ isPage(m) /\ (\A a \in path(m) : shows(a))
        /\ p \in path(m) /\ p # m /\ isPage(p) /\ p \in D
    BY <1>2, <1>4, <1>11
  <2>2. path(p) \subseteq path(m) /\ m \notin path(p)
    <3>1. path(p) = {b \in path(m) : b <= p} /\ p <= m
      BY <1>4, <2>1
    <3>2. p \in 2 .. 4 /\ m \in 2 .. 4
      BY <1>6, <2>1
    <3>3. QED
      BY <2>1, <3>1, <3>2
  <2>3. p \in open /\ over(p) = {}
    BY <1>2, <1>11, <2>1, <2>2
  <2>4. ASSUME NEW a \in path(m), a > p PROVE isPage(a) => a = m
    <3>1. a # p
      BY <1>6, <2>1, <2>4
    <3>2. QED
      BY <1>2, <1>11, <3>1
  <2>5. QED
    BY <1>8, <1>9, <2>1, <2>3, <2>4
\* A top page lists none exactly if it is above none.
<1>12. ASSUME NEW p \in top PROVE (under(p) = {}) <=> (\A k \in open : p \notin over(k))
  <2>1. p \in D /\ p \in 2 .. 4
    BY <1>2, <1>6, <1>8
  <2>2. ASSUME NEW k \in open, p \in over(k) PROVE under(p) # {}
    <3> DEFINE between == {a \in path(k) : a > p /\ isPage(a)}
    <3>1. /\ k \in D /\ isPage(k) /\ (\A a \in path(k) : shows(a)) /\ p \in path(k) /\ p # k
      BY <1>2, <2>2
    <3>2. k \in between /\ between \in SUBSET (2 .. 4)
      <4>1. p <= k /\ k \in path(k)
        BY <1>4, <3>1
      <4>2. k \in 2 .. 4
        BY <1>6, <3>1
      <4>3. k > p
        BY <2>1, <3>1, <4>1, <4>2
      <4>4. QED
        BY <1>6, <3>1, <4>1, <4>3
    <3>3. PICK m \in between : \A a \in between : m <= a
      <4> HIDE DEF between
      <4>1. between # {} /\ \A a \in between : a = 2 \/ a = 3 \/ a = 4
        BY <3>2
      <4>2. CASE 2 \in between
        BY <4>1, <4>2
      <4>3. CASE 2 \notin between /\ 3 \in between
        BY <4>1, <4>3
      <4>4. CASE 2 \notin between /\ 3 \notin between
        BY <4>1, <4>4
      <4>5. QED
        BY <4>2, <4>3, <4>4
    <3>4. m \in D /\ isPage(m) /\ m > p /\ m \in 2 .. 4
      BY <1>4, <3>1, <3>2, <3>3
    <3>5. path(m) = {b \in path(k) : b <= m}
      BY <1>4, <3>1, <3>3
    <3>6. p \in path(m) /\ m # p
      BY <2>1, <3>1, <3>4, <3>5
    <3>7. ASSUME NEW a \in path(m), a > p PROVE shows(a) /\ (isPage(a) => a = m)
      <4>1. a \in path(k) /\ a <= m /\ a \in 2 .. 4
        BY <1>6, <3>1, <3>5, <3>7
      <4>2. isPage(a) => m <= a
        BY <3>3, <3>7, <4>1
      <4>3. QED
        BY <3>1, <3>4, <4>1, <4>2
    <3>8. m \in under(p)
      BY <1>9, <2>1, <3>4, <3>6, <3>7
    <3>9. QED
      BY <3>8
  <2>3. ASSUME NEW m \in under(p) PROVE m \in open /\ p \in over(m)
    BY <1>10, <2>3
  <2>4. QED
    BY <2>2, <2>3
<1>13. ASSUME NEW m \in D PROVE Cardinality(over(m)) = 1 <=> \E p : over(m) = {p}
  <2>1. over(m) \in SUBSET (2 .. 4)
    BY <1>2, <1>6
  <2>2. IsFiniteSet(2 .. 4)
    <3>1. 2 \in Int /\ 4 \in Int
      OBVIOUS
    <3>2. QED
      BY <3>1, FS_Interval
  <2>3. IsFiniteSet(over(m))
    BY <2>1, <2>2, FS_Subset
  <2>4. QED
    BY <2>3, FS_Singleton
<1>14. QED
  <2>1. ASSUME NEW m \in Bars!NavMain
        PROVE  m \in open /\ \/ Cardinality(over(m)) = 1
                             \/ over(m) = {} /\ \A k \in open : m \notin over(k)
    <3>1. CASE m \in top /\ under(m) = {}
      BY <1>8, <1>12, <3>1
    <3>2. ASSUME NEW p \in top, m \in under(p) PROVE m \in open /\ Cardinality(over(m)) = 1
      <4>1. m \in open /\ over(m) = {p}
        BY <1>10, <3>2
      <4>2. QED
        BY <1>2, <1>13, <4>1
    <3>3. QED
      BY <1>2, <2>1, <3>1, <3>2
  <2>2. ASSUME NEW m \in open, Cardinality(over(m)) = 1 PROVE m \in Bars!NavMain
    <3>1. PICK p : over(m) = {p}
      BY <1>2, <1>13, <2>2
    <3>2. p \in top /\ m \in under(p)
      BY <1>11, <3>1
    <3>3. QED
      BY <1>2, <3>2
  <2>3. ASSUME NEW m \in open, over(m) = {}, \A k \in open : m \notin over(k)
        PROVE  m \in Bars!NavMain
    BY <1>2, <1>8, <1>12, <2>3
  <2>4. QED
    BY <2>1, <2>2, <2>3

---------------------------------------------------------------------------
(* The invariant *)

LEMMA BarInit == ASSUME Bars!ConstantsOK, Bars!Init PROVE BarInv
<1>1. /\ side \in Bars!Sides /\ menus \in Bars!Shapes /\ grants \in [1 .. 2 -> {{3}, {2, 4}}]
      /\ trees = [r \in 1 .. 2 |-> None] /\ clearing = {} /\ load = Bars!NoLoad
      /\ nav = [data |-> Bars!NoMenus, fresh |-> FALSE] /\ groupCode = FALSE
      /\ staled = [r \in 1 .. 2 |-> FALSE] /\ faults = 0 /\ moves = 0
  BY MenusAre DEF Bars!Init
<1>2. menus \in MenuRows
  <2>1. PICK up \in {<<0, 1, 1, 3>>, <<0, 1, 2, 2>>, <<0, 1, 2, 3>>} :
          menus = [m \in 1 .. 4 |-> [up |-> IF m = 1 THEN None ELSE up[m], on |-> TRUE, shown |-> TRUE]]
    BY <1>1, MenusAre DEF Bars!Shapes
  <2>2. up[2] = 1 /\ up[3] \in 1 .. 2 /\ up[4] \in 1 .. 3
    BY <2>1
  <2>3. \A m \in 2 .. 4 : up[m] \in 1 .. m - 1
    BY <2>2
  <2>4. menus \in [1 .. 4 -> [up : {None} \cup (1 .. 4), on : BOOLEAN, shown : BOOLEAN]]
    <3>1. ASSUME NEW m \in 1 .. 4
          PROVE  (IF m = 1 THEN None ELSE up[m]) \in {None} \cup (1 .. 4)
      <4>1. m = 1 \/ (m \in 2 .. 4 /\ up[m] \in 1 .. m - 1)
        BY <2>3
      <4>2. QED
        BY <4>1
    <3>2. QED
      BY <2>1, <3>1
  <2>5. menus[1].up = None /\ \A m \in 2 .. 4 : menus[m].up \in 1 .. m - 1
    BY <2>1, <2>3
  <2>6. QED
    BY <2>4, <2>5, MenusAre DEF MenuRows
<1>3. grants \in [1 .. 2 -> SUBSET Bars!Menus]
  BY <1>1, MenusAre
<1>4. load.st = "none" /\ load.fresh = FALSE
  BY <1>1 DEF Bars!NoLoad
<1>5. nav \in [data : MenuTrees, fresh : BOOLEAN] /\ nav.fresh = FALSE
  BY <1>1, NoMenusTyped
<1>6. BarShape
  <2>1. 0 \in 0 .. MaxBarErrors /\ 0 \in 0 .. MaxBarInputs
    BY DEF Bars!ConstantsOK
  <2>2. QED
    BY <1>1, <1>2, <1>3, <1>4, <1>5, <2>1 DEF BarShape
<1>7. FillInv /\ BarFreshInv /\ Bars!CachedTreeCurrent /\ Bars!NavShowsGrants
  BY <1>1, <1>4, <1>5, MenusAre
  DEF FillInv, BarFreshInv, Bars!CachedTreeCurrent, Bars!NavShowsGrants
<1>8. QED
  BY <1>6, <1>7 DEF BarInv

LEMMA BarNext == ASSUME Bars!ConstantsOK, BarInv, [Bars!Next]_(Bars!navVars) PROVE BarInv'
<1>1. CASE UNCHANGED Bars!navVars
  <2>1. /\ UNCHANGED <<side, menus, grants, trees, clearing, load, nav, staled>>
        /\ groupCode' \in BOOLEAN /\ faults' \in 0 .. MaxBarErrors /\ moves' \in 0 .. MaxBarInputs
    BY <1>1 DEF Bars!navVars, BarInv, BarShape
  <2>2. QED
    BY <2>1, BarQuiet
<1>2. CASE Bars!UpdateMenu \/ Bars!AssignMenus
  BY <1>2, UpdateMenuStep, AssignMenusStep
<1>3. CASE Bars!ClearTrees \/ Bars!ClearFails
  BY <1>3, ClearTreesStep, ClearFailsStep
<1>4. CASE Bars!AskMenus \/ Bars!ReadTree \/ Bars!ReadTreeFails
  BY <1>4, AskMenusStep, ReadTreeStep
<1>5. CASE Bars!ReadRows \/ Bars!ReadGrants
  BY <1>5, ReadRowsStep, ReadGrantsStep
<1>6. CASE Bars!FillTree \/ Bars!FillFails
  BY <1>6, FillTreeStep
<1>7. CASE Bars!ReceiveMenus \/ Bars!MenusFail \/ Bars!ReceiveHeader
  BY <1>7, ReceiveMenusStep, MenusFailStep, ReceiveHeaderStep
<1>8. QED
  BY <1>1, <1>2, <1>3, <1>4, <1>5, <1>6, <1>7 DEF Bars!Next

\* The side, the rows, the trees, the request and what the browser has keep their types.
THEOREM BarsTyped == ASSUME Bars!ConstantsOK PROVE Bars!Spec => []Bars!TypeOK
<1>1. BarInv => Bars!TypeOK
  <2>1. SUFFICES ASSUME BarInv PROVE Bars!TypeOK
    OBVIOUS
  <2>2. menus \in [Bars!Menus -> [up : {None} \cup Bars!Menus, on : BOOLEAN, shown : BOOLEAN]]
    BY <2>1 DEF BarInv, BarShape, MenuRows
  <2>3. \A r \in 1 .. 2 : trees[r] # None => DOMAIN trees[r] \in SUBSET (1 .. 4)
    BY <2>1, TreesAre DEF BarInv, BarShape
  <2>4. DOMAIN nav.data \in SUBSET (1 .. 4) /\ nav.fresh \in BOOLEAN
    BY <2>1, BarFacts, TreesAre
  <2>5. load.st \in {"none", "cache", "rows", "grants", "fill", "answer"}
    BY <2>1, BarFacts
  <2>6. QED
    BY <2>1, <2>2, <2>3, <2>4, <2>5, MenusAre DEF BarInv, BarShape, Bars!TypeOK
<1>2. QED
  BY <1>1, BarInit, BarNext, PTL DEF Bars!Spec

\* Redis, the joined answer, the browser and the bars agree: a cached tree is current, no
\* branch of the joined answer is broken, a read after the last change shows what was
\* granted, the workspace links its pages by kind and visibility and the console two
\* levels by their place, but for what the property names.
THEOREM BarsShowGrants == ASSUME Bars!ConstantsOK PROVE Bars!Spec => []Bars!BarShowsGrants
<1>1. BarInv => Bars!BarShowsGrants
  <2>1. SUFFICES ASSUME BarInv PROVE Bars!BarShowsGrants
    OBVIOUS
  <2>2. Bars!NothingOrphaned
    <3>1. load.st = "answer" => load.list \in MenuTrees
      BY <2>1, BarFacts
    <3>2. QED
      BY <3>1, RootedIs DEF Bars!NothingOrphaned
  <2>3. BarShape /\ Bars!CachedTreeCurrent /\ Bars!NavShowsGrants
    BY <2>1 DEF BarInv
  <2>4. QED
    BY <2>2, <2>3, ConsoleIsLinked, PagesAreLinked DEF Bars!BarShowsGrants
<1>2. QED
  BY <1>1, BarInit, BarNext, PTL DEF Bars!Spec

---------------------------------------------------------------------------
(* RowMenus: the actions the management pages offer *)

\* The states of a fetch of the header context.
Reads == [st : {"asked"}] \cup [st : {"served"}, codes : SUBSET Rights!AllCodes(desk), old : BOOLEAN]

Tasks ==
  [item : Rights!Desks[desk] \cup {None}, st : {"none", "open", "sent", "done", "refreshing"},
   below : BOOLEAN, cascades : BOOLEAN, could : BOOLEAN, renewed : BOOLEAN, failed : BOOLEAN,
   reread : BOOLEAN]

RightsTypes ==
  /\ desk \in DOMAIN Rights!Desks
  /\ granted \in SUBSET Rights!AllCodes(desk)
  /\ context \in [st : {"success", "error"}, codes : SUBSET Rights!AllCodes(desk), old : BOOLEAN]
  /\ header # None => header \in Reads
  /\ branch \in BOOLEAN
  /\ task \in Tasks
  /\ outcome \in {"none", "forbidden", "quiet", "saved"}

\* An action was offered: until the codes are read again they hold its
\* permission, and until a read fails they are known.
AsOffered ==
  task.st \in {"open", "sent", "done", "refreshing"} =>
    /\ task.item \in Rights!Desks[desk]
    /\ ~task.failed => Rights!isReady
    /\ ~task.renewed /\ task.item # "delete" =>
         \A below \in BOOLEAN : Rights!Guard(task.item, below) \in context.codes

\* A refusal is about an open form, a success about none.
OutcomeOfTask ==
  /\ outcome \in {"forbidden", "quiet"} => task.st = "open" /\ task.item # "delete"
  /\ outcome = "forbidden" => task.renewed
  /\ outcome = "quiet" => task.failed
  /\ outcome = "saved" => task.st = "none"

\* The question about a removal counts the children the page saw.
RemovalAsAsked ==
  /\ task.st \in {"open", "sent"} /\ ~task.reread => branch = task.below
  /\ task.st = "open" /\ task.item = "delete" /\ desk \notin {"users", "clients"} /\ task.below =>
       task.could
  /\ task.cascades => task.item = "delete"
  /\ task.st = "sent" /\ task.cascades => task.could \/ (Rights!LooksAgain /\ task.reread)

\* Codes read before an assignment are replaced before it is reported.
OldCodes ==
  /\ context.old =>
       \/ context.st = "error"
       \/ task.st \in {"done", "refreshing"} /\ Rights!Assigns(task.item)
  /\ header # None /\ header.st = "served" /\ header.old =>
       task.st = "done" /\ Rights!Assigns(task.item)

RightsInv == RightsTypes /\ AsOffered /\ OutcomeOfTask /\ RemovalAsAsked /\ OldCodes

\* What shows an item is what its handler asks for.
LEMMA GuardIsCan ==
  ASSUME desk \in DOMAIN Rights!Desks, NEW item \in Rights!Desks[desk], NEW below \in BOOLEAN
  PROVE  Rights!Can(item, below) = Rights!Guard(item, below)
<1> USE DEF Rights!Can, Rights!Guard, Rights!AddGuard, Rights!AssignGuard, Rights!DeleteGuard
<1>1. CASE desk = "users"
  <2>1. item \in {"edit", "assignRoles", "delete", "create"}
    BY <1>1 DEF Rights!Desks, Rights!UsersPage, Rights!UserRow
  <2>2. QED
    BY <1>1, <2>1 DEF Rights!UserCan
<1>2. CASE desk = "clients"
  <2>1. item \in {"edit", "rotate", "delete", "create"}
    BY <1>2 DEF Rights!Desks, Rights!ClientsPage, Rights!ClientRow
  <2>2. QED
    BY <1>2, <2>1 DEF Rights!ClientCan
<1>3. CASE desk = "roles"
  <2>1. item \in {"addChild", "edit", "assignMenus", "assignPerms", "delete", "create"}
    BY <1>3 DEF Rights!Desks, Rights!RolesPage, Rights!RoleRow, Rights!RoleNode,
       Rights!RolePanel
  <2>2. QED
    BY <1>3, <2>1 DEF Rights!RoleCan
<1>4. CASE desk = "menus"
  <2>1. item \in {"addChild", "edit", "copy", "delete", "create"}
    BY <1>4 DEF Rights!Desks, Rights!MenusPage, Rights!MenuRow, Rights!MenuNode,
       Rights!MenuPanel
  <2>2. QED
    BY <1>4, <2>1 DEF Rights!MenuCan
<1>5. CASE desk = "perms"
  <2>1. item \in {"addChild", "edit", "copy", "delete", "create"}
    BY <1>5 DEF Rights!Desks, Rights!PermsPage, Rights!PermRow, Rights!PermNode,
       Rights!PermPanel
  <2>2. QED
    BY <1>5, <2>1 DEF Rights!PermCan, Rights!MenuCan
<1>6. CASE desk = "dicts"
  <2>1. item \in {"addChild", "edit", "delete", "create"}
    BY <1>6 DEF Rights!Desks, Rights!DictsPage, Rights!DictRow, Rights!DictNode,
       Rights!DictPanel
  <2>2. QED
    BY <1>6, <2>1 DEF Rights!DictCan
<1>7. CASE desk = "tenants"
  <2>1. item \in {"addChild", "edit", "delete", "create"}
    BY <1>7
       DEF Rights!Desks, Rights!TenantsPage, Rights!TenantRow, Rights!TenantNode,
           Rights!TenantPanel
  <2>2. QED
    BY <1>7, <2>1 DEF Rights!TenantCan, Rights!DictCan
<1>8. QED
  BY <1>1, <1>2, <1>3, <1>4, <1>5, <1>6, <1>7 DEF Rights!Desks

\* Only a removal asks for a permission that depends on the children.
LEMMA GuardOfForm ==
  ASSUME NEW item, item # "delete", NEW one, NEW other
  PROVE  Rights!Guard(item, one) = Rights!Guard(item, other)
BY DEF Rights!Guard, Rights!AddGuard, Rights!AssignGuard

LEMMA NoTaskIsTask == Rights!NoTask \in Tasks /\ Rights!NoTask.st = "none" /\ ~Rights!NoTask.cascades
BY DEF Rights!NoTask, Tasks

LEMMA RightsInit == ASSUME Rights!Init PROVE RightsInv
BY NoTaskIsTask
   DEF Rights!Init, RightsInv, RightsTypes, AsOffered, OutcomeOfTask, RemovalAsAsked, OldCodes

\* Somebody else's change, a fetch that starts or is served, and a read of the
\* rows leave the task and what the page knows.
LEMMA AroundStep ==
  ASSUME RightsInv,
         Rights!OthersChange \/ Rights!Focus \/ Rights!ServeHeader \/ Rights!Reread
  PROVE  RightsInv'
<1>1. CASE Rights!OthersChange
  <2>1. PICK code \in Rights!AllCodes(desk) : Rights!Regrant(code)
    BY <1>1 DEF Rights!OthersChange
  <2>2. granted' \in SUBSET Rights!AllCodes(desk)
    BY <2>1 DEF RightsInv, RightsTypes, Rights!Regrant
  <2>3. UNCHANGED <<desk, context, header, branch, task, outcome>>
    BY <1>1 DEF Rights!OthersChange
  <2>4. RightsTypes'
    BY <2>2, <2>3 DEF RightsInv, RightsTypes, Reads, Tasks, Rights!AllCodes
  <2>5. QED
    BY <2>3, <2>4
       DEF RightsInv, AsOffered, OutcomeOfTask, RemovalAsAsked, OldCodes, Rights!isReady,
           Rights!Guard, Rights!DeleteGuard, Rights!LooksAgain, Rights!Assigns
<1>2. CASE Rights!Focus \/ Rights!ServeHeader
  <2>1. UNCHANGED <<desk, granted, context, branch, task, outcome>>
    BY <1>2 DEF Rights!Focus, Rights!ServeHeader
  <2>2. /\ header' \in Reads
        /\ ~(header'.st = "served" /\ header'.old)
    <3>1. CASE Rights!Focus
      <4>1. header' = [st |-> "asked"]
        BY <3>1 DEF Rights!Focus
      <4>2. header' \in [st : {"asked"}] /\ header'.st = "asked"
        BY <4>1
      <4>3. QED
        BY <4>2 DEF Reads
    <3>2. CASE Rights!ServeHeader
      <4>1. header' = [st |-> "served", codes |-> granted, old |-> FALSE]
        BY <3>2 DEF Rights!ServeHeader
      <4>2. /\ header' \in [st : {"served"}, codes : SUBSET Rights!AllCodes(desk), old : BOOLEAN]
            /\ ~header'.old
        BY <4>1 DEF RightsInv, RightsTypes
      <4>3. QED
        BY <4>2 DEF Reads
    <3>3. QED
      BY <1>2, <3>1, <3>2
  <2>3. RightsTypes'
    BY <2>1, <2>2 DEF RightsInv, RightsTypes, Reads, Tasks, Rights!AllCodes
  <2>4. QED
    BY <2>1, <2>2, <2>3
       DEF RightsInv, AsOffered, OutcomeOfTask, RemovalAsAsked, OldCodes, Rights!isReady,
           Rights!Guard, Rights!DeleteGuard, Rights!LooksAgain, Rights!Assigns
<1>3. CASE Rights!Reread
  <2>1. /\ branch' = ~branch
        /\ task' = [task EXCEPT !.reread = task # Rights!NoTask]
        /\ UNCHANGED <<desk, granted, context, header, outcome>>
    BY <1>3 DEF Rights!Reread
  <2>2. /\ task' \in Tasks
        /\ \A f \in {"item", "st", "below", "cascades", "could", "renewed", "failed"} :
             task'[f] = task[f]
        /\ task.st # "none" => task'.reread
    BY <2>1, NoTaskIsTask DEF RightsInv, RightsTypes, Tasks
  <2>3. RightsTypes'
    BY <2>1, <2>2 DEF RightsInv, RightsTypes, Reads, Tasks, Rights!AllCodes
  <2>4. QED
    BY <2>1, <2>2, <2>3
       DEF RightsInv, AsOffered, OutcomeOfTask, RemovalAsAsked, OldCodes, Rights!isReady,
           Rights!Guard, Rights!DeleteGuard, Rights!LooksAgain, Rights!Assigns
<1>4. QED
  BY <1>1, <1>2, <1>3

LEMMA HeaderAnswersStep ==
  ASSUME RightsInv, Rights!HeaderAnswers PROVE RightsInv'
<1> DEFINE t == [task EXCEPT !.renewed = task # Rights!NoTask]
<1>1. /\ header # None /\ header.st = "served" /\ header' = None
      /\ context' = [st |-> "success", codes |-> header.codes, old |-> header.old]
      /\ task' = Rights!Settled(t)
      /\ outcome' = IF task.st = "refreshing" THEN "saved" ELSE outcome
      /\ UNCHANGED <<desk, granted, branch>>
  BY DEF Rights!HeaderAnswers, Rights!SettledOutcome
<1>2. /\ t \in Tasks
      /\ \A f \in {"item", "st", "below", "cascades", "could", "failed", "reread"} : t[f] = task[f]
      /\ task.st # "none" => t.renewed
  BY NoTaskIsTask DEF RightsInv, RightsTypes, Tasks
<1> HIDE DEF t
<1>3. /\ task' \in Tasks
      /\ task.st = "refreshing" => task'.st = "none" /\ ~task'.cascades
      /\ task.st # "refreshing" => task' = t
  BY <1>1, <1>2, NoTaskIsTask DEF Rights!Settled
<1>4. /\ header.codes \in SUBSET Rights!AllCodes(desk) /\ header.old \in BOOLEAN
      /\ header.old => task.st = "done" /\ Rights!Assigns(task.item)
  BY <1>1 DEF RightsInv, RightsTypes, Reads, OldCodes
<1>5. context' \in [st : {"success"}, codes : SUBSET Rights!AllCodes(desk), old : BOOLEAN]
      /\ context'.old = header.old /\ Rights!isReady'
  BY <1>1, <1>4 DEF Rights!isReady
<1>6. outcome' \in {"none", "forbidden", "quiet", "saved"}
  BY <1>1 DEF RightsInv, RightsTypes
<1>7. RightsTypes'
  BY <1>1, <1>3, <1>5, <1>6 DEF RightsInv, RightsTypes, Reads, Tasks, Rights!AllCodes
<1>8. AsOffered'
  BY <1>1, <1>2, <1>3, <1>5 DEF RightsInv, AsOffered
<1>9. OutcomeOfTask'
  BY <1>1, <1>2, <1>3 DEF RightsInv, OutcomeOfTask
<1>10. RemovalAsAsked'
  BY <1>1, <1>2, <1>3 DEF RightsInv, RemovalAsAsked, Rights!LooksAgain
<1>11. OldCodes'
  BY <1>1, <1>2, <1>3, <1>4, <1>5 DEF OldCodes, Rights!Assigns
<1>12. QED
  BY <1>7, <1>8, <1>9, <1>10, <1>11 DEF RightsInv

LEMMA HeaderFailsStep ==
  ASSUME RightsInv, Rights!HeaderFails PROVE RightsInv'
<1> DEFINE t == [task EXCEPT !.failed = task # Rights!NoTask]
<1>1. /\ header' = None
      /\ context' = [context EXCEPT !.st = "error"]
      /\ task' = Rights!Settled(t)
      /\ outcome' = IF task.st = "refreshing" THEN "saved" ELSE outcome
      /\ UNCHANGED <<desk, granted, branch>>
  BY DEF Rights!HeaderFails, Rights!SettledOutcome
<1>2. /\ t \in Tasks
      /\ \A f \in {"item", "st", "below", "cascades", "could", "renewed", "reread"} : t[f] = task[f]
      /\ task.st # "none" => t.failed
  BY NoTaskIsTask DEF RightsInv, RightsTypes, Tasks
<1> HIDE DEF t
<1>3. /\ task' \in Tasks
      /\ task.st = "refreshing" => task'.st = "none" /\ ~task'.cascades
      /\ task.st # "refreshing" => task' = t
  BY <1>1, <1>2, NoTaskIsTask DEF Rights!Settled
<1>4. /\ context' \in [st : {"error"}, codes : SUBSET Rights!AllCodes(desk), old : BOOLEAN]
      /\ context'.codes = context.codes
  BY <1>1 DEF RightsInv, RightsTypes
<1>5. outcome' \in {"none", "forbidden", "quiet", "saved"}
  BY <1>1 DEF RightsInv, RightsTypes
<1>6. RightsTypes'
  BY <1>1, <1>3, <1>4, <1>5 DEF RightsInv, RightsTypes, Reads, Tasks, Rights!AllCodes
<1>7. AsOffered'
  BY <1>1, <1>2, <1>3, <1>4
     DEF RightsInv, AsOffered, Rights!Guard, Rights!DeleteGuard
<1>8. OutcomeOfTask'
  BY <1>1, <1>2, <1>3 DEF RightsInv, OutcomeOfTask
<1>9. RemovalAsAsked'
  BY <1>1, <1>2, <1>3 DEF RightsInv, RemovalAsAsked, Rights!LooksAgain
<1>10. OldCodes'
  BY <1>1, <1>4 DEF OldCodes
<1>11. QED
  BY <1>6, <1>7, <1>8, <1>9, <1>10 DEF RightsInv

\* What is offered is accepted: the form or the question opens.
LEMMA ChooseStep ==
  ASSUME RightsInv, NEW item, Rights!Choose(item) PROVE RightsInv'
<1>1. /\ task.st = "none" /\ item \in Rights!Desks[desk]
      /\ Rights!isReady /\ Rights!Can(item, branch) \in context.codes
      /\ UNCHANGED <<desk, granted, context, header, branch>>
  BY DEF Rights!Choose, Rights!Offered, Rights!hasPerm
<1>2. Rights!Guard(item, branch) \in context.codes
  BY <1>1, GuardIsCan DEF RightsInv, RightsTypes
<1>3. /\ outcome' = "none"
      /\ task' = Rights!Open(IF item = "rotate" THEN "sent" ELSE "open", item)
  BY <1>1, <1>2 DEF Rights!Choose, Rights!hasPerm
<1>4. /\ task'.item = item /\ task'.st = IF item = "rotate" THEN "sent" ELSE "open"
      /\ task'.below = branch /\ task'.could = ("removeCascade" \in context.codes)
      /\ ~task'.cascades /\ ~task'.renewed /\ ~task'.failed /\ ~task'.reread
      /\ task' \in Tasks
  <2>1. task' = [item |-> item, st |-> IF item = "rotate" THEN "sent" ELSE "open",
                 below |-> branch, cascades |-> FALSE,
                 could |-> (Rights!isReady /\ "removeCascade" \in context.codes),
                 renewed |-> FALSE, failed |-> FALSE, reread |-> FALSE]
    BY <1>3 DEF Rights!Open, Rights!NoTask
  <2>2. branch \in BOOLEAN
    BY DEF RightsInv, RightsTypes
  <2>3. QED
    BY <1>1, <2>1, <2>2 DEF Tasks
<1>5. RightsTypes'
  BY <1>1, <1>3, <1>4 DEF RightsInv, RightsTypes, Reads, Tasks, Rights!AllCodes
<1>6. AsOffered'
  <2>1. item # "delete" => \A below \in BOOLEAN : Rights!Guard(item, below) \in context.codes
    BY <1>2, GuardOfForm
  <2>2. QED
    BY <1>1, <1>4, <2>1 DEF AsOffered, Rights!isReady, Rights!Guard, Rights!DeleteGuard
<1>7. OutcomeOfTask' /\ OldCodes'
  BY <1>1, <1>3 DEF RightsInv, OutcomeOfTask, OldCodes
<1>8. RemovalAsAsked'
  <2>1. item = "delete" /\ desk \notin {"users", "clients"} /\ branch =>
          Rights!Guard(item, branch) = "removeCascade"
    BY DEF Rights!Guard, Rights!AddGuard, Rights!AssignGuard, Rights!DeleteGuard,
           Rights!DeletePerm
  <2>2. QED
    BY <1>1, <1>2, <1>4, <2>1 DEF RemovalAsAsked
<1>9. QED
  BY <1>5, <1>6, <1>7, <1>8 DEF RightsInv

\* A refused save leaves the form, and was preceded by a read of the codes.
LEMMA SaveStep ==
  ASSUME RightsInv, Rights!Save PROVE RightsInv'
<1>1. /\ task.st = "open" /\ task.item # "delete" /\ ~task.cascades
      /\ UNCHANGED <<desk, granted, context, header, branch>>
  BY DEF Rights!Save, RightsInv, RemovalAsAsked
<1>2. CASE Rights!hasPerm(Rights!Guard(task.item, branch))
  <2>1. task' = [task EXCEPT !.st = "sent"] /\ outcome' = "none"
    BY <1>2 DEF Rights!Save
  <2>2. /\ task' \in Tasks /\ task'.st = "sent"
        /\ \A f \in {"item", "below", "cascades", "could", "renewed", "failed", "reread"} :
             task'[f] = task[f]
    BY <2>1 DEF RightsInv, RightsTypes, Tasks
  <2>3. RightsTypes'
    BY <1>1, <2>1, <2>2 DEF RightsInv, RightsTypes, Reads, Tasks, Rights!AllCodes
  <2>4. AsOffered' /\ OutcomeOfTask'
    BY <1>1, <2>1, <2>2
       DEF RightsInv, AsOffered, OutcomeOfTask, Rights!isReady, Rights!Guard, Rights!DeleteGuard
  <2>5. RemovalAsAsked' /\ OldCodes'
    BY <1>1, <2>1, <2>2 DEF RightsInv, RemovalAsAsked, OldCodes
  <2>6. QED
    BY <2>3, <2>4, <2>5 DEF RightsInv
<1>3. CASE ~Rights!hasPerm(Rights!Guard(task.item, branch))
  <2>1. /\ task' = task /\ outcome' = Rights!Refusal /\ branch \in BOOLEAN
    BY <1>3 DEF Rights!Save, RightsInv, RightsTypes
  <2>2. /\ outcome' \in {"forbidden", "quiet"}
        /\ outcome' = "forbidden" => task.renewed
        /\ outcome' = "quiet" => task.failed
    BY <1>1, <1>3, <2>1 DEF RightsInv, AsOffered, Rights!hasPerm, Rights!Refusal
  <2>3. RightsTypes'
    BY <1>1, <2>1, <2>2 DEF RightsInv, RightsTypes, Reads, Tasks, Rights!AllCodes
  <2>4. AsOffered' /\ OutcomeOfTask'
    BY <1>1, <2>1, <2>2
       DEF RightsInv, AsOffered, OutcomeOfTask, Rights!isReady, Rights!Guard, Rights!DeleteGuard
  <2>5. RemovalAsAsked' /\ OldCodes'
    BY <1>1, <2>1
       DEF RightsInv, RemovalAsAsked, OldCodes, Rights!LooksAgain, Rights!Assigns
  <2>6. QED
    BY <2>3, <2>4, <2>5 DEF RightsInv
<1>4. QED
  BY <1>2, <1>3

LEMMA ConfirmStep ==
  ASSUME RightsInv, Rights!Confirm PROVE RightsInv'
<1> DEFINE many == /\ desk \notin {"users", "clients"}
                   /\ IF Rights!LooksAgain THEN branch ELSE task.below
<1>1. /\ task.st = "open" /\ task.item = "delete"
      /\ task' = [task EXCEPT !.st = "sent", !.cascades = many]
      /\ UNCHANGED <<desk, granted, context, header, branch, outcome>>
  BY DEF Rights!Confirm
<1>2. /\ task' \in Tasks /\ task'.st = "sent" /\ task'.cascades = many
      /\ \A f \in {"item", "below", "could", "renewed", "failed", "reread"} : task'[f] = task[f]
  BY <1>1 DEF RightsInv, RightsTypes, Tasks
<1>3. RightsTypes'
  BY <1>1, <1>2 DEF RightsInv, RightsTypes, Reads, Tasks, Rights!AllCodes
<1>4. AsOffered' /\ OutcomeOfTask'
  BY <1>1, <1>2
     DEF RightsInv, AsOffered, OutcomeOfTask, Rights!isReady, Rights!Guard, Rights!DeleteGuard
<1>5. many => task.could \/ (Rights!LooksAgain /\ task.reread)
  BY <1>1 DEF RightsInv, RemovalAsAsked
<1>6. RemovalAsAsked' /\ OldCodes'
  BY <1>1, <1>2, <1>5 DEF RightsInv, RemovalAsAsked, OldCodes, Rights!LooksAgain
<1>7. QED
  BY <1>3, <1>4, <1>6 DEF RightsInv

LEMMA CloseStep ==
  ASSUME RightsInv, Rights!Close PROVE RightsInv'
<1>1. /\ task' = Rights!NoTask /\ outcome' = "none" /\ task.st = "open"
      /\ UNCHANGED <<desk, granted, context, header, branch>>
  BY DEF Rights!Close
<1>2. RightsTypes'
  BY <1>1, NoTaskIsTask DEF RightsInv, RightsTypes, Reads, Tasks, Rights!AllCodes
<1>3. QED
  BY <1>1, <1>2, NoTaskIsTask
     DEF RightsInv, AsOffered, OutcomeOfTask, RemovalAsAsked, OldCodes

\* The codes the page holds, and those on their way, are old after an assignment.
LEMMA CommitStep ==
  ASSUME RightsInv, Rights!Commit PROVE RightsInv'
<1>1. /\ task.st = "sent" /\ task' = [task EXCEPT !.st = "done"]
      /\ UNCHANGED <<desk, branch, outcome>>
  BY DEF Rights!Commit
<1>2. /\ task' \in Tasks /\ task'.st = "done"
      /\ \A f \in {"item", "below", "cascades", "could", "renewed", "failed", "reread"} :
           task'[f] = task[f]
  BY <1>1 DEF RightsInv, RightsTypes, Tasks
<1>3. /\ granted' \in SUBSET Rights!AllCodes(desk)
      /\ context' \in [st : {"success", "error"}, codes : SUBSET Rights!AllCodes(desk),
                       old : BOOLEAN]
      /\ context'.st = context.st /\ context'.codes = context.codes
      /\ Rights!Assigns(task.item) \/ (context' = context /\ header' = header)
      /\ header' = IF Rights!Assigns(task.item) /\ header # None /\ header.st = "served"
                   THEN [header EXCEPT !.old = TRUE] ELSE header
  BY DEF RightsInv, RightsTypes, Rights!Commit, Rights!Regrant
<1>4. header' # None => header' \in Reads
  BY <1>3 DEF RightsInv, RightsTypes, Reads
<1>5. RightsTypes'
  BY <1>1, <1>2, <1>3, <1>4 DEF RightsInv, RightsTypes, Reads, Tasks, Rights!AllCodes
<1>6. AsOffered' /\ OutcomeOfTask'
  BY <1>1, <1>2, <1>3
     DEF RightsInv, AsOffered, OutcomeOfTask, Rights!isReady, Rights!Guard, Rights!DeleteGuard
<1>7. RemovalAsAsked'
  BY <1>1, <1>2 DEF RightsInv, RemovalAsAsked
<1>8. OldCodes'
  BY <1>1, <1>2, <1>3 DEF RightsInv, OldCodes, Rights!Assigns
<1>9. QED
  BY <1>5, <1>6, <1>7, <1>8 DEF RightsInv

LEMMA RightsAnswerStep ==
  ASSUME RightsInv, Rights!Answer PROVE RightsInv'
<1>1. /\ task.st = "done" /\ UNCHANGED <<desk, granted, context, branch>>
  BY DEF Rights!Answer
<1>2. CASE Rights!Assigns(task.item)
  <2>1. /\ header' = [st |-> "asked"] /\ task' = [task EXCEPT !.st = "refreshing"]
        /\ UNCHANGED outcome
    BY <1>2 DEF Rights!Answer, Rights!Refreshes
  <2>2. header' \in [st : {"asked"}] /\ header'.st = "asked"
    BY <2>1
  <2>3. /\ task' \in Tasks /\ task'.st = "refreshing"
        /\ \A f \in {"item", "below", "cascades", "could", "renewed", "failed", "reread"} :
             task'[f] = task[f]
    BY <2>1 DEF RightsInv, RightsTypes, Tasks
  <2>4. RightsTypes'
    BY <1>1, <2>1, <2>2, <2>3 DEF RightsInv, RightsTypes, Reads, Tasks, Rights!AllCodes
  <2>5. AsOffered' /\ OutcomeOfTask'
    BY <1>1, <2>1, <2>3
       DEF RightsInv, AsOffered, OutcomeOfTask, Rights!isReady, Rights!Guard, Rights!DeleteGuard
  <2>6. RemovalAsAsked' /\ OldCodes'
    BY <1>1, <1>2, <2>1, <2>2, <2>3 DEF RightsInv, RemovalAsAsked, OldCodes, Rights!Assigns
  <2>7. QED
    BY <2>4, <2>5, <2>6 DEF RightsInv
<1>3. CASE ~Rights!Assigns(task.item)
  <2>1. task' = Rights!NoTask /\ outcome' = "saved" /\ header' = header
    BY <1>3 DEF Rights!Answer, Rights!Refreshes
  <2>2. RightsTypes'
    BY <1>1, <2>1, NoTaskIsTask DEF RightsInv, RightsTypes, Reads, Tasks, Rights!AllCodes
  <2>3. QED
    BY <1>1, <1>3, <2>1, <2>2, NoTaskIsTask
       DEF RightsInv, AsOffered, OutcomeOfTask, RemovalAsAsked, OldCodes
<1>4. QED
  BY <1>2, <1>3

LEMMA FailStep ==
  ASSUME RightsInv, Rights!Fail PROVE RightsInv'
<1>1. /\ task.st = "sent" /\ UNCHANGED <<desk, granted, context, header, branch, outcome>>
      /\ task' = IF task.item \in {"rotate", "delete"} THEN Rights!NoTask
                 ELSE [task EXCEPT !.st = "open"]
  BY DEF Rights!Fail
<1>2. outcome = "none" /\ (task.item # "delete" => ~task.cascades)
  BY <1>1 DEF RightsInv, RightsTypes, OutcomeOfTask, RemovalAsAsked
<1>3. CASE task.item \in {"rotate", "delete"}
  <2>1. RightsTypes'
    BY <1>1, <1>3, NoTaskIsTask DEF RightsInv, RightsTypes, Reads, Tasks, Rights!AllCodes
  <2>2. QED
    BY <1>1, <1>2, <1>3, <2>1, NoTaskIsTask
       DEF RightsInv, AsOffered, OutcomeOfTask, RemovalAsAsked, OldCodes
<1>4. CASE task.item \notin {"rotate", "delete"}
  <2>1. /\ task' \in Tasks /\ task'.st = "open"
        /\ \A f \in {"item", "below", "cascades", "could", "renewed", "failed", "reread"} :
             task'[f] = task[f]
    BY <1>1, <1>4 DEF RightsInv, RightsTypes, Tasks
  <2>2. RightsTypes'
    BY <1>1, <2>1 DEF RightsInv, RightsTypes, Reads, Tasks, Rights!AllCodes
  <2>3. AsOffered' /\ OutcomeOfTask'
    BY <1>1, <1>2, <2>1
       DEF RightsInv, AsOffered, OutcomeOfTask, Rights!isReady, Rights!Guard, Rights!DeleteGuard
  <2>4. RemovalAsAsked' /\ OldCodes'
    BY <1>1, <1>2, <1>4, <2>1 DEF RightsInv, RemovalAsAsked, OldCodes
  <2>5. QED
    BY <2>2, <2>3, <2>4 DEF RightsInv
<1>5. QED
  BY <1>3, <1>4

LEMMA RightsNext ==
  ASSUME RightsInv, [Rights!Next]_(Rights!menuVars) PROVE RightsInv'
<1>1. CASE UNCHANGED Rights!menuVars
  <2>1. UNCHANGED <<desk, granted, context, header, branch, task, outcome>>
    BY <1>1 DEF Rights!menuVars
  <2>2. RightsTypes'
    BY <2>1 DEF RightsInv, RightsTypes, Reads, Tasks, Rights!AllCodes
  <2>3. AsOffered'
    BY <2>1 DEF RightsInv, AsOffered, Rights!isReady, Rights!Guard, Rights!DeleteGuard
  <2>4. QED
    BY <2>1, <2>2, <2>3
       DEF RightsInv, OutcomeOfTask, RemovalAsAsked, OldCodes, Rights!LooksAgain, Rights!Assigns
<1>2. QED
  BY <1>1, AroundStep, HeaderAnswersStep, HeaderFailsStep, ChooseStep, SaveStep, ConfirmStep,
     CloseStep, CommitStep, RightsAnswerStep, FailStep
     DEF Rights!Next

\* The menus and what they started keep their types.
THEOREM RightsTyped == Rights!Spec => []Rights!TypeOK
<1>1. RightsInv => Rights!TypeOK
  BY DEF RightsInv, RightsTypes, Reads, Tasks, Rights!TypeOK
<1>2. QED
  BY <1>1, RightsInit, RightsNext, PTL DEF Rights!Spec

\* What the menus offer can be done.
THEOREM MenusHold == Rights!Spec => []Rights!ActionsAsOffered
<1>1. RightsInv => Rights!ActionsAsOffered
  BY DEF RightsInv, RightsTypes, OutcomeOfTask, RemovalAsAsked, OldCodes,
         Rights!ActionsAsOffered, Rights!QuietNeedsFailure, Rights!ForbiddenNeedsRevocation,
         Rights!CascadeNeedsPermission, Rights!OwnAssignmentSeen
<1>2. QED
  BY <1>1, RightsInit, RightsNext, PTL DEF Rights!Spec

==============================================================================

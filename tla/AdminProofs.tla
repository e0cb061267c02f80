----------------------------- MODULE AdminProofs -----------------------------
(***************************************************************************)
(* Proofs about the pages where administrators decide, for any people,     *)
(* workspaces, rows and bounds.                                            *)
(***************************************************************************)
EXTENDS Integers, FiniteSetTheorems, TLAPS

CONSTANTS
  None, People, JoinPages, VisitorOf, Founder, MemberKeywords, MemberPage, MaxMemberInputs,
  Workspaces, MaxCodes, Life, MaxInviteInputs, MaxInviteErrors, Unborn, TreeNodes,
  TreeCalls, TreeFilters, MaxTreeInputs, Owners, Assignables, MaxDialogInputs,
  MaxDialogFails

VARIABLES
  row, joins, announced, rows, search, listing, ruling, turned, crowded, contested,
  elsewhere, overtaken, patchy, moves, codeOf, leadsTo, minted, invites, tokenOf, named,
  teamCall, opened, link, aged, torn, rivals, afar, inviteInputs, inviteErrors, page,
  parentOf, live, filter, screen, answer, selected, confirm, removal, adding, strayed,
  used, kind, parent, assigned, tree, entry, fetch, dialog, save, bounds

Members == INSTANCE Membership WITH
  Keywords <- MemberKeywords, PageSize <- MemberPage, MaxInputs <- MaxMemberInputs
Invite == INSTANCE InviteLink WITH
  MaxInputs <- MaxInviteInputs, MaxErrors <- MaxInviteErrors
Tree == INSTANCE TreePage WITH
  Nodes <- TreeNodes, Calls <- TreeCalls, MaxInputs <- MaxTreeInputs,
  Filters <- TreeFilters
Dialog == INSTANCE AssignDialog WITH
  Nodes <- Assignables, MaxInputs <- MaxDialogInputs, MaxFails <- MaxDialogFails

---------------------------------------------------------------------------
(* Membership: who joins a workspace, and who decides on it *)

MemberTypes == Members!TypeOK

\* Whoever is told to have failed was rejected before, or asked twice at once.
LockedInv ==
  /\ \A p \in People : row[p] = "deleted" => p \in turned
  /\ \A i \in JoinPages, j \in JoinPages :
       /\ i # j /\ VisitorOf[i] = VisitorOf[j]
       /\ joins[i].st # "shown" /\ joins[j].st # "shown"
       => VisitorOf[j] \in crowded
  /\ \A j \in JoinPages :
       joins[j].st = "found none" =>
         row[VisitorOf[j]] = "none" \/ VisitorOf[j] \in turned \cup crowded
  /\ Members!LockedOutNeedsRejection

\* Nothing is announced of an open request, and unless two administrators meet
\* the call that read it as open still finds it open.
AnnouncedInv ==
  \A p \in People : p \notin contested =>
    /\ row[p] \in {"none", "pending"} => announced[p] = {}
    /\ announced[p] # {"approved", "rejected"}
    /\ ruling.st \in {"read", "decided"} /\ ruling.who = p /\ ruling.before = "pending" =>
         row[p] = "pending" /\ (ruling.st = "decided" => ruling.saw = "pending")

FounderSearched(q) == q = None \/ Founder \in q

\* Rows of a search as the server has them, but for the requests made since and
\* the decisions taken elsewhere.
Current(q, shown) ==
  /\ \A p \in People : p \notin elsewhere /\ <<p, "pending">> \in shown => row[p] = "pending"
  /\ elsewhere = {} /\ FounderSearched(q) /\ Cardinality(Members!Requests) < MemberPage =>
       <<Founder, "active">> \in shown

\* An answer under way is current unless a decision of this page overtook it, and
\* so are the rows on screen, once they are answered and until such a decision is
\* written; a rejection pressed on a current list meets the request.
ListInv ==
  /\ ruling.st # "none" => ruling.who \in People
  /\ ~patchy =>
       \A q \in Members!Searches :
         q \notin overtaken /\ listing[q].st = "served" => Current(q, listing[q].rows)
  /\ ~patchy /\ listing[search].st = "idle" =>
       /\ Members!HasData(search)
       /\ ruling.st # "done" /\ search \notin overtaken => Current(search, rows)
  /\ /\ ruling.st \in {"sent", "read", "decided"} /\ ruling.says = "reject"
     /\ ~ruling.blind /\ ~patchy /\ ruling.who \notin elsewhere
     => row[ruling.who] = "pending" /\ (ruling.st = "decided" => ruling.saw = "pending")

MembersInv == MemberTypes /\ LockedInv /\ AnnouncedInv /\ ListInv

LEMMA MembersCardinality == ASSUME NEW S PROVE Members!Cardinality(S) = Cardinality(S)
  BY DEF Members!Cardinality, Cardinality

LEMMA PeopleFinite == ASSUME Members!ConstantsOK PROVE IsFiniteSet(People)
  BY DEF Members!ConstantsOK, Members!IsFiniteSet, IsFiniteSet

\* A request that is made adds to the requests, so the list stays current.
LEMMA MoreRequests ==
  ASSUME Members!ConstantsOK, MemberTypes, MemberTypes', UNCHANGED elsewhere,
         \A p \in People : row[p] = "pending" => row'[p] = "pending",
         NEW q, NEW shown, Current(q, shown)
  PROVE  /\ \A p \in People : p \notin elsewhere' /\ <<p, "pending">> \in shown => row'[p] = "pending"
         /\ elsewhere' = {} /\ FounderSearched(q) /\ Cardinality(Members!Requests') < MemberPage =>
              <<Founder, "active">> \in shown
<1>1. Members!Requests \subseteq Members!Requests'
  BY DEF Members!Requests
<1>2. Members!Requests' \subseteq People
  BY DEF Members!Requests
<1>3. /\ Cardinality(Members!Requests) \in Nat /\ Cardinality(Members!Requests') \in Nat
      /\ Cardinality(Members!Requests) <= Cardinality(Members!Requests')
  BY <1>1, <1>2, PeopleFinite, FS_Subset, FS_CardinalityType
<1>4. MemberPage \in Nat
  BY DEF Members!ConstantsOK
<1>5. Cardinality(Members!Requests') < MemberPage => Cardinality(Members!Requests) < MemberPage
  BY <1>3, <1>4
<1>6. QED
  BY <1>5 DEF Current, FounderSearched

\* The page the server answers is current: without a page of requests before it,
\* the founder's row is on it.
LEMMA PageCurrent ==
  ASSUME Members!ConstantsOK, MemberTypes, NEW q \in Members!Searches
  PROVE  Members!Page(q) \in Members!Rows /\ Current(q, Members!Page(q))
<1> DEFINE others == {<<p, row[p]>> : p \in {m \in People : Members!Live(m) /\ Members!Listed(m, q)}}
           founder == IF Members!Listed(Founder, q) THEN {<<Founder, "active">>} ELSE {}
<1>1. Members!Page(q) = others \cup founder
  BY DEF Members!Page
<1>2. others \subseteq (People \cup {Founder}) \X Members!Statuses
  BY DEF Members!Live
<1>3. founder \subseteq (People \cup {Founder}) \X Members!Statuses
  BY DEF Members!Statuses
<1>4. Members!Page(q) \in Members!Rows
  BY <1>1, <1>2, <1>3 DEF Members!Rows
<1>5. ASSUME NEW p \in People, <<p, "pending">> \in Members!Page(q) PROVE row[p] = "pending"
  <2>1. <<p, "pending">> \notin founder
    BY DEF Members!ConstantsOK
  <2>2. QED
    BY <1>1, <1>5, <2>1
<1>6. ASSUME FounderSearched(q), Cardinality(Members!Requests) < MemberPage
      PROVE  <<Founder, "active">> \in Members!Page(q)
  <2>1. Members!Ahead(Founder, q) \subseteq Members!Requests
    BY <1>6 DEF Members!Ahead, Members!Requests
  <2>2. Members!Requests \subseteq People
    BY DEF Members!Requests
  <2>3. /\ Cardinality(Members!Ahead(Founder, q)) \in Nat /\ Cardinality(Members!Requests) \in Nat
        /\ Cardinality(Members!Ahead(Founder, q)) <= Cardinality(Members!Requests)
    BY <2>1, <2>2, PeopleFinite, FS_Subset, FS_CardinalityType
  <2>4. MemberPage \in Nat
    BY DEF Members!ConstantsOK
  <2>5. Members!Rank(Founder, q) = Cardinality(Members!Ahead(Founder, q))
    BY <2>3, MembersCardinality DEF Members!Rank
  <2>6. Members!Matches(Founder, q)
    BY <1>6 DEF FounderSearched, Members!Matches
  <2>7. Members!Listed(Founder, q)
    BY <1>6, <2>3, <2>4, <2>5, <2>6 DEF Members!Listed
  <2>8. QED
    BY <1>1, <2>7
<1>7. QED
  BY <1>4, <1>5, <1>6 DEF Current

ListingType ==
  [known : BOOLEAN, has : Members!Rows, st : {"idle", "asked", "served"}, rows : Members!Rows]
RulingType ==
  [st : {"none", "sent", "read", "decided", "done"}, who : People \cup {None},
   says : Members!Verdicts, before : Members!Statuses \cup {"none"},
   saw : Members!Statuses \cup {"none"}, blind : BOOLEAN]

\* A query nothing is known of, and one that was answered.
LEMMA QueryShapes ==
  /\ {} \in Members!Rows
  /\ Members!Unread \in ListingType /\ Members!Unread.st = "idle"
  /\ \A those \in Members!Rows :
       /\ Members!Answered(those) \in ListingType
       /\ Members!Answered(those).st = "idle" /\ Members!Answered(those).known
<1>1. {} \in Members!Rows
  BY DEF Members!Rows
<1>2. QED
  BY <1>1 DEF Members!Unread, Members!Answered, ListingType

LEMMA MembersInit == ASSUME Members!ConstantsOK, Members!Init PROVE MembersInv
<1>1. /\ joins = [j \in JoinPages |-> [st |-> "shown", told |-> "none"]]
      /\ announced = [p \in People |-> {}] /\ rows = Members!Page(None)
      /\ listing = [q \in Members!Searches |->
                      IF q = None THEN Members!Answered(Members!Page(None)) ELSE Members!Unread]
      /\ row \in [People -> {"none", "active", "pending"}]
      /\ search = None /\ turned = {} /\ crowded = {} /\ contested = {} /\ elsewhere = {}
      /\ overtaken = {} /\ patchy = FALSE
  BY DEF Members!Init
<1>2. ruling = [st |-> "none", who |-> None, says |-> "none", before |-> "none",
                saw |-> "none", blind |-> FALSE]
  BY DEF Members!Init, Members!NoRuling
<1>3. row \in [People -> Members!Statuses \cup {"none", "deleted"}]
  BY <1>1 DEF Members!Statuses
<1>4. {<<p, row[p]>> : p \in {m \in People : Members!Live(m) /\ Members!Listed(m, None)}}
        \subseteq (People \cup {Founder}) \X Members!Statuses
  BY DEF Members!Live
<1>5. Members!Page(None) \in Members!Rows /\ None \in Members!Searches
  BY <1>4 DEF Members!Page, Members!Rows, Members!Statuses, Members!Searches
<1>6. MemberTypes
  <2>1. /\ announced \in [People -> SUBSET {"approved", "rejected"}]
        /\ joins \in [JoinPages -> [st : {"shown", "asked", "found none"},
                                    told : {"none", "sent", "pending", "member", "failed"}]]
    BY <1>1
  <2>2. listing \in [Members!Searches -> ListingType]
    BY <1>1, <1>5, QueryShapes
  <2>3. ruling \in RulingType
    BY <1>2 DEF Members!Verdicts, RulingType
  <2>4. QED
    BY <1>1, <1>3, <1>5, <2>1, <2>2, <2>3
       DEF MemberTypes, Members!TypeOK, ListingType, RulingType
<1>7. LockedInv /\ AnnouncedInv
  <2>1. \A j \in JoinPages : joins[j].st = "shown" /\ joins[j].told = "none"
    BY <1>1
  <2>2. \A p \in People : row[p] # "deleted" /\ announced[p] = {}
    BY <1>1
  <2>3. QED
    BY <1>2, <2>1, <2>2 DEF LockedInv, AnnouncedInv, Members!LockedOutNeedsRejection
<1>8. ListInv
  <2>1. \A q \in Members!Searches : listing[q].st = "idle"
    BY <1>1, <1>5, QueryShapes
  <2>2. listing[search].known
    BY <1>1, <1>5, QueryShapes
  <2>3. Current(search, rows)
    BY <1>1, <1>5, <1>6, PageCurrent
  <2>4. QED
    BY <1>2, <2>1, <2>2, <2>3 DEF ListInv, Members!HasData
<1>9. QED
  BY <1>6, <1>7, <1>8 DEF MembersInv

\* The rows and the queries stay, and the server's rows as far as they tell.
LEMMA SameLists ==
  ASSUME UNCHANGED <<row, rows, search, listing, elsewhere, overtaken, patchy>>
  PROVE  /\ \A q, shown : Current(q, shown)' <=> Current(q, shown)
         /\ Members!HasData(search)' <=> Members!HasData(search)
BY DEF Current, Members!Requests, Members!HasData

\* Pages of the invitation that ask, look for a membership, or start again.
LEMMA JoinStep ==
  ASSUME Members!ConstantsOK, MembersInv, NEW j \in JoinPages,
         Members!handleJoin(j) \/ Members!FindMembership(j) \/ Members!Reload(j)
  PROVE  MembersInv'
<1>1. UNCHANGED <<row, announced, rows, search, listing, ruling, turned, contested, elsewhere,
                  overtaken, patchy>>
  BY DEF Members!handleJoin, Members!FindMembership, Members!Reload
<1>2. VisitorOf[j] \in People
  BY DEF Members!ConstantsOK
<1>3. PICK card \in [st : {"shown", "asked", "found none"},
                    told : {"none", "sent", "pending", "member", "failed"}] :
        joins' = [joins EXCEPT ![j] = card]
  <2>1. CASE Members!handleJoin(j)
    BY <2>1 DEF Members!handleJoin
  <2>2. CASE Members!FindMembership(j)
    <3>1. CASE ~Members!Live(VisitorOf[j])
      BY <2>2, <3>1 DEF Members!FindMembership
    <3>2. CASE Members!Live(VisitorOf[j]) /\ row[VisitorOf[j]] = "pending"
      BY <2>2, <3>2 DEF Members!FindMembership
    <3>3. CASE Members!Live(VisitorOf[j]) /\ row[VisitorOf[j]] # "pending"
      BY <2>2, <3>3 DEF Members!FindMembership
    <3>4. QED
      BY <3>1, <3>2, <3>3
  <2>3. CASE Members!Reload(j)
    <3>1. joins' = [joins EXCEPT ![j] = [joins[j] EXCEPT !.told = "none"]]
      BY <2>3 DEF Members!Reload
    <3>2. joins[j] \in [st : {"shown", "asked", "found none"},
                        told : {"none", "sent", "pending", "member", "failed"}]
      BY DEF MembersInv, MemberTypes, Members!TypeOK
    <3>3. [joins[j] EXCEPT !.told = "none"] \in
            [st : {"shown", "asked", "found none"},
             told : {"none", "sent", "pending", "member", "failed"}]
      BY <3>2
    <3>4. QED
      BY <3>1, <3>3
  <2>4. QED
    BY <2>1, <2>2, <2>3
<1>4. /\ joins'[j] = card
      /\ \A i \in JoinPages : i # j => joins'[i] = joins[i]
  BY <1>3 DEF MembersInv, MemberTypes, Members!TypeOK
<1>5. /\ crowded' \subseteq People /\ crowded \subseteq crowded'
      /\ joins[j].st = "shown" /\ card.st # "shown" =>
           \A i \in JoinPages : i # j /\ VisitorOf[i] = VisitorOf[j] /\ joins[i].st # "shown" =>
             VisitorOf[j] \in crowded'
  <2>1. CASE Members!handleJoin(j)
    BY <1>2, <2>1 DEF MembersInv, MemberTypes, Members!TypeOK, Members!handleJoin
  <2>2. CASE Members!FindMembership(j)
    BY <2>2 DEF MembersInv, MemberTypes, Members!TypeOK, Members!FindMembership
  <2>3. CASE Members!Reload(j)
    <3>1. crowded' = crowded /\ joins[j].st = "shown" /\ joins'[j] = [joins[j] EXCEPT !.told = "none"]
      BY <2>3 DEF MembersInv, MemberTypes, Members!TypeOK, Members!Reload
    <3>2. card.st = "shown"
      <4>1. joins[j] \in [st : {"shown", "asked", "found none"},
                          told : {"none", "sent", "pending", "member", "failed"}]
        BY DEF MembersInv, MemberTypes, Members!TypeOK
      <4>2. QED
        BY <1>4, <3>1, <4>1
    <3>3. QED
      BY <3>1, <3>2 DEF MembersInv, MemberTypes, Members!TypeOK
  <2>4. QED
    BY <2>1, <2>2, <2>3
<1>6. /\ card.told # "failed"
      /\ card.st = "found none" => ~Members!Live(VisitorOf[j])
  <2>1. CASE Members!handleJoin(j)
    BY <1>4, <2>1 DEF MembersInv, MemberTypes, Members!TypeOK, Members!handleJoin
  <2>2. CASE Members!FindMembership(j)
    BY <1>4, <2>2 DEF MembersInv, MemberTypes, Members!TypeOK, Members!FindMembership
  <2>3. CASE Members!Reload(j)
    BY <1>4, <2>3 DEF MembersInv, MemberTypes, Members!TypeOK, Members!Reload
  <2>4. QED
    BY <2>1, <2>2, <2>3
<1>7. MemberTypes'
  BY <1>1, <1>3, <1>5 DEF MembersInv, MemberTypes, Members!TypeOK
<1>8. LockedInv'
  <2>1. row[VisitorOf[j]] \in Members!Statuses \cup {"none", "deleted"}
    BY <1>2 DEF MembersInv, MemberTypes, Members!TypeOK
  <2>2. card.st = "found none" => row[VisitorOf[j]] = "none" \/ VisitorOf[j] \in turned
    BY <1>2, <1>6, <2>1 DEF MembersInv, LockedInv, Members!Live
  <2>3. ASSUME NEW i \in JoinPages, NEW k \in JoinPages, i # k, VisitorOf[i] = VisitorOf[k],
               joins'[i].st # "shown", joins'[k].st # "shown"
        PROVE  VisitorOf[k] \in crowded'
    <3>1. CASE i # j /\ k # j
      BY <1>4, <1>5, <2>3, <3>1 DEF MembersInv, LockedInv
    <3>2. CASE i = j \/ k = j
      BY <1>4, <1>5, <2>3, <3>2 DEF MembersInv, LockedInv
    <3>3. QED
      BY <3>1, <3>2
  <2>4. QED
    BY <1>1, <1>4, <1>5, <1>6, <2>2, <2>3
       DEF MembersInv, LockedInv, Members!LockedOutNeedsRejection
<1>9. AnnouncedInv' /\ ListInv'
  BY <1>1 DEF MembersInv, AnnouncedInv, ListInv, Current, Members!Requests, Members!HasData
<1>10. QED
  BY <1>7, <1>8, <1>9 DEF MembersInv

\* A membership is made where there was none; without one the row is a rejected
\* one, or one another page of the same person made.
LEMMA InsertStep ==
  ASSUME Members!ConstantsOK, MembersInv, NEW j \in JoinPages, Members!InsertMembership(j)
  PROVE  MembersInv'
<1> DEFINE p == VisitorOf[j]
           card == [st |-> "shown", told |-> IF row[p] = "none" THEN "sent" ELSE "failed"]
<1>1. /\ joins[j].st = "found none" /\ p \in People
      /\ row' = IF row[p] = "none" THEN [row EXCEPT ![p] = "pending"] ELSE row
      /\ joins' = [joins EXCEPT ![j] = card]
      /\ UNCHANGED <<announced, rows, search, listing, ruling, turned, crowded, contested,
                     elsewhere, overtaken, patchy>>
  BY DEF Members!InsertMembership, Members!ConstantsOK
<1>2. /\ joins'[j].st = "shown"
      /\ joins'[j].told = "failed" => row[p] # "none"
      /\ joins' \in [JoinPages -> [st : {"shown", "asked", "found none"},
                                    told : {"none", "sent", "pending", "member", "failed"}]]
      /\ \A i \in JoinPages : i # j => joins'[i] = joins[i]
  BY <1>1 DEF MembersInv, MemberTypes, Members!TypeOK
<1> HIDE DEF card
<1>3. /\ row' \in [People -> Members!Statuses \cup {"none", "deleted"}]
      /\ \A q \in People : row'[q] = row[q] \/ (q = p /\ row[q] = "none" /\ row'[q] = "pending")
  BY <1>1 DEF MembersInv, MemberTypes, Members!TypeOK, Members!Statuses
<1>4. MemberTypes'
  BY <1>1, <1>2, <1>3 DEF MembersInv, MemberTypes, Members!TypeOK
<1>5. LockedInv'
  <2>1. row[p] # "none" => p \in turned \cup crowded
    BY <1>1 DEF MembersInv, LockedInv
  <2>2. ASSUME NEW i \in JoinPages, joins'[i].st = "found none"
        PROVE  row'[VisitorOf[i]] = "none" \/ VisitorOf[i] \in turned \cup crowded
    <3>1. i # j /\ joins[i].st = "found none" /\ VisitorOf[i] \in People
      <4>1. i # j
        BY <1>2, <2>2
      <4>2. QED
        BY <1>2, <2>2, <4>1 DEF Members!ConstantsOK
    <3>2. VisitorOf[i] = p => p \in crowded
      BY <1>1, <3>1 DEF MembersInv, LockedInv
    <3>3. QED
      BY <1>3, <3>1, <3>2 DEF MembersInv, LockedInv
  <2>3. \A i \in JoinPages : joins'[i].told = "failed" => VisitorOf[i] \in turned \cup crowded
    BY <1>1, <1>2, <2>1 DEF MembersInv, LockedInv, Members!LockedOutNeedsRejection
  <2>4. /\ \A q \in People : row'[q] = "deleted" => q \in turned
        /\ \A i \in JoinPages : joins'[i].st # "shown" => joins[i].st # "shown"
    BY <1>2, <1>3 DEF MembersInv, LockedInv
  <2>5. QED
    BY <1>1, <2>2, <2>3, <2>4 DEF MembersInv, LockedInv, Members!LockedOutNeedsRejection
<1>6. AnnouncedInv'
  BY <1>1, <1>3 DEF MembersInv, AnnouncedInv
<1>7. ListInv'
  <2>1. \A q \in People : row[q] = "pending" => row'[q] = "pending"
    BY <1>3
  <2>2. ASSUME NEW s, NEW shown, Current(s, shown)
        PROVE  /\ \A q \in People :
                    q \notin elsewhere' /\ <<q, "pending">> \in shown => row'[q] = "pending"
               /\ elsewhere' = {} /\ FounderSearched(s)
                  /\ Cardinality(Members!Requests') < MemberPage => <<Founder, "active">> \in shown
    BY <1>1, <1>4, <2>1, <2>2, MoreRequests DEF MembersInv
  <2>3. /\ ~patchy => \A q \in Members!Searches :
             q \notin overtaken /\ listing[q].st = "served" => Current(q, listing[q].rows)'
        /\ ~patchy /\ listing[search].st = "idle" =>
             /\ Members!HasData(search)'
             /\ ruling.st # "done" /\ search \notin overtaken => Current(search, rows)'
    BY <1>1, <2>2 DEF MembersInv, ListInv, Current, Members!HasData
  <2>4. ruling.st # "none" => ruling.who \in People
    BY DEF MembersInv, ListInv
  <2>5. row[ruling.who] = "pending" /\ ruling.who \in People => row'[ruling.who] = "pending"
    BY <2>1
  <2>6. QED
    BY <1>1, <2>3, <2>4, <2>5 DEF MembersInv, ListInv
<1>8. QED
  BY <1>4, <1>5, <1>6, <1>7 DEF MembersInv

\* A list is asked for, answered, received, or not to be had.
LEMMA ListStep ==
  ASSUME Members!ConstantsOK, MembersInv, NEW q \in Members!Searches,
         \/ Members!setKeyword(q) \/ Members!ServeList(q) \/ Members!ReceiveList(q)
         \/ Members!ListFails(q)
  PROVE  MembersInv'
<1>1. UNCHANGED <<row, joins, announced, ruling, turned, crowded, contested, elsewhere>>
  BY DEF Members!setKeyword, Members!ServeList, Members!ReceiveList, Members!ListFails
<1>2. LockedInv' /\ AnnouncedInv'
  BY <1>1 DEF MembersInv, LockedInv, AnnouncedInv, Members!LockedOutNeedsRejection
<1>3. /\ listing \in [Members!Searches -> ListingType] /\ search \in Members!Searches
      /\ rows \in Members!Rows /\ overtaken \subseteq Members!Searches
  BY DEF MembersInv, MemberTypes, Members!TypeOK, ListingType
<1>4. \A s, shown : Current(s, shown)' <=> Current(s, shown)
  BY <1>1 DEF Current, Members!Requests
<1>5. ASSUME listing' \in [Members!Searches -> ListingType], search' \in Members!Searches,
             rows' \in Members!Rows, overtaken' \subseteq Members!Searches, patchy' \in BOOLEAN
      PROVE  MemberTypes'
  BY <1>1, <1>5 DEF MembersInv, MemberTypes, Members!TypeOK, ListingType
<1>6. CASE Members!setKeyword(q)
  <2>1. /\ search' = q /\ UNCHANGED <<overtaken, patchy>>
        /\ rows' = IF Members!HasData(q) THEN listing[q].has ELSE rows
        /\ listing' = IF Members!Reading(q) THEN listing ELSE [listing EXCEPT ![q].st = "asked"]
    BY <1>6 DEF Members!setKeyword
  <2>2. /\ listing' \in [Members!Searches -> ListingType]
        /\ listing'[q].st # "idle"
        /\ \A s \in Members!Searches : listing'[s].st = "served" => listing'[s] = listing[s]
    <3>1. CASE Members!Reading(q)
      BY <1>3, <2>1, <3>1 DEF Members!Reading
    <3>2. CASE ~Members!Reading(q)
      BY <1>3, <2>1, <3>2 DEF ListingType
    <3>3. QED
      BY <3>1, <3>2
  <2>3. rows' \in Members!Rows /\ patchy' \in BOOLEAN
    BY <1>3, <2>1 DEF ListingType, MembersInv, MemberTypes, Members!TypeOK
  <2>4. MemberTypes'
    BY <1>3, <1>5, <2>1, <2>2, <2>3
  <2>5. ListInv'
    BY <1>1, <1>4, <2>1, <2>2 DEF MembersInv, ListInv
  <2>6. QED
    BY <1>2, <2>4, <2>5 DEF MembersInv
<1>7. CASE Members!ServeList(q)
  <2>1. /\ listing' = [listing EXCEPT ![q].st = "served", ![q].rows = Members!Page(q)]
        /\ overtaken' = overtaken \ {q} /\ listing[q].st = "asked"
        /\ UNCHANGED <<rows, search, patchy>>
    BY <1>7 DEF Members!ServeList
  <2>2. Members!Page(q) \in Members!Rows /\ Current(q, Members!Page(q))
    BY PageCurrent DEF MembersInv
  <2>3. /\ listing' \in [Members!Searches -> ListingType]
        /\ listing'[q].st = "served" /\ listing'[q].rows = Members!Page(q)
        /\ \A s \in Members!Searches : s # q => listing'[s] = listing[s]
    BY <1>3, <2>1, <2>2 DEF ListingType
  <2>4. MemberTypes'
    BY <1>3, <1>5, <2>1, <2>3 DEF MembersInv, MemberTypes, Members!TypeOK
  <2>5. \A s \in Members!Searches :
          ~patchy /\ s \notin overtaken' /\ listing'[s].st = "served" => Current(s, listing'[s].rows)
    BY <2>1, <2>2, <2>3 DEF MembersInv, ListInv
  <2>6. listing'[search].st = "idle" => search # q /\ listing'[search] = listing[search]
    BY <1>3, <2>3
  <2>7. ListInv'
    BY <1>1, <1>4, <2>1, <2>5, <2>6 DEF MembersInv, ListInv, Members!HasData
  <2>8. QED
    BY <1>2, <2>4, <2>7 DEF MembersInv
<1>8. CASE Members!ReceiveList(q)
  <2>1. /\ listing[q].st = "served" /\ rows' = IF q = search THEN listing[q].rows ELSE rows
        /\ listing' = [listing EXCEPT ![q] = Members!Answered(listing[q].rows)]
        /\ UNCHANGED <<search, overtaken, patchy>>
    BY <1>8 DEF Members!ReceiveList
  <2>2. listing[q].rows \in Members!Rows
    BY <1>3 DEF ListingType
  <2>3. /\ listing' \in [Members!Searches -> ListingType]
        /\ listing'[q].st = "idle" /\ listing'[q].known
        /\ \A s \in Members!Searches : s # q => listing'[s] = listing[s]
    BY <1>3, <2>1, <2>2, QueryShapes
  <2>4. MemberTypes'
    BY <1>3, <1>5, <2>1, <2>2, <2>3 DEF MembersInv, MemberTypes, Members!TypeOK
  <2>5. \A s \in Members!Searches : listing'[s].st = "served" => listing'[s] = listing[s]
    BY <2>3
  <2>6. ASSUME q = search PROVE ListInv'
    BY <1>1, <1>4, <2>1, <2>3, <2>5, <2>6 DEF MembersInv, ListInv, Members!HasData
  <2>7. ASSUME q # search PROVE ListInv'
    <3>1. listing'[search] = listing[search] /\ rows' = rows
      BY <1>3, <2>1, <2>3, <2>7
    <3>2. QED
      BY <1>1, <1>4, <2>1, <2>5, <3>1 DEF MembersInv, ListInv, Members!HasData
  <2>8. ListInv'
    BY <2>6, <2>7
  <2>9. QED
    BY <1>2, <2>4, <2>8 DEF MembersInv
<1>9. CASE Members!ListFails(q)
  <2>1. /\ listing' = [listing EXCEPT ![q].st = "idle", ![q].rows = {}]
        /\ patchy' = TRUE /\ UNCHANGED <<search, rows, overtaken>>
    BY <1>9 DEF Members!ListFails
  <2>2. listing' \in [Members!Searches -> ListingType]
    BY <1>3, <2>1, QueryShapes DEF ListingType
  <2>3. MemberTypes'
    BY <1>3, <1>5, <2>1, <2>2
  <2>4. ListInv'
    BY <1>1, <2>1 DEF MembersInv, ListInv
  <2>5. QED
    BY <1>2, <2>3, <2>4 DEF MembersInv
<1>10. QED
  BY <1>6, <1>7, <1>8, <1>9

\* A button of a row on screen: only a request is offered to be rejected.
LEMMA PressStep ==
  ASSUME Members!ConstantsOK, MembersInv, NEW p \in People, NEW status \in Members!Statuses,
         NEW says \in {"approve", "reject", "enable", "disable"}, Members!Press(p, status, says)
  PROVE  MembersInv'
<1>1. /\ <<p, status>> \in Members!OnScreen /\ says \in Members!Offered(status)
      /\ ruling = Members!NoRuling
      /\ ruling' = [st |-> "sent", who |-> p, says |-> says, before |-> "none",
                    saw |-> "none",
                    blind |-> (Members!Reading(search) \/ search \in overtaken)]
      /\ UNCHANGED <<row, joins, announced, rows, search, listing, turned, crowded, contested,
                     elsewhere, overtaken, patchy>>
  BY DEF Members!Press, Members!NoRuling
<1>2. MemberTypes'
  <2>1. (Members!Reading(search) \/ search \in overtaken) \in BOOLEAN
    BY DEF Members!Reading
  <2>2. ruling' \in RulingType
    BY <1>1, <2>1 DEF Members!Verdicts, RulingType
  <2>3. QED
    BY <1>1, <2>2 DEF MembersInv, MemberTypes, Members!TypeOK, RulingType
<1>3. LockedInv' /\ AnnouncedInv'
  BY <1>1 DEF MembersInv, LockedInv, AnnouncedInv, Members!LockedOutNeedsRejection
<1>4. ListInv'
  <2>1. ruling.st # "done" /\ ruling'.st = "sent"
    BY <1>1 DEF Members!NoRuling
  <2>2. /\ \A q, shown : Current(q, shown)' <=> Current(q, shown)
        /\ Members!HasData(search)' <=> Members!HasData(search)
    BY <1>1, SameLists
  <2>3. says = "reject" => <<p, "pending">> \in rows
    BY <1>1 DEF Members!Offered, Members!Statuses, Members!OnScreen
  <2>4. ~ruling'.blind => ~Members!Reading(search) /\ search \notin overtaken
    <3>1. ruling'.blind <=> (Members!Reading(search) \/ search \in overtaken)
      BY <1>1
    <3>2. QED
      BY <3>1
  <2>5. says = "reject" /\ ~ruling'.blind /\ ~patchy /\ p \notin elsewhere => row[p] = "pending"
    BY <2>1, <2>3, <2>4 DEF MembersInv, ListInv, Current, Members!Reading
  <2>6. ruling'.who = p /\ ruling'.says = says
    BY <1>1
  <2>7. QED
    BY <1>1, <2>1, <2>2, <2>5, <2>6 DEF MembersInv, ListInv
<1>5. QED
  BY <1>2, <1>3, <1>4 DEF MembersInv

\* The server reads the row twice: for the announcement, and to decide.
LEMMA ReadStep ==
  ASSUME Members!ConstantsOK, MembersInv, Members!ReadBefore \/ Members!ReadTarget
  PROVE  MembersInv'
<1>1. /\ ruling.st \in {"sent", "read"} /\ Members!Live(ruling.who) /\ ruling.who \in People
      /\ UNCHANGED <<row, joins, announced, rows, search, listing, turned, crowded, contested,
                     elsewhere, overtaken, patchy>>
  BY DEF Members!ReadBefore, Members!ReadTarget, MembersInv, ListInv
<1>2. /\ ruling' \in [st : {"none", "sent", "read", "decided", "done"}, who : People \cup {None},
                       says : Members!Verdicts, before : Members!Statuses \cup {"none"},
                       saw : Members!Statuses \cup {"none"}, blind : BOOLEAN]
      /\ ruling'.who = ruling.who /\ ruling'.says = ruling.says /\ ruling'.blind = ruling.blind
      /\ \/ ruling.st = "sent" /\ ruling'.st = "read" /\ ruling'.before = row[ruling.who]
         \/ /\ ruling.st = "read" /\ ruling'.st = "decided"
            /\ ruling'.saw = row[ruling.who] /\ ruling'.before = ruling.before
  BY <1>1
     DEF MembersInv, MemberTypes, Members!TypeOK, Members!ReadBefore, Members!ReadTarget,
         Members!Live
<1>3. MemberTypes'
  BY <1>1, <1>2 DEF MembersInv, MemberTypes, Members!TypeOK
<1>4. LockedInv' /\ AnnouncedInv'
  <2>1. LockedInv'
    BY <1>1 DEF MembersInv, LockedInv, Members!LockedOutNeedsRejection
  <2>2. ASSUME NEW p \in People, p \notin contested, ruling'.st \in {"read", "decided"},
               ruling'.who = p, ruling'.before = "pending"
        PROVE  row[p] = "pending" /\ (ruling'.st = "decided" => ruling'.saw = "pending")
    <3>1. CASE ruling.st = "sent"
      BY <1>2, <2>2, <3>1
    <3>2. CASE ruling.st = "read"
      <4>1. row[p] = "pending"
        BY <1>2, <2>2, <3>2 DEF MembersInv, AnnouncedInv
      <4>2. QED
        BY <1>2, <2>2, <3>2, <4>1
    <3>3. QED
      BY <1>1, <3>1, <3>2
  <2>3. AnnouncedInv'
    BY <1>1, <2>2 DEF MembersInv, AnnouncedInv
  <2>4. QED
    BY <2>1, <2>3
<1>5. ListInv'
  <2>1. /\ \A q, shown : Current(q, shown)' <=> Current(q, shown)
        /\ Members!HasData(search)' <=> Members!HasData(search)
    BY <1>1, SameLists
  <2>2. QED
    BY <1>1, <1>2, <2>1 DEF MembersInv, ListInv
<1>6. QED
  BY <1>3, <1>4, <1>5 DEF MembersInv

\* A decision on p: the row it saw, and what it makes of it.
LEMMA RuledRow ==
  ASSUME Members!ConstantsOK, MembersInv, NEW p \in People, NEW before, NEW saw,
         NEW admits \in BOOLEAN, Members!Decide(p, before, saw, admits)
  PROVE  /\ row' \in [People -> Members!Statuses \cup {"none", "deleted"}]
         /\ row' = [row EXCEPT ![p] = row'[p]]
         /\ row'[p] = row[p] \/ row'[p] \in {"deleted", "active", "disabled"}
         /\ row'[p] = "deleted" => row[p] = "deleted" \/ p \in turned'
         /\ ~admits /\ saw = "pending" => row'[p] = "deleted"
         /\ admits /\ saw = "pending" /\ row[p] = "pending" => row'[p] = "active"
         /\ turned' \subseteq People /\ turned \subseteq turned'
         /\ announced' \in [People -> SUBSET {"approved", "rejected"}]
         /\ \A q \in People : q # p => row'[q] = row[q] /\ announced'[q] = announced[q]
         /\ announced'[p] = announced[p] \cup Members!Announces(before, admits)
<1>1. /\ row' = [row EXCEPT ![p] = Members!Ruled(p, saw, admits)]
      /\ announced' = [announced EXCEPT ![p] = announced[p] \cup Members!Announces(before, admits)]
      /\ turned' = IF ~admits /\ saw = "pending" THEN turned \cup {p} ELSE turned
  BY DEF Members!Decide
<1>2. /\ row \in [People -> Members!Statuses \cup {"none", "deleted"}]
      /\ announced \in [People -> SUBSET {"approved", "rejected"}] /\ turned \subseteq People
  BY DEF MembersInv, MemberTypes, Members!TypeOK
<1>3. PICK ruled : ruled = Members!Ruled(p, saw, admits)
  OBVIOUS
<1>4. /\ ruled = row[p] \/ ruled \in {"deleted", "active", "disabled"}
      /\ ruled = "deleted" => row[p] = "deleted" \/ (~admits /\ saw = "pending")
      /\ ~admits /\ saw = "pending" => ruled = "deleted"
      /\ admits /\ saw = "pending" /\ row[p] = "pending" => ruled = "active"
  BY <1>3 DEF Members!Ruled, Members!Live, Members!Statuses
<1>5. ruled \in Members!Statuses \cup {"none", "deleted"}
  BY <1>2, <1>4 DEF Members!Statuses
<1>6. Members!Announces(before, admits) \in SUBSET {"approved", "rejected"}
  BY DEF Members!Announces
<1>7. row' = [row EXCEPT ![p] = ruled] /\ row'[p] = ruled
  BY <1>1, <1>2, <1>3
<1>8. /\ announced' \in [People -> SUBSET {"approved", "rejected"}]
      /\ announced'[p] = announced[p] \cup Members!Announces(before, admits)
      /\ \A q \in People : q # p => announced'[q] = announced[q]
  BY <1>1, <1>2, <1>6
<1>9. QED
  BY <1>1, <1>2, <1>4, <1>5, <1>7, <1>8

\* Whoever decides, rejected people are known, and an open request has had no
\* announcement; p is contested if the decision was taken on an older row.
LEMMA DecideStep ==
  ASSUME Members!ConstantsOK, MembersInv, NEW p \in People, NEW before, NEW saw,
         NEW admits \in BOOLEAN, Members!Decide(p, before, saw, admits),
         UNCHANGED <<joins, crowded>>, contested \subseteq contested',
         p \notin contested' /\ before = "pending" => row[p] = "pending" /\ saw = "pending",
         ruling'.who # p \/ ruling'.st \notin {"read", "decided"} \/ p \in contested',
         \/ ruling'.st \notin {"read", "decided"}
         \/ ruling' = ruling
  PROVE  LockedInv' /\ AnnouncedInv'
<1>1. LockedInv'
  <2>1. \A q \in People : row'[q] = "deleted" => q \in turned'
    BY RuledRow DEF MembersInv, LockedInv
  <2>2. \A q \in People : row[q] = "none" => row'[q] = "none" \/ q \in turned'
    <3>1. ASSUME row[p] = "none" PROVE row'[p] = "none" \/ p \in turned'
      BY <3>1 DEF Members!Decide, Members!Ruled, Members!Live, Members!Statuses, MembersInv,
                  MemberTypes, Members!TypeOK
    <3>2. QED
      BY <3>1, RuledRow
  <2>3. \A j \in JoinPages : VisitorOf[j] \in People
    BY DEF Members!ConstantsOK
  <2>4. turned \subseteq turned'
    BY RuledRow
  <2>5. QED
    BY <2>1, <2>2, <2>3, <2>4 DEF MembersInv, LockedInv, Members!LockedOutNeedsRejection
<1>2. ASSUME NEW q \in People, q \notin contested'
      PROVE  /\ row'[q] \in {"none", "pending"} => announced'[q] = {}
             /\ announced'[q] # {"approved", "rejected"}
             /\ ruling'.st \in {"read", "decided"} /\ ruling'.who = q
                /\ ruling'.before = "pending" =>
                  row'[q] = "pending" /\ (ruling'.st = "decided" => ruling'.saw = "pending")
  <2>1. CASE q # p
    BY <1>2, <2>1, RuledRow DEF MembersInv, AnnouncedInv
  <2>2. CASE q = p
    <3>1. /\ row[p] \in {"none", "pending"} => announced[p] = {}
          /\ announced[p] # {"approved", "rejected"}
      BY <1>2, <2>2 DEF MembersInv, AnnouncedInv
    <3>2. CASE before = "pending"
      <4>1. row[p] = "pending" /\ saw = "pending" /\ announced[p] = {}
        BY <1>2, <2>2, <3>1, <3>2
      <4>2. row'[p] \in {"deleted", "active"}
        BY <4>1, RuledRow
      <4>3. announced'[p] = {IF admits THEN "approved" ELSE "rejected"}
        BY <3>2, <4>1, RuledRow DEF Members!Announces
      <4>4. announced'[p] = {"approved"} \/ announced'[p] = {"rejected"}
        BY <4>3
      <4>5. QED
        BY <1>2, <2>2, <4>2, <4>4
    <3>3. CASE before # "pending"
      <4>1. announced'[p] = announced[p]
        BY <3>3, RuledRow DEF Members!Announces
      <4>2. row'[p] \in {"none", "pending"} => row'[p] = row[p]
        BY RuledRow
      <4>3. QED
        BY <1>2, <2>2, <3>1, <4>1, <4>2
    <3>4. QED
      BY <3>2, <3>3
  <2>3. QED
    BY <2>1, <2>2
<1>3. AnnouncedInv'
  BY <1>2 DEF AnnouncedInv
<1>4. QED
  BY <1>1, <1>3

LEMMA WriteStep ==
  ASSUME Members!ConstantsOK, MembersInv, Members!WriteRuling PROVE MembersInv'
<1> DEFINE p == ruling.who
<1>1. /\ ruling.st = "decided" /\ p \in People
      /\ Members!Decide(p, ruling.before, ruling.saw, Members!Admits(ruling.says))
      /\ ruling' = [ruling EXCEPT !.st = "done"]
      /\ overtaken' = overtaken \cup {q \in Members!Searches : listing[q].st = "served"}
      /\ UNCHANGED <<joins, rows, search, listing, crowded, contested, elsewhere, patchy>>
  BY DEF Members!WriteRuling, MembersInv, ListInv
<1>2. Members!Admits(ruling.says) \in BOOLEAN
  BY DEF Members!Admits
<1>3. PICK before, saw, admits :
        /\ before = ruling.before /\ saw = ruling.saw /\ admits = Members!Admits(ruling.says)
  OBVIOUS
<1>4. admits \in BOOLEAN /\ Members!Decide(p, before, saw, admits)
  BY <1>1, <1>2, <1>3
<1>5. /\ ruling'.st = "done" /\ ruling'.who = p
      /\ ruling' \in [st : {"none", "sent", "read", "decided", "done"}, who : People \cup {None},
                       says : Members!Verdicts, before : Members!Statuses \cup {"none"},
                       saw : Members!Statuses \cup {"none"}, blind : BOOLEAN]
  BY <1>1 DEF MembersInv, MemberTypes, Members!TypeOK
<1>6. p \notin contested /\ before = "pending" => row[p] = "pending" /\ saw = "pending"
  BY <1>1, <1>3 DEF MembersInv, AnnouncedInv
<1>7. LockedInv' /\ AnnouncedInv'
  BY <1>1, <1>4, <1>5, <1>6, DecideStep
<1>8. /\ row' \in [People -> Members!Statuses \cup {"none", "deleted"}]
       /\ announced' \in [People -> SUBSET {"approved", "rejected"}] /\ turned' \subseteq People
  BY <1>1, <1>4, RuledRow
<1>9. MemberTypes'
  BY <1>1, <1>5, <1>8 DEF MembersInv, MemberTypes, Members!TypeOK
<1>10. ListInv'
  BY <1>1, <1>5 DEF MembersInv, ListInv, Members!HasData
<1>11. QED
  BY <1>7, <1>9, <1>10 DEF MembersInv

\* Another administrator decides on the row as it is.
LEMMA OtherStep ==
  ASSUME Members!ConstantsOK, MembersInv, NEW p \in People, NEW admits \in BOOLEAN,
         Members!OtherDecides(p, admits)
  PROVE  MembersInv'
<1>1. /\ Members!Decide(p, row[p], row[p], admits)
      /\ elsewhere' = elsewhere \cup {p}
      /\ contested' = IF ruling.st \in {"read", "decided"} /\ ruling.who = p
                      THEN contested \cup {p} ELSE contested
      /\ UNCHANGED <<joins, rows, search, listing, ruling, crowded, overtaken, patchy>>
  BY DEF Members!OtherDecides
<1>2. PICK before : before = row[p] /\ Members!Decide(p, before, before, admits)
  BY <1>1
<1>3. /\ contested' \subseteq People /\ contested \subseteq contested'
      /\ elsewhere' \subseteq People /\ elsewhere \subseteq elsewhere' /\ p \in elsewhere'
      /\ ruling.who # p \/ ruling.st \notin {"read", "decided"} \/ p \in contested'
  BY <1>1 DEF MembersInv, MemberTypes, Members!TypeOK
<1>4. LockedInv' /\ AnnouncedInv'
  BY <1>1, <1>2, <1>3, DecideStep
<1>5. /\ row' \in [People -> Members!Statuses \cup {"none", "deleted"}]
      /\ announced' \in [People -> SUBSET {"approved", "rejected"}] /\ turned' \subseteq People
  BY <1>2, RuledRow
<1>6. MemberTypes'
  BY <1>1, <1>3, <1>5 DEF MembersInv, MemberTypes, Members!TypeOK
<1>7. \A q \in People : q # p => row'[q] = row[q]
  BY <1>2, RuledRow
<1>8. ListInv'
  <2>1. \A q, shown : Current(q, shown) => Current(q, shown)'
    BY <1>1, <1>3, <1>7 DEF Current
  <2>2. QED
    BY <1>1, <1>3, <1>7, <2>1 DEF MembersInv, ListInv, Members!HasData
<1>9. QED
  BY <1>4, <1>6, <1>8 DEF MembersInv

\* The call is answered, or fails.
LEMMA AnswerStep ==
  ASSUME Members!ConstantsOK, MembersInv, Members!Succeed \/ Members!RulingFails
  PROVE  MembersInv'
<1>1. /\ ruling' = Members!NoRuling
      /\ UNCHANGED <<row, joins, announced, rows, search, turned, crowded, contested, elsewhere,
                    overtaken>>
  BY DEF Members!Succeed, Members!RulingFails
<1>2. /\ Members!NoRuling \in
           [st : {"none", "sent", "read", "decided", "done"}, who : People \cup {None},
            says : Members!Verdicts, before : Members!Statuses \cup {"none"},
            saw : Members!Statuses \cup {"none"}, blind : BOOLEAN]
      /\ Members!NoRuling.st = "none"
  BY DEF Members!NoRuling, Members!Verdicts
<1>3. LockedInv' /\ AnnouncedInv'
  BY <1>1, <1>2 DEF MembersInv, LockedInv, AnnouncedInv, Members!LockedOutNeedsRejection
<1>4. CASE Members!Succeed
  <2>1. /\ UNCHANGED patchy /\ ruling.st = "done"
        /\ listing' = IF Members!HasData(search) \/ ~Members!Reading(search)
                      THEN [listing EXCEPT ![search].st = "asked", ![search].rows = {}] ELSE listing
    BY <1>4 DEF Members!Succeed
  <2>2. listing \in [Members!Searches -> ListingType] /\ search \in Members!Searches
    BY DEF MembersInv, MemberTypes, Members!TypeOK, ListingType
  <2>3. /\ listing' \in [Members!Searches -> ListingType] /\ listing'[search].st # "idle"
        /\ \A q \in Members!Searches : listing'[q].st = "served" => listing'[q] = listing[q]
    <3>1. CASE listing' = listing
      <4>1. Members!Reading(search) \/ listing'[search].st = "asked"
        BY <2>1, <2>2, <3>1
      <4>2. QED
        BY <2>2, <3>1, <4>1 DEF Members!Reading
    <3>2. CASE listing' = [listing EXCEPT ![search].st = "asked", ![search].rows = {}]
      BY <2>2, <3>2, QueryShapes DEF ListingType
    <3>3. QED
      BY <2>1, <3>1, <3>2
  <2>4. MemberTypes'
    BY <1>1, <1>2, <2>1, <2>3 DEF MembersInv, MemberTypes, Members!TypeOK, ListingType
  <2>5. \A q, shown : Current(q, shown)' <=> Current(q, shown)
    BY <1>1 DEF Current, Members!Requests
  <2>6. ListInv'
    BY <1>1, <1>2, <2>1, <2>3, <2>5 DEF MembersInv, ListInv
  <2>7. QED
    BY <1>3, <2>4, <2>6 DEF MembersInv
<1>5. CASE Members!RulingFails
  <2>1. /\ UNCHANGED listing
        /\ (ruling.st # "done" /\ UNCHANGED patchy) \/ patchy' = TRUE
    BY <1>5 DEF Members!RulingFails
  <2>2. MemberTypes'
    BY <1>1, <1>2, <2>1 DEF MembersInv, MemberTypes, Members!TypeOK
  <2>3. /\ \A q, shown : Current(q, shown)' <=> Current(q, shown)
        /\ Members!HasData(search)' <=> Members!HasData(search)
    BY <1>1, <2>1 DEF Current, Members!Requests, Members!HasData
  <2>4. ListInv'
    BY <1>1, <1>2, <2>1, <2>3 DEF MembersInv, ListInv
  <2>5. QED
    BY <1>3, <2>2, <2>4 DEF MembersInv
<1>6. QED
  BY <1>4, <1>5

LEMMA MembersNext ==
  ASSUME Members!ConstantsOK, MembersInv, [Members!Next]_(Members!memberVars)
  PROVE  MembersInv'
<1>1. CASE UNCHANGED Members!memberVars
  <2>1. UNCHANGED <<row, joins, announced, rows, search, listing, ruling, turned, crowded,
                    contested, elsewhere, overtaken, patchy>>
    BY <1>1 DEF Members!memberVars
  <2>2. MemberTypes'
    BY <2>1 DEF MembersInv, MemberTypes, Members!TypeOK
  <2>3. LockedInv' /\ AnnouncedInv'
    BY <2>1 DEF MembersInv, LockedInv, AnnouncedInv, Members!LockedOutNeedsRejection
  <2>4. /\ \A q, shown : Current(q, shown)' <=> Current(q, shown)
        /\ Members!HasData(search)' <=> Members!HasData(search)
    BY <2>1, SameLists
  <2>5. ListInv'
    BY <2>1, <2>4 DEF MembersInv, ListInv
  <2>6. QED
    BY <2>2, <2>3, <2>5 DEF MembersInv
<1>2. QED
  BY <1>1, JoinStep, InsertStep, ListStep, PressStep, ReadStep, WriteStep, OtherStep,
     AnswerStep
     DEF Members!Next

\* Memberships, the pages and the decisions keep their types.
THEOREM MembersTyped == ASSUME Members!ConstantsOK PROVE Members!Spec => []Members!TypeOK
<1>1. MembersInv => Members!TypeOK
  BY DEF MembersInv, MemberTypes
<1>2. QED
  BY <1>1, MembersInit, MembersNext, PTL DEF Members!Spec

\* A request meets one decision, of somebody who may decide, and only a rejected
\* person or one that asked twice at once is locked out; the founder may decide but
\* for what the property names.
THEOREM DecisionsOnce == ASSUME Members!ConstantsOK PROVE Members!Spec => []Members!DecisionsHold
<1>1. MembersInv => Members!DecisionsHold
  <2>1. MembersInv => Members!LockedOutNeedsRejection
    BY DEF MembersInv, LockedInv
  <2>2. ASSUME MembersInv, NEW p \in People, Members!Cardinality(announced[p]) > 1
        PROVE  p \in contested
    <3>1. announced[p] \in SUBSET {"approved", "rejected"}
      BY <2>2 DEF MembersInv, MemberTypes, Members!TypeOK
    <3>2. CASE announced[p] = {}
      BY <2>2, <3>2, MembersCardinality, FS_EmptySet
    <3>3. CASE announced[p] = {"approved"} \/ announced[p] = {"rejected"}
      <4>1. Cardinality(announced[p]) = 1
        BY <3>3, FS_Singleton
      <4>2. QED
        BY <2>2, <4>1, MembersCardinality
    <3>4. CASE announced[p] = {"approved", "rejected"}
      BY <2>2, <3>4 DEF MembersInv, AnnouncedInv
    <3>5. QED
      BY <3>1, <3>2, <3>3, <3>4
  <2>3. MembersInv => Members!FounderMayDecide
    <3>1. ASSUME MembersInv, ~Members!Reading(search), search \notin overtaken,
                 ruling = Members!NoRuling, ~patchy, elsewhere = {}, FounderSearched(search),
                 Members!Cardinality(Members!Requests) < MemberPage
          PROVE  <<Founder, "active">> \in Members!OnScreen
      <4>1. listing[search].st = "idle" /\ ruling.st # "done"
        BY <3>1 DEF Members!Reading, Members!NoRuling
      <4>2. Current(search, rows) /\ Members!HasData(search)
        BY <3>1, <4>1 DEF MembersInv, ListInv
      <4>3. QED
        BY <3>1, <4>2, MembersCardinality DEF Current, Members!OnScreen
    <3>2. QED
      BY <3>1 DEF Members!FounderMayDecide, Members!isAdmin, FounderSearched
  <2>4. QED
    BY <2>1, <2>2, <2>3 DEF Members!DecisionsHold, Members!OneDecisionAnnounced
<1>2. QED
  BY <1>1, MembersInit, MembersNext, PTL DEF Members!Spec

\* A rejection pressed here disables no member, unless the request was decided on
\* elsewhere, or the list was not up to date.
LEMMA RejectsRequests ==
  ASSUME Members!ConstantsOK, MembersInv, [Members!Next]_(Members!memberVars)
  PROVE  Members!RejectStep
<1> SUFFICES ASSUME NEW p \in People, ruling.st = "decided", ruling'.st = "done",
                    ruling.who = p, ruling.says = "reject", row'[p] = "disabled",
                    ~ruling.blind, ~patchy, p \notin elsewhere
             PROVE  FALSE
  BY DEF Members!RejectStep
<1>1. row[p] = "pending" /\ ruling.saw = "pending"
  BY DEF MembersInv, ListInv
<1>2. Members!WriteRuling
  <2>1. ruling' # ruling
    OBVIOUS
  <2>2. CASE Members!Succeed \/ Members!RulingFails
    BY <2>2 DEF Members!Succeed, Members!RulingFails, Members!NoRuling
  <2>3. CASE Members!ReadBefore \/ Members!ReadTarget
    BY <2>3 DEF Members!ReadBefore, Members!ReadTarget
  <2>4. CASE \E q \in People, status \in Members!Statuses,
                says \in {"approve", "reject", "enable", "disable"} : Members!Press(q, status, says)
    BY <2>4 DEF Members!Press, Members!NoRuling
  <2>5. QED
    BY <2>1, <2>2, <2>3, <2>4
       DEF Members!Next, Members!memberVars, Members!handleJoin, Members!FindMembership,
           Members!InsertMembership, Members!Reload, Members!setKeyword, Members!ServeList,
           Members!ReceiveList, Members!ListFails, Members!OtherDecides
<1>3. ~Members!Admits("reject")
  BY DEF Members!Admits
<1>4. PICK before, admits : before = ruling.before /\ admits = Members!Admits("reject")
  OBVIOUS
<1>5. Members!Decide(p, before, "pending", admits) /\ admits = FALSE
  <2>1. Members!Decide(ruling.who, ruling.before, ruling.saw, Members!Admits(ruling.says))
    BY <1>2 DEF Members!WriteRuling
  <2>2. QED
    BY <1>1, <1>3, <1>4, <2>1 DEF Members!Decide
<1>6. row'[p] = "deleted"
  BY <1>5, RuledRow
<1>7. QED
  BY <1>6

\* Rejecting a request never disables a member, unless it was decided on elsewhere
\* or the list was old.
THEOREM RejectionsDisableNobody ==
  ASSUME Members!ConstantsOK PROVE Members!Spec => [][Members!RejectStep]_(Members!memberVars)
<1>1. QED
  BY MembersInit, MembersNext, RejectsRequests, PTL DEF Members!Spec

---------------------------------------------------------------------------
(* InviteLink: the invitation of a workspace *)

Entry == [code : 0 .. MaxCodes, left : 0 .. Life]
Way == [to : Invite!Spaces, left : 0 .. Life]
InviteCall ==
  [st : {"idle", "asked", "missed", "keyed", "served"}, for : Invite!Spaces,
   code : 0 .. MaxCodes, old : BOOLEAN]
LinkType == [code : 0 .. MaxCodes, fresh : BOOLEAN]

InviteShape ==
  /\ codeOf \in [Workspaces -> Entry]
  /\ leadsTo \in [Invite!CodeNames -> Way]
  /\ minted \in 0 .. MaxCodes
  /\ invites \in [Invite!Callers -> InviteCall]
  /\ tokenOf \in Workspaces /\ named \in Workspaces /\ teamCall \in Invite!Spaces
  /\ opened \in BOOLEAN
  /\ link \in LinkType
  /\ aged \in BOOLEAN /\ torn \in BOOLEAN /\ rivals \in BOOLEAN /\ afar \in BOOLEAN

Working == {i \in Invite!Callers : invites[i].st # "idle"}
Coded == {i \in Invite!Callers : invites[i].st \in {"keyed", "served"}}
Keyed == {i \in Invite!Callers : invites[i].st = "keyed"}
Minting == {i \in Invite!Callers : invites[i].st \in {"missed", "keyed"}}

\* Calls are for workspaces, and every code that is anywhere was minted.
Known ==
  /\ \A i \in Working : invites[i].for \in Workspaces
  /\ \A i \in Coded : invites[i].code \in 1 .. minted
  /\ \A w \in Workspaces : codeOf[w].code <= minted
  /\ \A c \in Invite!CodeNames : leadsTo[c].to # None => c <= minted
  /\ link.code <= minted

\* Wherever a code is, it is there for the same workspace.
OwnedBy(c, w) ==
  /\ \A v \in Workspaces : codeOf[v].code = c => v = w
  /\ leadsTo[c].to \in {None, w}
  /\ \A i \in Coded : invites[i].code = c => invites[i].for = w
  /\ link.code = c => w = named \/ afar
Owned == \A c \in Invite!CodeNames : \E w \in Workspaces : OwnedBy(c, w)

\* A code that is being stored leads nowhere yet, and is stored by one call.
Pending ==
  /\ \A i \in Keyed : leadsTo[invites[i].code].to = None
  /\ \A i, j \in Keyed : invites[i].code = invites[j].code => i = j

\* The code of a workspace leads back to it for as many days, or is just being stored.
Stored ==
  ~torn =>
    \A w \in Workspaces :
      codeOf[w].code # 0 =>
        \/ /\ leadsTo[codeOf[w].code].to = w
           /\ leadsTo[codeOf[w].code].left = codeOf[w].left
        \/ Invite!BeingStored(codeOf[w].code) /\ codeOf[w].left = Life

\* Without rivals one call at a time makes a code, for a workspace that has none,
\* and what leads to a workspace is its code.
Alone ==
  ~torn /\ ~rivals =>
    /\ \A i, j \in Minting : i = j
    /\ \A i \in Invite!Callers : invites[i].st = "missed" => codeOf[invites[i].for].code = 0
    /\ \A i \in Keyed : codeOf[invites[i].for].code = invites[i].code
    /\ \A c \in Invite!CodeNames : leadsTo[c].to # None => codeOf[leadsTo[c].to].code = c

\* What the page has been told, and what it shows.
Reachable(c) == Invite!Works(c) \/ Invite!BeingStored(c)
Told ==
  /\ invites["page"].st = "served" =>
       Reachable(invites["page"].code) \/ torn \/ invites["page"].old
  /\ link.code # 0 => Reachable(link.code) \/ torn \/ aged

\* The page asks for the workspace it names.
Here ==
  ~afar =>
    /\ named = tokenOf
    /\ invites["page"].st # "idle" => invites["page"].for = named

LinkInv == InviteShape /\ Known /\ Owned /\ Pending /\ Stored /\ Alone /\ Told /\ Here

---------------------------------------------------------------------------
(* What the invariant says *)

LEMMA WorksFollows == LinkInv => Invite!LinkWorks
  BY DEF LinkInv, Told, Reachable, Invite!LinkWorks, Invite!Shown

LEMMA WorkspaceFollows == LinkInv => Invite!LinkOfWorkspace
<1> SUFFICES ASSUME LinkInv, Invite!Shown, Invite!Works(link.code)
             PROVE  leadsTo[link.code].to = named \/ afar
  BY DEF Invite!LinkOfWorkspace
<1>1. link.code \in Invite!CodeNames
  BY DEF LinkInv, InviteShape, LinkType, Invite!CodeNames, Invite!Shown
<1>2. PICK w \in Workspaces : OwnedBy(link.code, w)
  BY <1>1 DEF LinkInv, Owned
<1>3. QED
  BY <1>2 DEF OwnedBy, Invite!Works

\* The instance counts as this module does.
LEMMA SameCardinality == ASSUME NEW S PROVE Invite!Cardinality(S) = Cardinality(S)
  BY DEF Invite!Cardinality, Cardinality

LEMMA OneFollows == ASSUME Invite!ConstantsOK PROVE LinkInv => Invite!OneLiveLink
<1> SUFFICES ASSUME LinkInv, NEW w \in Workspaces, ~rivals, ~torn,
                    Cardinality({c \in Invite!CodeNames : leadsTo[c].to = w}) > 1
             PROVE  FALSE
  BY SameCardinality DEF Invite!OneLiveLink
<1> DEFINE S == {c \in Invite!CodeNames : leadsTo[c].to = w}
<1>1. w # None
  BY DEF Invite!ConstantsOK
<1>2. \A c \in S : c = codeOf[w].code
  BY <1>1 DEF LinkInv, Alone
<1>3. S = {} \/ S = {codeOf[w].code}
  BY <1>2
<1>4. Cardinality(S) = 0 \/ Cardinality(S) = 1
  BY <1>3, FS_EmptySet, FS_Singleton
<1>5. QED
  BY <1>4

---------------------------------------------------------------------------
(* The initial state *)

LEMMA EmptyShapes ==
  ASSUME Invite!ConstantsOK
  PROVE  /\ Invite!NoEntry \in Entry /\ Invite!NoWay \in Way /\ Invite!NoCall \in InviteCall /\ Invite!NoLink \in LinkType
         /\ Invite!NoEntry.code = 0 /\ Invite!NoEntry.left = 0 /\ Invite!NoWay.to = None /\ Invite!NoWay.left = 0
         /\ Invite!NoCall.st = "idle" /\ Invite!NoLink.code = 0
BY DEF Invite!ConstantsOK, Invite!NoEntry, Invite!NoWay, Invite!NoCall, Invite!NoLink, Entry,
   Way, InviteCall, LinkType, Invite!Spaces

LEMMA LinkInit == ASSUME Invite!ConstantsOK, Invite!Init PROVE LinkInv
<1>1. InviteShape
  <2>1. codeOf \in [Workspaces -> Entry] /\ leadsTo \in [Invite!CodeNames -> Way]
    BY EmptyShapes DEF Invite!Init
  <2>2. minted \in 0 .. MaxCodes
    BY DEF Invite!Init, Invite!ConstantsOK
  <2>3. invites \in [Invite!Callers -> InviteCall] /\ link \in LinkType
    BY EmptyShapes DEF Invite!Init
  <2>4. QED
    BY <2>1, <2>2, <2>3 DEF Invite!Init, InviteShape, Invite!Spaces
<1>2. /\ \A i \in Invite!Callers : invites[i].st = "idle"
      /\ \A w \in Workspaces : codeOf[w].code = 0
      /\ \A c \in Invite!CodeNames : leadsTo[c].to = None
      /\ link.code = 0 /\ minted = 0
      /\ Working = {} /\ Coded = {} /\ Keyed = {} /\ Minting = {}
  BY EmptyShapes DEF Invite!Init, Working, Coded, Keyed, Minting
<1>3. Known /\ Pending
  BY <1>2 DEF Known, Pending
<1>4. Owned
  <2>1. \A c \in Invite!CodeNames : OwnedBy(c, tokenOf)
    BY <1>2 DEF OwnedBy, Invite!CodeNames
  <2>2. QED
    BY <1>1, <2>1 DEF Owned, InviteShape
<1>5. Stored /\ Alone /\ Told /\ Here
  BY <1>2 DEF Stored, Alone, Told, Here, Invite!Init, Invite!Callers
<1>6. QED
  BY <1>1, <1>3, <1>4, <1>5 DEF LinkInv

---------------------------------------------------------------------------
(* Steps of the page and of the clock of its cache *)

\* The server's entries stay, a call goes on or makes room for another one, and
\* a call that is given up while it stores its code is noticed.
QuietCalls ==
  /\ UNCHANGED <<codeOf, leadsTo, minted, rivals>>
  /\ torn => torn'
  /\ \A i \in Invite!Callers : invites'[i] = invites[i] \/ invites'[i].st \in {"idle", "asked"}
  /\ \A i \in Invite!Callers : invites'[i].st # "idle" => invites'[i].for \in Workspaces
  /\ ~torn' => \A i \in Keyed : invites'[i] = invites[i]

LEMMA QuietServer ==
  ASSUME Invite!ConstantsOK, LinkInv, QuietCalls
  PROVE  /\ Pending' /\ Stored' /\ Alone'
         /\ Coded' \subseteq Coded
         /\ \A i \in Coded' : invites'[i] = invites[i]
         /\ ~torn' => \A c \in Invite!CodeNames : Reachable(c) => Reachable(c)'
<1>1. /\ Coded' \subseteq Coded /\ Keyed' \subseteq Keyed /\ Minting' \subseteq Minting
      /\ \A i \in Coded' \cup Keyed' \cup Minting' : invites'[i] = invites[i]
  BY DEF QuietCalls, Coded, Keyed, Minting
<1>2. Pending'
  BY <1>1 DEF QuietCalls, LinkInv, Pending
<1>3. ~torn' => \A c : Invite!BeingStored(c) => Invite!BeingStored(c)'
  BY DEF QuietCalls, Invite!BeingStored, Keyed
<1>4. Stored'
  BY <1>3 DEF QuietCalls, LinkInv, Stored
<1>5. Alone'
  BY <1>1 DEF QuietCalls, LinkInv, Alone, Minting
<1>6. ~torn' => \A c \in Invite!CodeNames : Reachable(c) => Reachable(c)'
  BY <1>3 DEF QuietCalls, Reachable, Invite!Works
<1>7. QED
  BY <1>1, <1>2, <1>4, <1>5, <1>6

\* The link, the names and what the page knows, where the link stays or goes.
LEMMA InviteQuietStep ==
  ASSUME Invite!ConstantsOK, LinkInv, QuietCalls, InviteShape',
         link'.code \in {0, link.code},
         link'.code # 0 => aged' = aged /\ (named' = named \/ afar') /\ (afar => afar'),
         invites'["page"].st = "served" => invites'["page"] = invites["page"],
         Here'
  PROVE  LinkInv'
<1>1. /\ Pending' /\ Stored' /\ Alone' /\ Coded' \subseteq Coded
      /\ \A i \in Coded' : invites'[i] = invites[i]
      /\ ~torn' => \A c \in Invite!CodeNames : Reachable(c) => Reachable(c)'
  BY QuietServer
<1>2. Known'
  BY <1>1 DEF LinkInv, Known, QuietCalls, Working, InviteShape
<1>3. Owned'
  <2>1. SUFFICES ASSUME NEW c \in Invite!CodeNames PROVE \E w \in Workspaces : OwnedBy(c, w)'
    BY DEF Owned
  <2>2. PICK w \in Workspaces : OwnedBy(c, w)
    BY DEF LinkInv, Owned
  <2>3. OwnedBy(c, w)'
    <3>1. link'.code = c => w = named' \/ afar'
      BY <2>2 DEF OwnedBy, Invite!CodeNames
    <3>2. \A i \in Coded' : invites'[i].code = c => invites'[i].for = w
      BY <1>1, <2>2 DEF OwnedBy
    <3>3. QED
      BY <2>2, <3>1, <3>2 DEF OwnedBy, QuietCalls
  <2>4. QED
    BY <2>3
<1>4. Told'
  <2>1. ASSUME invites'["page"].st = "served", ~torn', ~invites'["page"].old
        PROVE  Reachable(invites["page"].code)' 
    <3>1. /\ Reachable(invites["page"].code) /\ "page" \in Coded
          /\ invites'["page"] = invites["page"]
      BY <2>1 DEF LinkInv, Told, QuietCalls, Coded, Invite!Callers
    <3>2. invites["page"].code \in Invite!CodeNames
      BY <3>1 DEF LinkInv, Known, InviteShape, Invite!CodeNames, Invite!ConstantsOK
    <3>3. PICK c \in Invite!CodeNames : c = invites["page"].code
      BY <3>2
    <3>4. Reachable(c)'
      BY <1>1, <2>1, <3>1, <3>3
    <3>5. QED
      BY <3>1, <3>3, <3>4
  <2>2. ASSUME link'.code # 0, ~torn', ~aged' PROVE Reachable(link.code)'
    <3>1. link'.code = link.code /\ link.code \in Invite!CodeNames /\ Reachable(link.code)
      BY <2>2 DEF LinkInv, Told, QuietCalls, InviteShape, LinkType, Invite!CodeNames
    <3>2. PICK c \in Invite!CodeNames : c = link.code
      BY <3>1
    <3>3. Reachable(c)'
      BY <1>1, <2>2, <3>1, <3>2
    <3>4. QED
      BY <3>1, <3>2, <3>3
  <2>3. QED
    BY <2>1, <2>2 DEF Told
<1>5. QED
  BY <1>1, <1>2, <1>3, <1>4 DEF LinkInv
\* A call of a workspace that was just asked.
LEMMA AskedShape ==
  ASSUME Invite!ConstantsOK, NEW w \in Workspaces
  PROVE  /\ [Invite!NoCall EXCEPT !.st = "asked", !.for = w] \in InviteCall
         /\ [Invite!NoCall EXCEPT !.st = "asked", !.for = w].st = "asked"
         /\ [Invite!NoCall EXCEPT !.st = "asked", !.for = w].for = w
<1>1. w \in Invite!Spaces
  BY DEF Invite!Spaces
<1>2. [Invite!NoCall EXCEPT !.st = "asked"] \in InviteCall
  BY EmptyShapes DEF InviteCall
<1>3. [[Invite!NoCall EXCEPT !.st = "asked"] EXCEPT !.for = w] \in InviteCall
  BY <1>1, <1>2 DEF InviteCall
<1>4. [Invite!NoCall EXCEPT !.st = "asked", !.for = w]
        = [[Invite!NoCall EXCEPT !.st = "asked"] EXCEPT !.for = w]
  OBVIOUS
<1>5. QED
  BY <1>2, <1>3, <1>4, EmptyShapes DEF InviteCall

\* Calls as they are, or with one of them asked or gone.
LEMMA OneCallMoves ==
  ASSUME Invite!ConstantsOK, LinkInv, UNCHANGED <<codeOf, leadsTo, minted, rivals>>,
         torn => torn',
         \/ invites' = invites
         \/ \E i \in Invite!Callers, q \in InviteCall :
              /\ invites' = [invites EXCEPT ![i] = q]
              /\ q.st = "idle" \/ (q.st = "asked" /\ q.for \in Workspaces)
              /\ invites[i].st = "keyed" => torn'
  PROVE  QuietCalls /\ invites' \in [Invite!Callers -> InviteCall]
<1>1. /\ invites \in [Invite!Callers -> InviteCall]
      /\ \A i \in Invite!Callers : invites[i].st # "idle" => invites[i].for \in Workspaces
  BY DEF LinkInv, InviteShape, Known, Working
<1>2. CASE invites' = invites
  BY <1>1, <1>2 DEF QuietCalls
<1>3. CASE invites' # invites
  <2>1. PICK i \in Invite!Callers, q \in InviteCall :
          /\ invites' = [invites EXCEPT ![i] = q]
          /\ q.st = "idle" \/ (q.st = "asked" /\ q.for \in Workspaces)
          /\ invites[i].st = "keyed" => torn'
    BY <1>3
  <2>2. /\ invites' \in [Invite!Callers -> InviteCall] /\ invites'[i] = q
        /\ \A j \in Invite!Callers : j # i => invites'[j] = invites[j]
    BY <1>1, <2>1
  <2>3. QED
    BY <1>1, <2>1, <2>2 DEF QuietCalls, Keyed
<1>4. QED
  BY <1>2, <1>3

LEMMA InviteOtherStep ==
  ASSUME Invite!ConstantsOK, LinkInv, Invite!OtherAnswered \/ \E w \in Workspaces : Invite!OtherAsks(w)
  PROVE  LinkInv'
<1>1. UNCHANGED <<codeOf, leadsTo, minted, Invite!client, Invite!marks>>
  BY DEF Invite!OtherAnswered, Invite!OtherAsks, Invite!server
<1>2. PICK q \in InviteCall :
        /\ invites' = [invites EXCEPT !["other"] = q]
        /\ q.st = "idle" \/ (q.st = "asked" /\ q.for \in Workspaces)
        /\ invites["other"].st # "keyed"
  <2>1. CASE Invite!OtherAnswered
    BY <2>1, EmptyShapes DEF Invite!OtherAnswered
  <2>2. CASE \E w \in Workspaces : Invite!OtherAsks(w)
    <3>1. PICK w \in Workspaces : Invite!OtherAsks(w)
      BY <2>2
    <3>2. invites["other"].st = "idle"
      BY <3>1, EmptyShapes DEF Invite!OtherAsks
    <3>3. QED
      BY <3>1, <3>2, AskedShape DEF Invite!OtherAsks
  <2>3. QED
    BY <2>1, <2>2
<1>3. UNCHANGED <<torn, rivals, aged, afar, link, named, tokenOf, teamCall, opened>>
  BY <1>1 DEF Invite!client, Invite!marks
<1>4. QuietCalls /\ invites' \in [Invite!Callers -> InviteCall]
  <2>1. \E i \in Invite!Callers, p \in InviteCall :
          /\ invites' = [invites EXCEPT ![i] = p]
          /\ p.st = "idle" \/ (p.st = "asked" /\ p.for \in Workspaces)
          /\ invites[i].st = "keyed" => torn'
    BY <1>2 DEF Invite!Callers
  <2>2. QED
    BY <1>1, <1>3, <2>1, OneCallMoves
<1>5. invites'["page"] = invites["page"]
  BY <1>2 DEF LinkInv, InviteShape, Invite!Callers
<1>6. InviteShape' /\ Here'
  BY <1>1, <1>3, <1>4, <1>5 DEF LinkInv, InviteShape, Here
<1>7. QED
  BY <1>3, <1>4, <1>5, <1>6, InviteQuietStep DEF LinkInv, InviteShape, LinkType

LEMMA OpenDialogStep == ASSUME Invite!ConstantsOK, LinkInv, Invite!OpenDialog PROVE LinkInv'
<1>1. UNCHANGED <<codeOf, leadsTo, minted, tokenOf, named, teamCall, link, aged, torn, rivals, afar>>
  BY DEF Invite!OpenDialog, Invite!server, Invite!marks
<1>2. \/ invites' = invites
      \/ /\ invites' = [invites EXCEPT !["page"] = [Invite!NoCall EXCEPT !.st = "asked", !.for = tokenOf]]
         /\ tokenOf \in Workspaces
  BY DEF Invite!OpenDialog, Invite!Call, LinkInv, InviteShape
<1>3. \/ invites' = invites
      \/ \E i \in Invite!Callers, q \in InviteCall :
           /\ invites' = [invites EXCEPT ![i] = q]
           /\ q.st = "idle" \/ (q.st = "asked" /\ q.for \in Workspaces)
           /\ invites[i].st = "keyed" => torn'
  <2>1. CASE invites' = invites
    BY <2>1
  <2>2. CASE invites' # invites
    <3>1. invites["page"].st = "idle"
      BY <2>2, EmptyShapes DEF Invite!OpenDialog
    <3>2. QED
      BY <1>2, <2>2, <3>1, AskedShape DEF Invite!Callers
  <2>3. QED
    BY <2>1, <2>2
<1>4. QuietCalls /\ invites' \in [Invite!Callers -> InviteCall]
  BY <1>1, <1>3, OneCallMoves
<1>5. /\ invites'["page"].st = "served" => invites'["page"] = invites["page"]
      /\ Here'
  <2>1. CASE invites' = invites
    BY <1>1, <2>1 DEF LinkInv, Here
  <2>2. CASE invites' # invites
    <3>1. invites'["page"].st = "asked" /\ invites'["page"].for = tokenOf
      BY <1>2, <2>2, AskedShape DEF LinkInv, InviteShape, Invite!Callers
    <3>2. QED
      BY <1>1, <3>1 DEF LinkInv, Here
  <2>3. QED
    BY <2>1, <2>2
<1>6. InviteShape'
  BY <1>1, <1>4 DEF LinkInv, InviteShape, Invite!OpenDialog
<1>7. QED
  BY <1>1, <1>4, <1>5, <1>6, InviteQuietStep

LEMMA NamesStep ==
  ASSUME Invite!ConstantsOK, LinkInv,
         \/ Invite!CloseDialog \/ Invite!LinkGoesStale \/ Invite!SwitchFails \/ Invite!HeaderRefetched
         \/ \E w \in Workspaces : Invite!SwitchTeam(w) \/ Invite!SwitchElsewhere(w)
  PROVE  LinkInv'
<1>1. /\ UNCHANGED <<codeOf, leadsTo, minted, invites, aged, torn, rivals>>
      /\ link'.code = link.code /\ link' \in LinkType
  BY DEF Invite!CloseDialog, Invite!LinkGoesStale, Invite!SwitchFails, Invite!HeaderRefetched,
     Invite!SwitchTeam, Invite!SwitchElsewhere,
         Invite!server, Invite!marks, LinkInv, InviteShape, LinkType
<1>2. /\ tokenOf' \in Workspaces /\ named' \in Workspaces /\ teamCall' \in Invite!Spaces
      /\ opened' \in BOOLEAN /\ afar' \in BOOLEAN
  BY DEF Invite!CloseDialog, Invite!LinkGoesStale, Invite!SwitchFails, Invite!HeaderRefetched,
     Invite!SwitchTeam, Invite!SwitchElsewhere,
         Invite!marks, LinkInv, InviteShape, Invite!Spaces
<1>3. Here' /\ (named' = named \/ afar') /\ (afar => afar')
  BY DEF Invite!CloseDialog, Invite!LinkGoesStale, Invite!SwitchFails, Invite!HeaderRefetched,
     Invite!SwitchTeam, Invite!SwitchElsewhere,
         Invite!marks, LinkInv, Here
<1>4. QuietCalls
  BY <1>1, OneCallMoves
<1>5. InviteShape'
  BY <1>1, <1>2 DEF LinkInv, InviteShape
<1>6. QED
  BY <1>1, <1>3, <1>4, <1>5, InviteQuietStep

LEMMA GivenUpStep == ASSUME Invite!ConstantsOK, LinkInv, Invite!LinkFails \/ Invite!Switched PROVE LinkInv'
<1>1. /\ UNCHANGED <<codeOf, leadsTo, minted, rivals>>
      /\ invites' = [invites EXCEPT !["page"] = Invite!NoCall]
      /\ torn' = (torn \/ invites["page"].st = "keyed")
  BY DEF Invite!LinkFails, Invite!Switched, Invite!Broken, Invite!server
<1>2. QuietCalls /\ invites' \in [Invite!Callers -> InviteCall]
  <2>1. \E i \in Invite!Callers, q \in InviteCall :
          /\ invites' = [invites EXCEPT ![i] = q]
          /\ q.st = "idle" \/ (q.st = "asked" /\ q.for \in Workspaces)
          /\ invites[i].st = "keyed" => torn'
    BY <1>1, EmptyShapes DEF Invite!Callers
  <2>2. QED
    BY <1>1, <2>1, OneCallMoves
<1>3. invites'["page"].st = "idle"
  BY <1>1, EmptyShapes DEF LinkInv, InviteShape, Invite!Callers
<1>4. CASE Invite!LinkFails
  <2>1. UNCHANGED <<tokenOf, named, teamCall, opened, link, aged, afar>>
    BY <1>4 DEF Invite!LinkFails, Invite!client
  <2>2. InviteShape' /\ Here'
    BY <1>1, <1>2, <1>3, <2>1 DEF LinkInv, InviteShape, Here
  <2>3. QED
    BY <1>2, <1>3, <2>1, <2>2, InviteQuietStep
<1>5. CASE Invite!Switched
  <2>1. /\ link'.code = 0 /\ link' \in LinkType /\ named' = tokenOf'
        /\ tokenOf' \in Workspaces /\ teamCall' \in Invite!Spaces /\ opened' = FALSE
        /\ aged' = FALSE /\ afar' = FALSE
    BY <1>5, EmptyShapes DEF Invite!Switched, LinkInv, InviteShape, Invite!Spaces
  <2>2. InviteShape' /\ Here'
    BY <1>1, <1>2, <1>3, <2>1 DEF LinkInv, InviteShape, Here
  <2>3. QED
    BY <1>2, <1>3, <2>1, <2>2, InviteQuietStep
<1>6. QED
  BY <1>4, <1>5

---------------------------------------------------------------------------
(* The answer arrives *)

LEMMA InviteReceiveStep == ASSUME Invite!ConstantsOK, LinkInv, Invite!ReceiveLink PROVE LinkInv'
<1> DEFINE told == invites["page"]
<1>1. /\ UNCHANGED <<codeOf, leadsTo, minted, rivals, torn, tokenOf, named, teamCall, opened, afar>>
      /\ invites' = [invites EXCEPT !["page"] = Invite!NoCall]
      /\ told.st = "served" /\ told \in InviteCall /\ "page" \in Coded
  BY DEF Invite!ReceiveLink, Invite!server, LinkInv, InviteShape, Coded, Invite!Callers
<1>2. link' \in LinkType /\ link'.code = told.code /\ aged' = told.old /\ aged' \in BOOLEAN
  BY <1>1 DEF Invite!ReceiveLink, LinkType, InviteCall
<1>3. told.code \in Invite!CodeNames /\ told.code <= minted
  BY <1>1 DEF LinkInv, Known, InviteShape, Invite!CodeNames, Invite!ConstantsOK
<1>4. QuietCalls /\ invites' \in [Invite!Callers -> InviteCall]
  <2>1. \E i \in Invite!Callers, q \in InviteCall :
          /\ invites' = [invites EXCEPT ![i] = q]
          /\ q.st = "idle" \/ (q.st = "asked" /\ q.for \in Workspaces)
          /\ invites[i].st = "keyed" => torn'
    BY <1>1, EmptyShapes DEF Invite!Callers
  <2>2. QED
    BY <1>1, <2>1, OneCallMoves
<1>5. invites'["page"].st = "idle"
  BY <1>1, EmptyShapes DEF LinkInv, InviteShape, Invite!Callers
<1>6. /\ Pending' /\ Stored' /\ Alone' /\ Coded' \subseteq Coded
      /\ \A i \in Coded' : invites'[i] = invites[i]
      /\ ~torn' => \A c \in Invite!CodeNames : Reachable(c) => Reachable(c)'
  BY <1>4, QuietServer
<1>7. InviteShape' /\ Here'
  BY <1>1, <1>2, <1>4, <1>5 DEF LinkInv, InviteShape, Here
<1>8. Known'
  BY <1>1, <1>2, <1>3, <1>4, <1>6 DEF LinkInv, Known, QuietCalls, Working
<1>9. Owned'
  <2>1. SUFFICES ASSUME NEW c \in Invite!CodeNames PROVE \E w \in Workspaces : OwnedBy(c, w)'
    BY DEF Owned
  <2>2. PICK w \in Workspaces : OwnedBy(c, w)
    BY DEF LinkInv, Owned
  <2>3. link'.code = c => w = named' \/ afar'
    BY <1>1, <1>2, <2>2 DEF OwnedBy, LinkInv, Here
  <2>4. \A i \in Coded' : invites'[i].code = c => invites'[i].for = w
    BY <1>6, <2>2 DEF OwnedBy
  <2>5. OwnedBy(c, w)'
    BY <1>1, <2>2, <2>3, <2>4 DEF OwnedBy
  <2>6. QED
    BY <2>5
<1>10. Told'
  <2>1. PICK c \in Invite!CodeNames : c = told.code
    BY <1>3
  <2>2. Reachable(c) \/ torn \/ told.old
    BY <1>1, <2>1 DEF LinkInv, Told
  <2>3. Reachable(c)' \/ torn' \/ aged'
    BY <1>1, <1>2, <1>6, <2>2
  <2>4. QED
    BY <1>2, <1>5, <2>1, <2>3 DEF Told
<1>11. QED
  BY <1>6, <1>7, <1>8, <1>9, <1>10 DEF LinkInv

---------------------------------------------------------------------------
(* Steps of invite_code *)

\* What a handler leaves alone.
HandlerKeeps ==
  UNCHANGED <<tokenOf, named, teamCall, opened, link, aged, afar>>

\* One call moves to another state, for the same workspace.
Moves(i, st, code) ==
  /\ invites' \in [Invite!Callers -> InviteCall]
  /\ \A j \in Invite!Callers : j # i => invites'[j] = invites[j]
  /\ invites'[i].st = st /\ invites'[i].code = code
  /\ invites'[i].for = invites[i].for /\ invites'[i].old = invites[i].old
  /\ invites[i].for \in Workspaces

LEMMA HandlerHere ==
  ASSUME LinkInv, HandlerKeeps, NEW i \in Invite!Callers, NEW st, NEW code, Moves(i, st, code),
         invites[i].st # "idle"
  PROVE  Here'
<1>1. CASE i = "page"
  BY <1>1 DEF LinkInv, Here, HandlerKeeps, Moves
<1>2. CASE i # "page"
  BY <1>2 DEF LinkInv, Here, HandlerKeeps, Moves, Invite!Callers
<1>3. QED
  BY <1>1, <1>2

LEMMA InviteHitStep ==
  ASSUME Invite!ConstantsOK, LinkInv, HandlerKeeps, UNCHANGED <<codeOf, leadsTo, minted, torn, rivals>>,
         NEW i \in Invite!Callers, invites[i].st = "asked",
         codeOf[invites[i].for].code # 0,
         Moves(i, "served", codeOf[invites[i].for].code)
  PROVE  LinkInv'
<1> DEFINE w == invites[i].for
           code == codeOf[w].code
<1>1. /\ w \in Workspaces /\ code \in Invite!CodeNames /\ code <= minted
      /\ invites'[i].code = code /\ invites'[i].for = w
  BY DEF Moves, LinkInv, Known, InviteShape, Entry, Invite!CodeNames
<1>2. /\ Keyed' = Keyed /\ Minting' = Minting /\ Coded' = Coded \cup {i}
      /\ \A j \in Coded \cup Minting : j # i /\ invites'[j] = invites[j]
  BY DEF Moves, Keyed, Minting, Coded
<1>3. \A c : Invite!BeingStored(c)' <=> Invite!BeingStored(c)
  BY <1>2 DEF Invite!BeingStored, Keyed, Minting
<1>4. InviteShape' /\ Here'
  BY HandlerHere DEF LinkInv, InviteShape, HandlerKeeps, Moves
<1>5. Known'
  BY <1>1, <1>2 DEF LinkInv, Known, HandlerKeeps, Moves, Working, Invite!CodeNames
<1>6. Owned'
  <2>1. SUFFICES ASSUME NEW c \in Invite!CodeNames PROVE \E v \in Workspaces : OwnedBy(c, v)'
    BY DEF Owned
  <2>2. PICK v \in Workspaces : OwnedBy(c, v)
    BY DEF LinkInv, Owned
  <2>3. \A j \in Coded' : invites'[j].code = c => invites'[j].for = v
    BY <1>1, <1>2, <2>2 DEF OwnedBy
  <2>4. OwnedBy(c, v)'
    BY <2>2, <2>3 DEF OwnedBy, HandlerKeeps
  <2>5. QED
    BY <2>4
<1>7. Pending'
  BY <1>2 DEF LinkInv, Pending, Keyed, Coded
<1>8. Stored'
  BY <1>3 DEF LinkInv, Stored
<1>9. Alone'
  <2>1. \A j \in Invite!Callers : invites'[j].st = "missed" => invites'[j] = invites[j]
    BY DEF Moves
  <2>2. \A j \in Keyed' : invites'[j] = invites[j]
    BY <1>2 DEF Keyed, Minting
  <2>3. QED
    BY <1>2, <2>1, <2>2 DEF LinkInv, Alone
<1>10. Told'
  <2>1. \A c : Reachable(c)' <=> Reachable(c)
    BY <1>3 DEF Reachable, Invite!Works
  <2>2. Reachable(code) \/ torn
    BY <1>1 DEF LinkInv, Stored, Reachable, Invite!Works, Invite!ConstantsOK
  <2>3. invites'["page"].st = "served" =>
          Reachable(invites'["page"].code) \/ torn \/ invites'["page"].old
    <3>1. CASE i = "page"
      BY <1>1, <2>2, <3>1
    <3>2. CASE i # "page"
      BY <3>2 DEF Moves, Invite!Callers, LinkInv, Told
    <3>3. QED
      BY <3>1, <3>2
  <2>4. QED
    BY <2>1, <2>3 DEF LinkInv, Told, HandlerKeeps
<1>11. QED
  BY <1>4, <1>5, <1>6, <1>7, <1>8, <1>9, <1>10 DEF LinkInv

LEMMA InviteMissStep ==
  ASSUME Invite!ConstantsOK, LinkInv, HandlerKeeps, UNCHANGED <<codeOf, leadsTo, minted, torn>>,
         NEW i \in Invite!Callers, invites[i].st = "asked",
         Moves(i, "missed", invites[i].code),
         rivals' = \/ rivals \/ codeOf[invites[i].for].code # 0
                   \/ \E j \in Invite!Callers \ {i} : invites[j].st \in {"missed", "keyed"}
  PROVE  LinkInv'
<1>1. /\ Keyed' = Keyed /\ Minting' = Minting \cup {i} /\ Coded' = Coded
      /\ \A j \in Coded \cup Minting : j # i /\ invites'[j] = invites[j]
  BY DEF Moves, Keyed, Minting, Coded
<1>2. \A c : Invite!BeingStored(c)' <=> Invite!BeingStored(c)
  BY <1>1 DEF Invite!BeingStored, Keyed, Minting
<1>3. InviteShape' /\ Here'
  BY HandlerHere DEF LinkInv, InviteShape, HandlerKeeps, Moves
<1>4. Known'
  BY <1>1 DEF LinkInv, Known, HandlerKeeps, Moves, Working
<1>5. Owned'
  <2>1. \A c, v : OwnedBy(c, v) => OwnedBy(c, v)'
    BY <1>1 DEF OwnedBy, HandlerKeeps
  <2>2. QED
    BY <2>1 DEF LinkInv, Owned
<1>6. Pending'
  BY <1>1 DEF LinkInv, Pending, Keyed, Coded
<1>7. Stored'
  BY <1>2 DEF LinkInv, Stored
<1>8. Alone'
  <2>1. SUFFICES ASSUME ~torn, ~rivals' PROVE Alone'
    BY DEF Alone
  <2>2. ~rivals /\ Minting = {} /\ codeOf[invites[i].for].code = 0
    BY <1>1, <2>1 DEF Minting
  <2>3. \A j \in Invite!Callers : invites'[j].st = "missed" => j = i
    BY <2>2 DEF Moves, Minting
  <2>4. Minting' = {i} /\ Keyed' = {}
    BY <1>1, <2>2 DEF Minting, Keyed
  <2>5. invites'[i].for = invites[i].for
    BY DEF Moves
  <2>6. \A j \in Invite!Callers : invites'[j].st = "missed" => codeOf[invites'[j].for].code = 0
    BY <2>2, <2>3, <2>5
  <2>7. \A c \in Invite!CodeNames : leadsTo[c].to # None => codeOf[leadsTo[c].to].code = c
    BY <2>1, <2>2 DEF LinkInv, Alone
  <2>8. QED
    BY <2>4, <2>6, <2>7 DEF Alone
<1>9. Told'
  <2>1. \A c : Reachable(c)' <=> Reachable(c)
    BY <1>2 DEF Reachable, Invite!Works
  <2>2. invites'["page"].st = "served" => invites'["page"] = invites["page"]
    BY DEF Moves, Invite!Callers
  <2>3. QED
    BY <2>1, <2>2 DEF LinkInv, Told, HandlerKeeps
<1>10. QED
  BY <1>3, <1>4, <1>5, <1>6, <1>7, <1>8, <1>9 DEF LinkInv

LEMMA LookUpStep ==
  ASSUME Invite!ConstantsOK, LinkInv, NEW i \in Invite!Callers, Invite!LookUp(i)
  PROVE  LinkInv'
<1> DEFINE record == codeOf[invites[i].for]
<1>1. /\ HandlerKeeps /\ UNCHANGED <<codeOf, leadsTo, minted, torn>>
      /\ invites[i].st = "asked" /\ invites[i] \in InviteCall
      /\ invites \in [Invite!Callers -> InviteCall]
  BY DEF Invite!LookUp, HandlerKeeps, Invite!server, Invite!client, LinkInv, InviteShape
<1>2. invites[i].for \in Workspaces /\ record \in Entry
  BY <1>1 DEF LinkInv, Known, InviteShape, Working
<1>3. \/ /\ record.code # 0
         /\ invites' = [invites EXCEPT ![i].st = "served", ![i].code = record.code]
         /\ rivals' = rivals
      \/ /\ invites' = [invites EXCEPT ![i].st = "missed"]
         /\ rivals' = \/ rivals \/ record.code # 0
                      \/ \E j \in Invite!Callers \ {i} : invites[j].st \in {"missed", "keyed"}
  BY DEF Invite!LookUp
<1>4. CASE record.code # 0 /\ rivals' = rivals
           /\ invites' = [invites EXCEPT ![i].st = "served", ![i].code = record.code]
  <2>1. Moves(i, "served", record.code)
    BY <1>1, <1>2, <1>4 DEF Moves, InviteCall, Entry
  <2>2. QED
    BY <1>1, <1>4, <2>1, InviteHitStep
<1>5. CASE /\ invites' = [invites EXCEPT ![i].st = "missed"]
           /\ rivals' = \/ rivals \/ record.code # 0
                        \/ \E j \in Invite!Callers \ {i} : invites[j].st \in {"missed", "keyed"}
  <2>1. Moves(i, "missed", invites[i].code)
    BY <1>1, <1>2, <1>5 DEF Moves, InviteCall
  <2>2. QED
    BY <1>1, <1>5, <2>1, InviteMissStep
<1>6. QED
  BY <1>3, <1>4, <1>5

LEMMA StoreCodeStep ==
  ASSUME Invite!ConstantsOK, LinkInv, NEW i \in Invite!Callers, Invite!StoreCode(i)
  PROVE  LinkInv'
<1>1. PICK w \in Workspaces, new \in Invite!CodeNames :
        w = invites[i].for /\ new = minted + 1 /\ w # None
  <2>1. invites[i].for \in Workspaces /\ minted + 1 \in Invite!CodeNames
    BY DEF Invite!StoreCode, LinkInv, Known, InviteShape, Working, Invite!CodeNames,
       Invite!ConstantsOK
  <2>2. QED
    BY <2>1 DEF Invite!ConstantsOK
<1>2. /\ HandlerKeeps /\ UNCHANGED <<leadsTo, rivals>>
      /\ invites[i].st = "missed" /\ invites[i] \in InviteCall
      /\ invites \in [Invite!Callers -> InviteCall]
      /\ minted' = new /\ new \in 1 .. MaxCodes /\ new \in 0 .. MaxCodes /\ Life \in 0 .. Life
      /\ invites' = [invites EXCEPT ![i].st = "keyed", ![i].code = new]
  BY <1>1 DEF Invite!StoreCode, Invite!WriteOrLose, HandlerKeeps, Invite!client, LinkInv,
     InviteShape, Invite!CodeNames, Invite!ConstantsOK
<1>3. Moves(i, "keyed", new)
  BY <1>1, <1>2 DEF Moves, InviteCall
<1>4. \/ codeOf' = [codeOf EXCEPT ![w] = [code |-> new, left |-> Life]] /\ torn' = torn
      \/ codeOf' = codeOf /\ torn' = TRUE
  BY <1>1 DEF Invite!StoreCode, Invite!WriteOrLose
<1>5. /\ codeOf' \in [Workspaces -> Entry] /\ torn' \in BOOLEAN
      /\ \A v \in Workspaces : v # w => codeOf'[v] = codeOf[v]
      /\ codeOf'[w].code \in {codeOf[w].code, new}
      /\ ~torn' => ~torn /\ codeOf'[w].code = new /\ codeOf'[w].left = Life
  <2>1. [code |-> new, left |-> Life] \in Entry
    BY <1>2 DEF Entry
  <2>2. codeOf \in [Workspaces -> Entry] /\ torn \in BOOLEAN
    BY DEF LinkInv, InviteShape
  <2>3. CASE codeOf' = codeOf /\ torn' = TRUE
    BY <2>2, <2>3
  <2>4. CASE codeOf' = [codeOf EXCEPT ![w] = [code |-> new, left |-> Life]] /\ torn' = torn
    BY <2>1, <2>2, <2>4
  <2>5. QED
    BY <1>4, <2>3, <2>4
<1>6. InviteShape' /\ Here'
  <2>1. Here'
    BY <1>2, <1>3, HandlerHere
  <2>2. minted' \in 0 .. MaxCodes
    BY <1>2
  <2>3. QED
    BY <1>2, <1>3, <1>5, <2>1, <2>2 DEF LinkInv, InviteShape, HandlerKeeps, Moves
<1>7. /\ Keyed' = Keyed \cup {i} /\ Coded' = Coded \cup {i} /\ Minting' = Minting /\ i \in Minting
      /\ \A j \in Coded : j # i /\ invites'[j] = invites[j]
      /\ invites'[i].code = new /\ invites'[i].for = w /\ invites'[i].st = "keyed"
  BY <1>1, <1>2, <1>3 DEF Moves, Keyed, Coded, Minting
<1>8. Known'
  <2>1. minted \in Nat /\ minted' = minted + 1
    BY <1>1, <1>2 DEF LinkInv, InviteShape
  <2>2. \A j \in Working' : invites'[j].for \in Workspaces
    BY <1>1, <1>3 DEF LinkInv, Known, Working, Moves
  <2>3. \A j \in Coded' : invites'[j].code \in 1 .. minted'
    <3>1. \A j \in Coded : invites[j].code \in 1 .. minted
      BY DEF LinkInv, Known
    <3>2. new \in 1 .. minted' /\ \A k \in 1 .. minted : k \in 1 .. minted'
      BY <1>1, <1>2, <2>1
    <3>3. QED
      BY <1>7, <3>1, <3>2
  <2>4. \A v \in Workspaces : codeOf'[v].code <= minted'
    <3>1. \A v \in Workspaces : codeOf[v].code <= minted /\ codeOf[v].code \in Nat
      BY DEF LinkInv, Known, InviteShape, Entry
    <3>2. \A v \in Workspaces : codeOf'[v].code \in {codeOf[v].code, new}
      BY <1>5
    <3>3. QED
      BY <1>2, <2>1, <3>1, <3>2
  <2>5. \A c \in Invite!CodeNames : leadsTo'[c].to # None => c <= minted'
    BY <1>2, <2>1 DEF LinkInv, Known, Invite!CodeNames
  <2>6. link'.code <= minted'
    BY <1>2, <2>1 DEF LinkInv, Known, InviteShape, LinkType, HandlerKeeps
  <2>7. QED
    BY <2>2, <2>3, <2>4, <2>5, <2>6 DEF Known
<1>9. Owned'
  <2>1. SUFFICES ASSUME NEW c \in Invite!CodeNames PROVE \E v \in Workspaces : OwnedBy(c, v)'
    BY DEF Owned
  <2>2. CASE c = new
    <3>1. /\ \A v \in Workspaces : codeOf[v].code # new
          /\ leadsTo[new].to = None
          /\ \A j \in Coded : invites[j].code # new
          /\ link.code # new
      BY <1>1 DEF LinkInv, Known, InviteShape, Entry, LinkType
    <3>2. \A v \in Workspaces : codeOf'[v].code = new => v = w
      BY <1>5, <3>1
    <3>3. \A j \in Coded' : invites'[j].code = new => invites'[j].for = w
      BY <1>7, <3>1
    <3>4. OwnedBy(new, w)'
      BY <1>2, <3>1, <3>2, <3>3 DEF OwnedBy, HandlerKeeps
    <3>5. QED
      BY <2>2, <3>4
  <2>3. CASE c # new
    <3>1. PICK v \in Workspaces : OwnedBy(c, v)
      BY DEF LinkInv, Owned
    <3>2. \A u \in Workspaces : codeOf'[u].code = c => u = v
      BY <1>5, <2>3, <3>1 DEF OwnedBy
    <3>3. \A j \in Coded' : invites'[j].code = c => invites'[j].for = v
      BY <1>7, <2>3, <3>1 DEF OwnedBy
    <3>4. OwnedBy(c, v)'
      BY <1>2, <3>1, <3>2, <3>3 DEF OwnedBy, HandlerKeeps
    <3>5. QED
      BY <3>4
  <2>4. QED
    BY <2>2, <2>3
<1>10. /\ leadsTo[new].to = None
       /\ \A j \in Keyed : j \in Coded /\ j # i /\ invites'[j] = invites[j]
       /\ \A j \in Keyed : invites[j].code # new
  BY <1>1, <1>7 DEF LinkInv, Known, InviteShape, Keyed, Coded
<1>11. Pending'
  <2>1. \A j \in Keyed' : leadsTo'[invites'[j].code].to = None
    BY <1>2, <1>7, <1>10 DEF LinkInv, Pending
  <2>2. \A j, k \in Keyed' : invites'[j].code = invites'[k].code => j = k
    BY <1>7, <1>10 DEF LinkInv, Pending
  <2>3. QED
    BY <2>1, <2>2 DEF Pending
<1>12. Invite!BeingStored(new)' /\ \A c : Invite!BeingStored(c) => Invite!BeingStored(c)'
  <2>1. \A j \in Invite!Callers : invites[j].st = "keyed" => invites'[j] = invites[j]
    BY <1>7, <1>10 DEF Keyed
  <2>2. QED
    BY <1>7, <2>1 DEF Invite!BeingStored
<1>13. Stored'
  <2>1. SUFFICES ASSUME ~torn', NEW v \in Workspaces, codeOf'[v].code # 0
                 PROVE  \/ /\ leadsTo'[codeOf'[v].code].to = v
                           /\ leadsTo'[codeOf'[v].code].left = codeOf'[v].left
                        \/ Invite!BeingStored(codeOf[v].code)' /\ codeOf'[v].left = Life
    BY DEF Stored
  <2>2. CASE v = w
    BY <1>5, <1>12, <2>1, <2>2
  <2>3. CASE v # w
    <3>1. PICK c : c = codeOf[v].code
      OBVIOUS
    <3>2. codeOf'[v] = codeOf[v] /\ codeOf'[v].code = c
      BY <1>5, <2>3, <3>1
    <3>3. \/ leadsTo[c].to = v /\ leadsTo[c].left = codeOf[v].left
          \/ Invite!BeingStored(c) /\ codeOf[v].left = Life
      BY <1>5, <2>1, <3>1, <3>2 DEF LinkInv, Stored
    <3>4. QED
      BY <1>2, <1>12, <3>2, <3>3
  <2>4. QED
    BY <2>2, <2>3
<1>14. Alone'
  <2>1. SUFFICES ASSUME ~torn', ~rivals PROVE Alone'
    BY <1>2 DEF Alone
  <2>2. /\ \A j, k \in Minting : j = k
        /\ codeOf[w].code = 0 /\ w \in Workspaces
        /\ \A c \in Invite!CodeNames : leadsTo[c].to # None => codeOf[leadsTo[c].to].code = c
    BY <1>1, <1>2, <1>5, <2>1 DEF LinkInv, Alone
  <2>3. Keyed' = {i} /\ Minting' = {i}
    BY <1>7, <2>2 DEF Keyed, Minting
  <2>4. \A j \in Invite!Callers : invites'[j].st # "missed"
    BY <1>7, <2>3 DEF Minting
  <2>5. ASSUME NEW c \in Invite!CodeNames, leadsTo[c].to # None
        PROVE  codeOf'[leadsTo[c].to].code = c
    <3>1. codeOf[leadsTo[c].to].code = c /\ c # 0 /\ leadsTo[c].to \in Workspaces
      BY <2>2, <2>5 DEF Invite!CodeNames, LinkInv, InviteShape, Way, Invite!Spaces
    <3>2. QED
      BY <1>5, <2>2, <3>1
  <2>6. QED
    BY <1>2, <1>5, <1>7, <2>1, <2>3, <2>4, <2>5 DEF Alone
<1>15. Told'
  <2>1. \A c : Reachable(c) => Reachable(c)'
    BY <1>2, <1>12 DEF Reachable, Invite!Works
  <2>2. invites'["page"].st = "served" => invites'["page"] = invites["page"]
    BY <1>3 DEF Moves, Invite!Callers
  <2>3. torn => torn'
    BY <1>5 DEF LinkInv, InviteShape
  <2>4. QED
    BY <1>2, <2>1, <2>2, <2>3 DEF LinkInv, Told, HandlerKeeps
<1>16. QED
  BY <1>6, <1>8, <1>9, <1>11, <1>13, <1>14, <1>15 DEF LinkInv

LEMMA StoreLookupStep ==
  ASSUME Invite!ConstantsOK, LinkInv, NEW i \in Invite!Callers, Invite!StoreLookup(i)
  PROVE  LinkInv'
<1>1. PICK w \in Workspaces, code \in Invite!CodeNames :
        w = invites[i].for /\ code = invites[i].code /\ w # None
  <2>1. invites[i].for \in Workspaces /\ invites[i].code \in Invite!CodeNames
    BY DEF Invite!StoreLookup, LinkInv, Known, InviteShape, Working, Coded, Invite!CodeNames,
       Invite!ConstantsOK
  <2>2. QED
    BY <2>1 DEF Invite!ConstantsOK
<1>2. /\ HandlerKeeps /\ UNCHANGED <<codeOf, minted, rivals>>
      /\ invites[i].st = "keyed" /\ invites[i] \in InviteCall /\ i \in Keyed /\ i \in Coded
      /\ invites \in [Invite!Callers -> InviteCall]
      /\ invites' = [invites EXCEPT ![i].st = "served"]
  BY DEF Invite!StoreLookup, Invite!WriteOrLose, HandlerKeeps, Invite!client, LinkInv,
     InviteShape, Keyed, Coded
<1>3. w \in Invite!Spaces /\ code <= minted /\ Life \in 0 .. Life
  BY <1>1, <1>2 DEF LinkInv, Known, Invite!ConstantsOK, Invite!Spaces
<1>4. Moves(i, "served", code)
  BY <1>1, <1>2 DEF Moves, InviteCall
<1>5. \/ leadsTo' = [leadsTo EXCEPT ![code] = [to |-> w, left |-> Life]] /\ torn' = torn
      \/ leadsTo' = leadsTo /\ torn' = TRUE
  BY <1>1 DEF Invite!StoreLookup, Invite!WriteOrLose
<1>6. /\ leadsTo' \in [Invite!CodeNames -> Way] /\ torn' \in BOOLEAN
      /\ \A c \in Invite!CodeNames : c # code => leadsTo'[c] = leadsTo[c]
      /\ leadsTo'[code].to \in {leadsTo[code].to, w}
      /\ ~torn' => ~torn /\ leadsTo'[code].to = w /\ leadsTo'[code].left = Life
  <2>1. [to |-> w, left |-> Life] \in Way
    BY <1>3 DEF Way
  <2>2. leadsTo \in [Invite!CodeNames -> Way] /\ torn \in BOOLEAN
    BY DEF LinkInv, InviteShape
  <2>3. CASE leadsTo' = leadsTo /\ torn' = TRUE
    BY <2>2, <2>3
  <2>4. CASE leadsTo' = [leadsTo EXCEPT ![code] = [to |-> w, left |-> Life]] /\ torn' = torn
    BY <2>1, <2>2, <2>4
  <2>5. QED
    BY <1>5, <2>3, <2>4
<1>7. InviteShape' /\ Here'
  <2>1. Here'
    BY <1>2, <1>4, HandlerHere
  <2>2. QED
    BY <1>2, <1>4, <1>6, <2>1 DEF LinkInv, InviteShape, HandlerKeeps, Moves
<1>8. /\ Keyed' = Keyed \ {i} /\ Coded' = Coded /\ Minting' = Minting \ {i}
      /\ \A j \in Invite!Callers : j # i => invites'[j] = invites[j]
      /\ invites'[i].code = code /\ invites'[i].for = w
  BY <1>1, <1>2, <1>4 DEF Moves, Keyed, Coded, Minting
<1>9. Known'
  <2>1. \A j \in Invite!Callers : invites'[j].for = invites[j].for /\ invites'[j].code = invites[j].code
    BY <1>1, <1>8
  <2>2. Working' = Working
    BY <1>2, <1>4 DEF Working, Moves
  <2>3. \A c \in Invite!CodeNames : leadsTo'[c].to # None => c <= minted
    BY <1>3, <1>6 DEF LinkInv, Known
  <2>4. \A j \in Coded : j \in Invite!Callers
    BY DEF Coded
  <2>5. \A j \in Working : j \in Invite!Callers
    BY DEF Working
  <2>6. QED
    BY <1>2, <1>8, <2>1, <2>2, <2>3, <2>4, <2>5 DEF LinkInv, Known, HandlerKeeps
<1>10. Owned'
  <2>1. SUFFICES ASSUME NEW c \in Invite!CodeNames PROVE \E v \in Workspaces : OwnedBy(c, v)'
    BY DEF Owned
  <2>2. PICK v \in Workspaces : OwnedBy(c, v)
    BY DEF LinkInv, Owned
  <2>3. leadsTo'[c].to \in {None, v}
    BY <1>1, <1>2, <1>6, <2>2 DEF OwnedBy
  <2>4. \A j \in Coded' : invites'[j].code = c => invites'[j].for = v
    BY <1>1, <1>8, <2>2 DEF OwnedBy, Coded
  <2>5. OwnedBy(c, v)'
    BY <1>2, <2>2, <2>3, <2>4 DEF OwnedBy, HandlerKeeps
  <2>6. QED
    BY <2>5
<1>11. \A j \in Keyed' : /\ j \in Keyed /\ invites'[j] = invites[j]
                         /\ invites[j].code # code /\ invites[j].code \in Invite!CodeNames
  <2>1. SUFFICES ASSUME NEW j \in Keyed'
                 PROVE  /\ j \in Keyed /\ invites'[j] = invites[j]
                        /\ invites[j].code # code /\ invites[j].code \in Invite!CodeNames
    OBVIOUS
  <2>2. j \in Keyed /\ j # i /\ j \in Invite!Callers
    BY <1>8, <2>1 DEF Keyed
  <2>3. invites'[j] = invites[j] /\ invites[j].code # code
    BY <1>1, <1>2, <1>8, <2>2 DEF LinkInv, Pending
  <2>4. invites[j].code \in Invite!CodeNames
    BY <2>2 DEF LinkInv, Known, Keyed, Coded, InviteShape, Invite!CodeNames,
       Invite!ConstantsOK
  <2>5. QED
    BY <2>2, <2>3, <2>4
<1>12. Pending'
  <2>1. \A j \in Keyed' : leadsTo'[invites'[j].code].to = None
    <3>1. \A j \in Keyed' : leadsTo'[invites[j].code] = leadsTo[invites[j].code]
      BY <1>6, <1>11
    <3>2. QED
      BY <1>11, <3>1 DEF LinkInv, Pending
  <2>2. \A j, k \in Keyed' : invites'[j].code = invites'[k].code => j = k
    BY <1>11 DEF LinkInv, Pending
  <2>3. QED
    BY <2>1, <2>2 DEF Pending
<1>13. \A c : Invite!BeingStored(c) /\ c # code => Invite!BeingStored(c)'
  BY <1>1, <1>8 DEF Invite!BeingStored
<1>14. Stored'
  <2>1. SUFFICES ASSUME ~torn', NEW v \in Workspaces, codeOf[v].code # 0
                 PROVE  \/ /\ leadsTo'[codeOf[v].code].to = v
                           /\ leadsTo'[codeOf[v].code].left = codeOf[v].left
                        \/ Invite!BeingStored(codeOf[v].code)' /\ codeOf[v].left = Life
    BY <1>2 DEF Stored, Invite!BeingStored
  <2>2. /\ codeOf[v].code \in Invite!CodeNames
        /\ \/ /\ leadsTo[codeOf[v].code].to = v
              /\ leadsTo[codeOf[v].code].left = codeOf[v].left
           \/ Invite!BeingStored(codeOf[v].code) /\ codeOf[v].left = Life
    BY <1>6, <2>1 DEF LinkInv, Stored, InviteShape, Entry, Invite!CodeNames
  <2>3. CASE codeOf[v].code = code
    <3>1. PICK u \in Workspaces : OwnedBy(code, u)
      BY DEF LinkInv, Owned
    <3>2. v = w
      BY <1>1, <1>2, <2>3, <3>1 DEF OwnedBy
    <3>3. leadsTo[code].to = None
      BY <1>1, <1>2 DEF LinkInv, Pending
    <3>4. codeOf[v].left = Life
      BY <1>1, <2>2, <2>3, <3>2, <3>3
    <3>5. QED
      BY <1>6, <2>1, <2>3, <3>2, <3>4
  <2>4. CASE codeOf[v].code # code
    <3>1. PICK d \in Invite!CodeNames : d = codeOf[v].code
      BY <2>2
    <3>2. leadsTo'[d] = leadsTo[d] /\ (Invite!BeingStored(d) => Invite!BeingStored(d)')
      BY <1>6, <1>13, <2>4, <3>1
    <3>3. codeOf'[v].code = d
      BY <1>2, <3>1
    <3>4. QED
      BY <2>2, <3>1, <3>2, <3>3
  <2>5. QED
    BY <2>3, <2>4
<1>15. Alone'
  <2>1. SUFFICES ASSUME ~torn', ~rivals PROVE Alone'
    BY <1>2 DEF Alone
  <2>2. LinkInv /\ ~torn /\ ~rivals
    BY <1>6, <2>1
  <2>3. codeOf[w].code = code
    BY <1>1, <1>2, <2>2 DEF LinkInv, Alone
  <2>4. \A j \in Invite!Callers : invites'[j].st = "missed" => invites'[j] = invites[j]
    BY <1>4 DEF Moves
  <2>5. \A c \in Invite!CodeNames : leadsTo'[c].to # None => codeOf[leadsTo'[c].to].code = c
    BY <1>6, <2>1, <2>2, <2>3 DEF LinkInv, Alone
  <2>6. QED
    BY <1>2, <1>8, <1>11, <2>2, <2>4, <2>5 DEF LinkInv, Alone
<1>16. Told'
  <2>1. torn => torn'
    BY <1>6 DEF LinkInv, InviteShape
  <2>2. ASSUME NEW c \in Invite!CodeNames, Reachable(c), ~torn' PROVE Reachable(c)'
    <3>1. CASE c = code
      BY <1>1, <1>6, <2>2, <3>1 DEF Reachable, Invite!Works
    <3>2. CASE c # code
      BY <1>6, <1>13, <2>2, <3>2 DEF Reachable, Invite!Works
    <3>3. QED
      BY <3>1, <3>2
  <2>3. ~torn' => Reachable(code)'
    BY <1>1, <1>6 DEF Reachable, Invite!Works
  <2>4. ASSUME invites'["page"].st = "served", ~torn', ~invites'["page"].old
        PROVE  Reachable(invites["page"].code)'
    <3>1. CASE i = "page"
      <4>1. invites'["page"].code = code
        BY <1>8, <3>1
      <4>2. QED
        BY <2>3, <2>4, <4>1 DEF Reachable, Invite!Works, Invite!BeingStored
    <3>2. CASE i # "page"
      <4>1. invites'["page"] = invites["page"] /\ "page" \in Coded
        BY <1>8, <2>4, <3>2 DEF Invite!Callers, Coded
      <4>2. PICK c \in Invite!CodeNames : c = invites["page"].code
        BY <4>1 DEF LinkInv, Known, InviteShape, Invite!CodeNames, Invite!ConstantsOK
      <4>3. Reachable(c)
        BY <1>6, <2>4, <4>1, <4>2 DEF LinkInv, Told
      <4>4. Reachable(c)'
        BY <2>2, <2>4, <4>3
      <4>5. QED
        BY <4>1, <4>2, <4>4
    <3>3. QED
      BY <3>1, <3>2
  <2>5. ASSUME link'.code # 0, ~torn', ~aged' PROVE Reachable(link.code)'
    <3>1. link' = link /\ aged' = aged /\ link.code \in Invite!CodeNames
      BY <1>2, <2>5 DEF HandlerKeeps, LinkInv, InviteShape, LinkType, Invite!CodeNames
    <3>2. PICK c \in Invite!CodeNames : c = link.code
      BY <3>1
    <3>3. Reachable(c)
      BY <1>6, <2>5, <3>1, <3>2 DEF LinkInv, Told, Invite!CodeNames
    <3>4. Reachable(c)'
      BY <2>2, <2>5, <3>3
    <3>5. QED
      BY <3>1, <3>2, <3>4
  <2>6. QED
    BY <2>4, <2>5 DEF Told
<1>17. QED
  BY <1>7, <1>9, <1>10, <1>12, <1>14, <1>15, <1>16 DEF LinkInv

---------------------------------------------------------------------------
(* A day *)

LEMMA InviteDayStep == ASSUME Invite!ConstantsOK, LinkInv, Invite!DayPasses PROVE LinkInv'
<1>1. /\ UNCHANGED <<minted, tokenOf, named, teamCall, opened, torn, rivals, afar>>
      /\ Keyed = {} /\ Minting = {} /\ Working \subseteq Invite!Callers
      /\ invites \in [Invite!Callers -> InviteCall] /\ link \in LinkType /\ aged \in BOOLEAN
  BY DEF Invite!DayPasses, Keyed, Minting, Working, LinkInv, InviteShape
<1>2. /\ link' \in LinkType /\ link'.code = link.code
      /\ aged' \in BOOLEAN /\ (link.code # 0 => aged')
  BY <1>1 DEF Invite!DayPasses, LinkType
<1>3. /\ invites' \in [Invite!Callers -> InviteCall]
      /\ \A j \in Invite!Callers : /\ invites'[j].st = invites[j].st
                            /\ invites'[j].for = invites[j].for
                            /\ invites'[j].code = invites[j].code
      /\ invites["page"].st = "served" => invites'["page"].old
  <2>1. "page" \in Invite!Callers /\ invites["page"] \in InviteCall
    BY <1>1 DEF Invite!Callers
  <2>2. PICK o \in BOOLEAN :
          /\ invites' = [invites EXCEPT !["page"].old = o]
          /\ invites["page"].st = "served" => o
    BY <2>1, Zenon DEF Invite!DayPasses, InviteCall
  <2>3. QED
    BY <1>1, <2>1, <2>2 DEF InviteCall
<1>4. \A w \in Workspaces :
        /\ codeOf'[w] \in Entry
        /\ \/ codeOf'[w].code = 0
           \/ /\ codeOf'[w].code = codeOf[w].code /\ codeOf[w].left > 1
              /\ codeOf'[w].left = codeOf[w].left - 1
        /\ codeOf[w].left > 1 => codeOf'[w].code = codeOf[w].code
  <2>1. SUFFICES ASSUME NEW w \in Workspaces
                 PROVE  /\ codeOf'[w] \in Entry
                        /\ \/ codeOf'[w].code = 0
                           \/ /\ codeOf'[w].code = codeOf[w].code /\ codeOf[w].left > 1
                              /\ codeOf'[w].left = codeOf[w].left - 1
                        /\ codeOf[w].left > 1 => codeOf'[w].code = codeOf[w].code
    OBVIOUS
  <2>2. codeOf[w] \in Entry
    BY DEF LinkInv, InviteShape
  <2>3. CASE codeOf[w].left > 1
    <3>1. codeOf'[w] = [codeOf[w] EXCEPT !.left = @ - 1]
      BY <2>3 DEF Invite!DayPasses
    <3>2. QED
      BY <2>2, <2>3, <3>1 DEF Entry, Invite!ConstantsOK
  <2>4. CASE ~(codeOf[w].left > 1)
    BY <2>4, EmptyShapes DEF Invite!DayPasses
  <2>5. QED
    BY <2>3, <2>4
<1>5. \A c \in Invite!CodeNames :
        /\ leadsTo'[c] \in Way
        /\ \/ leadsTo'[c].to = None
           \/ leadsTo'[c].to = leadsTo[c].to /\ leadsTo[c].left > 1
        /\ leadsTo[c].left > 1 => /\ leadsTo'[c].to = leadsTo[c].to
                                  /\ leadsTo'[c].left = leadsTo[c].left - 1
  <2>1. SUFFICES ASSUME NEW c \in Invite!CodeNames
                 PROVE  /\ leadsTo'[c] \in Way
                        /\ \/ leadsTo'[c].to = None
                           \/ leadsTo'[c].to = leadsTo[c].to /\ leadsTo[c].left > 1
                        /\ leadsTo[c].left > 1 => /\ leadsTo'[c].to = leadsTo[c].to
                                                  /\ leadsTo'[c].left = leadsTo[c].left - 1
    OBVIOUS
  <2>2. leadsTo[c] \in Way
    BY DEF LinkInv, InviteShape
  <2>3. CASE leadsTo[c].left > 1
    <3>1. leadsTo'[c] = [leadsTo[c] EXCEPT !.left = @ - 1]
      BY <2>3 DEF Invite!DayPasses
    <3>2. QED
      BY <2>2, <2>3, <3>1 DEF Way, Invite!ConstantsOK
  <2>4. CASE ~(leadsTo[c].left > 1)
    BY <2>4, EmptyShapes DEF Invite!DayPasses
  <2>5. QED
    BY <2>3, <2>4
<1>6. InviteShape'
  <2>1. codeOf' \in [Workspaces -> Entry] /\ leadsTo' \in [Invite!CodeNames -> Way]
    BY <1>4, <1>5 DEF Invite!DayPasses
  <2>2. QED
    BY <1>1, <1>2, <1>3, <2>1 DEF LinkInv, InviteShape
<1>7. Keyed' = {} /\ Minting' = {} /\ Coded' = Coded /\ Working' = Working /\ Coded \subseteq Invite!Callers
  BY <1>1, <1>3 DEF Keyed, Minting, Coded, Working
<1>8. Known'
  <2>1. /\ \A j \in Working : invites'[j].for \in Workspaces
        /\ \A j \in Coded : invites'[j].code \in 1 .. minted
    BY <1>1, <1>3, <1>7 DEF LinkInv, Known
  <2>2. \A w \in Workspaces : codeOf'[w].code <= minted
    BY <1>4 DEF LinkInv, Known, InviteShape
  <2>3. \A c \in Invite!CodeNames : leadsTo'[c].to # None => c <= minted
    BY <1>5 DEF LinkInv, Known
  <2>4. QED
    BY <1>1, <1>2, <1>7, <2>1, <2>2, <2>3 DEF LinkInv, Known
<1>9. Owned'
  <2>1. SUFFICES ASSUME NEW c \in Invite!CodeNames PROVE \E v \in Workspaces : OwnedBy(c, v)'
    BY DEF Owned
  <2>2. PICK v \in Workspaces : OwnedBy(c, v)
    BY DEF LinkInv, Owned
  <2>3. \A w \in Workspaces : codeOf'[w].code = c => w = v
    BY <1>4, <2>2 DEF OwnedBy, Invite!CodeNames
  <2>4. \A j \in Coded' : invites'[j].code = c => invites'[j].for = v
    BY <1>3, <1>7, <2>2 DEF OwnedBy
  <2>5. OwnedBy(c, v)'
    BY <1>1, <1>2, <1>5, <2>2, <2>3, <2>4 DEF OwnedBy
  <2>6. QED
    BY <2>5
<1>10. Pending'
  BY <1>7 DEF Pending
<1>11. ASSUME ~torn, NEW w \in Workspaces, codeOf[w].code # 0
       PROVE  /\ codeOf[w].code \in Invite!CodeNames
              /\ leadsTo[codeOf[w].code].to = w
              /\ leadsTo[codeOf[w].code].left = codeOf[w].left
  <2>1. \A c : ~Invite!BeingStored(c)
    BY <1>1 DEF Invite!BeingStored, Keyed
  <2>2. QED
    BY <1>11, <2>1 DEF LinkInv, Stored, InviteShape, Entry, Invite!CodeNames
<1>12. Stored'
  <2>1. SUFFICES ASSUME ~torn, NEW w \in Workspaces, codeOf'[w].code # 0
                 PROVE  /\ leadsTo'[codeOf'[w].code].to = w
                        /\ leadsTo'[codeOf'[w].code].left = codeOf'[w].left
    BY <1>1 DEF Stored
  <2>2. /\ codeOf'[w].code = codeOf[w].code /\ codeOf[w].code # 0 /\ codeOf[w].left > 1
        /\ codeOf'[w].left = codeOf[w].left - 1
    BY <1>4, <2>1
  <2>3. PICK c \in Invite!CodeNames : c = codeOf[w].code
    BY <1>11, <2>1, <2>2
  <2>4. leadsTo[c].to = w /\ leadsTo[c].left = codeOf[w].left
    BY <1>11, <2>1, <2>2, <2>3
  <2>5. leadsTo'[c].to = w /\ leadsTo'[c].left = codeOf[w].left - 1
    BY <1>5, <2>2, <2>4
  <2>6. QED
    BY <2>2, <2>3, <2>5
<1>13. Alone'
  <2>1. SUFFICES ASSUME ~torn, ~rivals PROVE Alone'
    BY <1>1 DEF Alone
  <2>2. ASSUME NEW c \in Invite!CodeNames, leadsTo'[c].to # None
        PROVE  codeOf'[leadsTo'[c].to].code = c
    <3>1. PICK w \in Workspaces : w = leadsTo[c].to /\ leadsTo'[c].to = w /\ leadsTo[c].left > 1
      BY <1>5, <2>2 DEF LinkInv, InviteShape, Way, Invite!Spaces
    <3>2. codeOf[w].code = c /\ c # 0
      BY <1>5, <2>1, <2>2, <3>1 DEF LinkInv, Alone, Invite!CodeNames
    <3>3. codeOf[w].left > 1
      BY <1>11, <2>1, <3>1, <3>2
    <3>4. QED
      BY <1>4, <3>1, <3>2, <3>3
  <2>3. \A j \in Invite!Callers : invites'[j].st # "missed"
    BY <1>7 DEF Minting
  <2>4. QED
    BY <1>7, <2>2, <2>3 DEF Alone
<1>14. Told' /\ Here'
  <2>1. Told'
    BY <1>2, <1>3 DEF Told, Invite!Callers
  <2>2. Here'
    BY <1>1, <1>3 DEF LinkInv, Here, Invite!Callers
  <2>3. QED
    BY <2>1, <2>2
<1>15. QED
  BY <1>6, <1>8, <1>9, <1>10, <1>12, <1>13, <1>14 DEF LinkInv

---------------------------------------------------------------------------
LEMMA LinkNext == ASSUME Invite!ConstantsOK, LinkInv, [Invite!Next]_(Invite!inviteVars) PROVE LinkInv'
<1>1. ASSUME NEW i \in Invite!Callers, Invite!LookUp(i) \/ Invite!StoreCode(i) \/ Invite!StoreLookup(i) PROVE LinkInv'
  BY <1>1, LookUpStep, StoreCodeStep, StoreLookupStep
<1>2. CASE Invite!DayPasses
  BY <1>2, InviteDayStep
<1>3. CASE Invite!OtherAnswered \/ \E w \in Workspaces : Invite!OtherAsks(w)
  BY <1>3, InviteOtherStep
<1>4. CASE Invite!OpenDialog
  BY <1>4, OpenDialogStep
<1>5. CASE Invite!ReceiveLink
  BY <1>5, InviteReceiveStep
<1>6. CASE Invite!LinkFails \/ Invite!Switched
  BY <1>6, GivenUpStep
<1>7. CASE \/ Invite!CloseDialog \/ Invite!LinkGoesStale \/ Invite!SwitchFails \/ Invite!HeaderRefetched
           \/ \E w \in Workspaces : Invite!SwitchTeam(w) \/ Invite!SwitchElsewhere(w)
  BY <1>7, NamesStep
<1>8. CASE UNCHANGED Invite!inviteVars
  BY <1>8 DEF Invite!inviteVars, Invite!server, Invite!client, Invite!marks, LinkInv,
     InviteShape, Known, Owned, OwnedBy, Pending,
              Stored, Alone, Told, Here, Reachable, Invite!Works, Invite!BeingStored, Working, Coded, Keyed, Minting
<1>9. QED
  BY <1>1, <1>2, <1>3, <1>4, <1>5, <1>6, <1>7, <1>8 DEF Invite!Next

\* Every step of the server and of the page keeps the invariant: a code belongs to
\* one workspace wherever it is, and leads back to it unless a write was lost.
THEOREM LinkInvariant == ASSUME Invite!ConstantsOK PROVE Invite!Spec => []LinkInv
<1>1. Invite!Init => LinkInv
  BY LinkInit
<1>2. LinkInv /\ [Invite!Next]_(Invite!inviteVars) => LinkInv'
  BY LinkNext
<1>3. QED
  BY <1>1, <1>2, PTL DEF Invite!Spec

\* The codes, the calls for one and the link on screen keep their types.
THEOREM InviteTyped == ASSUME Invite!ConstantsOK PROVE Invite!Spec => []Invite!TypeOK
<1>1. LinkInv => Invite!TypeOK
  BY DEF LinkInv, InviteShape, Entry, Way, InviteCall, LinkType, Invite!TypeOK
<1>2. QED
  BY <1>1, LinkInvariant, PTL

\* The link a member of a workspace is shown works and leads to that workspace,
\* and a workspace has one of them, whatever the number of administrators' calls,
\* days and failures: each but for the cause the property names.
THEOREM InvitationsHold == ASSUME Invite!ConstantsOK PROVE Invite!Spec => []Invite!InvitationHolds
<1>1. LinkInv => Invite!InvitationHolds
  BY WorksFollows, WorkspaceFollows, OneFollows DEF Invite!InvitationHolds
<1>2. QED
  BY <1>1, LinkInvariant, PTL

---------------------------------------------------------------------------
(* TreePage: trees of rows, and the removals that take a branch *)

\* Every set of rows has one whose parent is elsewhere: no row is below itself.
Rooted == \A S \in SUBSET TreeNodes : S # {} => \E n \in S : parentOf[n] \notin S

Born(n) == parentOf[n] # Unborn
LiveOrNone == live \cup {None}
Ended(c) == removal[c].st \in {"served", "settling"}

\* What is on the server, on screen or on its way was created, below rows that were.
BornInv ==
  /\ Rooted
  /\ \A n \in TreeNodes : parentOf[n] \in TreeNodes => Born(parentOf[n])
  /\ \A n \in live : Born(n) /\ parentOf[n] \in LiveOrNone
  /\ \A n \in screen.rows \cup answer.rows.rows : Born(n)

\* The dialog says what the tree on screen says until the tree is read again.
QuestionInv ==
  confirm.node # None =>
    /\ Born(confirm.node) /\ confirm.up = parentOf[confirm.node]
    /\ confirm.flag <=> confirm.says = "branch"
    /\ ~confirm.reloaded => (confirm.flag <=> confirm.node \in screen.branches)

\* A branch is only on its way out if the dialog asked for that.
RemovalInv ==
  \A c \in TreeCalls : removal[c].st # "none" =>
    /\ removal[c].node \in TreeNodes /\ Born(removal[c].node)
    /\ removal[c].up = parentOf[removal[c].node]
    /\ removal[c].cascade => Tree!AskedAbout(c)

\* One removal has been served and not yet settled; its row may be selected until
\* then, and the row above, which takes its place, exists.
SelectedInv ==
  ~strayed =>
    /\ \A c \in TreeCalls, d \in TreeCalls : Ended(c) /\ Ended(d) => c = d
    /\ (\A c \in TreeCalls : ~Ended(c)) => selected \in LiveOrNone
    /\ \A c \in TreeCalls : Ended(c) =>
         /\ removal[c].up \in LiveOrNone
         /\ removal[c].st = "served" => selected \in LiveOrNone \cup {removal[c].node}
         /\ removal[c].st = "settling" => removal[c].moves \/ selected \in LiveOrNone

TreeInv ==
  Tree!TypeOK /\ BornInv /\ QuestionInv /\ RemovalInv /\ SelectedInv

\* A branch has its row and the children of its rows, but not the row above it.
LEMMA BranchFacts ==
  ASSUME Tree!ConstantsOK, Rooted, NEW n \in TreeNodes
  PROVE  /\ n \in Tree!Branch(n)
         /\ \A c \in TreeNodes : parentOf[c] \in Tree!Branch(n) => c \in Tree!Branch(n)
         /\ parentOf[n] \notin Tree!Branch(n)
<1> DEFINE T == Tree!Branch(n)
<1>1. n \in T /\ T \in SUBSET TreeNodes
  BY DEF Tree!Branch
<1>2. ASSUME NEW S \in SUBSET TreeNodes, n \in S,
             \A c \in TreeNodes : parentOf[c] \in S => c \in S
      PROVE  T \subseteq S
  BY <1>2 DEF Tree!Branch, Tree!Closed
<1>3. \A c \in TreeNodes : parentOf[c] \in T => c \in T
  BY DEF Tree!Branch, Tree!Closed
<1> HIDE DEF T
<1>4. ASSUME parentOf[n] \in T PROVE FALSE
  <2>1. PICK m \in T : parentOf[m] \notin T
    BY <1>1 DEF Rooted
  <2>2. m # n /\ T \ {m} \in SUBSET TreeNodes
    BY <1>1, <1>4, <2>1
  <2>3. ASSUME NEW c \in TreeNodes, parentOf[c] \in T \ {m} PROVE c \in T \ {m}
    BY <1>3, <2>1, <2>3
  <2>4. T \subseteq T \ {m}
    BY <1>1, <1>2, <2>2, <2>3
  <2>5. QED
    BY <2>1, <2>4
<1>5. QED
  BY <1>1, <1>3, <1>4 DEF T

\* The pages differ in whether they trust the flag of the row.
LEMMA PageFlag == page \in Tree!Pages => page.flag \in BOOLEAN
<1>1. Tree!RolesPage.flag \in BOOLEAN /\ Tree!PermsPage.flag \in BOOLEAN
  BY DEF Tree!RolesPage, Tree!PermsPage
<1>2. Tree!DictsPage.flag \in BOOLEAN
  BY DEF Tree!RolesPage, Tree!DictsPage
<1>3. QED
  BY <1>1, <1>2 DEF Tree!Pages, Tree!MenusPage

\* The trees that are read are rows of the server.
LEMMA AnsweredRows ==
  ASSUME Tree!TypeOK PROVE Tree!Answered \in Tree!RowSets /\ Tree!Answered.rows = live
<1>1. /\ Tree!TreeRows \in SUBSET TreeNodes /\ live \in SUBSET TreeNodes
      /\ Tree!BranchRows \in SUBSET TreeNodes
  BY DEF Tree!TypeOK, Tree!TreeRows, Tree!BranchRows
<1>2. QED
  BY <1>1 DEF Tree!Answered, Tree!RowSets

TreeReadings ==
  [st : {"idle", "sent", "served"}, rows : Tree!RowSets, first : BOOLEAN]

LEMMA NoRowsAreRows ==
  /\ Tree!NoRows \in Tree!RowSets /\ Tree!NoRows.rows = {} /\ Tree!NoAnswer.rows = Tree!NoRows
  /\ Tree!NoAnswer \in TreeReadings /\ Tree!Asked \in TreeReadings
  /\ Tree!Asked.rows = Tree!NoRows
  BY DEF Tree!NoRows, Tree!RowSets, Tree!NoAnswer, Tree!Asked, TreeReadings

Questions ==
  [node : Tree!NodeOrNone, up : Tree!NodeOrNone, says : Tree!Sayings, flag : BOOLEAN,
   reloaded : BOOLEAN]
Removals ==
  [st : {"none", "sent", "served", "settling"}, node : Tree!NodeOrNone, up : Tree!NodeOrNone,
   says : Tree!Sayings, cascade : BOOLEAN, reloaded : BOOLEAN, moves : BOOLEAN]

LEMMA NothingAsked ==
  /\ Tree!NoConfirm \in Questions /\ Tree!NoConfirm.node = None
  /\ Tree!NoRemoval \in Removals /\ Tree!NoRemoval.st = "none" /\ Tree!NoRemoval.moves = FALSE
  /\ Tree!NoAdding \in [st : {"none", "sent", "served", "settling"}, parent : Tree!NodeOrNone]
  BY DEF Tree!NoConfirm, Tree!NoRemoval, Tree!NoAdding, Questions, Removals, Tree!NodeOrNone,
         Tree!Sayings

\* Any forest of rows, all of them on screen, and nothing selected.
LEMMA TreeInit == ASSUME Tree!ConstantsOK, Tree!Init PROVE TreeInv
<1>1. /\ parentOf \in [TreeNodes -> TreeNodes \cup {None, Unborn}] /\ Rooted
      /\ \A n \in TreeNodes : parentOf[n] \in TreeNodes => parentOf[n] \in Tree!Born(parentOf)
  BY DEF Tree!Init, Tree!Forests, Rooted
<1>2. live = {n \in TreeNodes : parentOf[n] # Unborn}
  BY DEF Tree!Init, Tree!Born
<1>3. /\ Tree!TreeRows \in SUBSET TreeNodes /\ Tree!BranchRows \in SUBSET TreeNodes
      /\ live \in SUBSET TreeNodes
  BY <1>2 DEF Tree!TreeRows, Tree!BranchRows
<1>4. screen \in Tree!RowSets /\ screen.rows = live
  BY <1>3 DEF Tree!Init, Tree!Answered, Tree!RowSets
<1>5. removal \in [TreeCalls -> Removals] /\ \A c \in TreeCalls : removal[c].st = "none"
  BY NothingAsked DEF Tree!Init
<1>6. Tree!TypeOK
  BY <1>1, <1>2, <1>4, <1>5, NothingAsked, NoRowsAreRows
     DEF Tree!Init, Tree!TypeOK, Questions, Removals, Tree!NodeOrNone, TreeReadings
<1>7. BornInv
  <2>1. answer.rows.rows = {}
    BY NoRowsAreRows DEF Tree!Init
  <2>2. ASSUME NEW n \in TreeNodes, parentOf[n] \in TreeNodes PROVE Born(parentOf[n])
    BY <1>1, <2>2 DEF Tree!Born, Born
  <2>3. ASSUME NEW n \in live PROVE Born(n) /\ parentOf[n] \in LiveOrNone
    BY <1>1, <1>2, <2>2, <2>3 DEF Born, LiveOrNone
  <2>4. QED
    BY <1>1, <1>4, <2>1, <2>2, <2>3 DEF BornInv
<1>8. QED
  BY <1>5, <1>6, <1>7, NothingAsked
     DEF TreeInv, Tree!Init, QuestionInv, RemovalInv, SelectedInv, Ended, LiveOrNone

\* What the types say of the records.
LEMMA TreeRecords ==
  ASSUME Tree!TypeOK
  PROVE  /\ parentOf \in [TreeNodes -> TreeNodes \cup {None, Unborn}] /\ live \in SUBSET TreeNodes
         /\ confirm \in Questions /\ removal \in [TreeCalls -> Removals]
         /\ screen.tree \in SUBSET TreeNodes /\ screen.rows \in SUBSET TreeNodes
         /\ selected \in TreeNodes \cup {None} /\ screen \in Tree!RowSets
         /\ answer \in TreeReadings
         /\ adding \in [st : {"none", "sent", "served", "settling"}, parent : Tree!NodeOrNone]
  BY DEF Tree!TypeOK, Questions, Removals, Tree!RowSets, Tree!NodeOrNone, TreeReadings

\* Steps that remove nothing and select nothing keep what is known of removals.
LEMMA SameRows ==
  ASSUME BornInv, UNCHANGED <<parentOf, live, screen>>,
         answer'.rows.rows = {} \/ answer'.rows.rows = live \/ answer' = answer
  PROVE  BornInv'
<1>1. /\ Rooted' /\ \A n : Born(n)' <=> Born(n)
      /\ LiveOrNone' = LiveOrNone
  BY DEF BornInv, Rooted, Born, LiveOrNone
<1>2. \A n \in answer'.rows.rows : Born(n)
  BY DEF BornInv
<1>3. QED
  BY <1>1, <1>2 DEF BornInv, Born

LEMMA SameRemovals ==
  ASSUME RemovalInv, UNCHANGED <<page, parentOf, removal>>
  PROVE  RemovalInv'
BY DEF RemovalInv, Born, Tree!AskedAbout

LEMMA SameQuestion ==
  ASSUME QuestionInv, UNCHANGED <<parentOf, confirm, screen>>
  PROVE  QuestionInv'
BY DEF QuestionInv, Born

LEMMA SameSelection ==
  ASSUME SelectedInv, UNCHANGED <<live, removal, selected, strayed>>
  PROVE  SelectedInv'
BY DEF SelectedInv, Ended, LiveOrNone

\* A selection made with nothing under way is of a row that exists, or may be astray.
LEMMA NewSelection ==
  ASSUME UNCHANGED <<live, removal>>,
         strayed' \/ (selected' \in live /\ \A c \in TreeCalls : removal[c].st = "none")
  PROVE  SelectedInv'
BY DEF SelectedInv, Ended, LiveOrNone

LEMMA AskedStep ==
  ASSUME Tree!ConstantsOK, TreeInv,
         \/ Tree!ServeTree \/ \E hidden \in TreeFilters : Tree!SetFilter(hidden)
         \/ Tree!AnswerChild \/ Tree!FailChild
  PROVE  TreeInv'
<1>1. UNCHANGED <<page, parentOf, live, screen, confirm, removal, selected, strayed>>
  BY DEF Tree!ServeTree, Tree!SetFilter, Tree!AnswerChild, Tree!FailChild
<1>2. /\ answer' \in TreeReadings
      /\ answer'.rows.rows = {} \/ answer'.rows.rows = live \/ answer' = answer
  BY AnsweredRows, NoRowsAreRows
     DEF TreeInv, Tree!TypeOK, Tree!ServeTree, Tree!SetFilter, Tree!AnswerChild,
         Tree!FailChild, Tree!AskAgain, TreeReadings
<1>3. filter' \in TreeFilters
  BY DEF TreeInv, Tree!TypeOK, Tree!ServeTree, Tree!SetFilter, Tree!AnswerChild,
     Tree!FailChild
<1>4. adding' \in [st : {"none", "sent", "served", "settling"}, parent : Tree!NodeOrNone]
  BY NothingAsked
     DEF TreeInv, Tree!TypeOK, Tree!ServeTree, Tree!SetFilter, Tree!AnswerChild, Tree!FailChild
<1>5. Tree!TypeOK'
  BY <1>1, <1>2, <1>3, <1>4 DEF TreeInv, Tree!TypeOK, TreeReadings
<1>6. QED
  BY <1>1, <1>2, <1>5, SameRows, SameRemovals, SameQuestion, SameSelection DEF TreeInv

\* The tree arrives, or its query fails.
LEMMA ScreenStep ==
  ASSUME Tree!ConstantsOK, TreeInv, Tree!ReceiveTree \/ Tree!FailTree PROVE TreeInv'
<1>1. /\ UNCHANGED <<page, parentOf, live, filter, selected, removal, adding>>
      /\ answer' = Tree!NoAnswer
      /\ screen' \in {screen, Tree!NoRows, answer.rows}
  BY DEF Tree!ReceiveTree, Tree!FailTree
<1>2. strayed' \in BOOLEAN /\ (~strayed' => strayed' = strayed)
  BY DEF Tree!ReceiveTree, Tree!FailTree, TreeInv, Tree!TypeOK
<1>3. screen' \in Tree!RowSets /\ answer' \in TreeReadings
  BY <1>1, NoRowsAreRows DEF TreeInv, Tree!TypeOK
<1>4. PICK again \in BOOLEAN :
        /\ confirm' = [confirm EXCEPT !.reloaded = again]
        /\ confirm.reloaded => again
        /\ confirm.node # None /\ screen' # screen => again
  <2>1. confirm \in Questions
    BY TreeRecords DEF TreeInv
  <2>2. CASE Tree!ReceiveTree
    <3>1. PICK again \in BOOLEAN : again = (confirm.reloaded \/ confirm.node # None)
      OBVIOUS
    <3>2. confirm' = [confirm EXCEPT !.reloaded = again]
      BY <2>2, <3>1 DEF Tree!ReceiveTree
    <3>3. QED
      BY <2>1, <3>1, <3>2
  <2>3. CASE Tree!FailTree
    <3>1. PICK again \in BOOLEAN :
            again = (confirm.reloaded \/ (confirm.node # None /\ screen' # screen))
      OBVIOUS
    <3>2. confirm' = [confirm EXCEPT !.reloaded = again]
      BY <2>3, <3>1 DEF Tree!FailTree
    <3>3. QED
      BY <2>1, <3>1, <3>2
  <2>4. QED
    BY <2>2, <2>3
<1>5. /\ confirm' \in Questions /\ confirm'.node = confirm.node /\ confirm'.up = confirm.up
      /\ confirm'.flag = confirm.flag /\ confirm'.says = confirm.says /\ confirm'.reloaded = again
  <2>1. confirm \in Questions
    BY TreeRecords DEF TreeInv
  <2>2. QED
    BY <1>4, <2>1 DEF Questions
<1>6. Tree!TypeOK'
  BY <1>1, <1>2, <1>3, <1>5 DEF TreeInv, Tree!TypeOK, Questions, TreeReadings
<1>7. BornInv'
  <2>1. screen'.rows \subseteq screen.rows \cup answer.rows.rows /\ answer'.rows.rows = {}
    BY <1>1, NoRowsAreRows
  <2>2. Rooted' /\ (\A n : Born(n)' <=> Born(n)) /\ LiveOrNone' = LiveOrNone
    BY <1>1 DEF TreeInv, BornInv, Rooted, Born, LiveOrNone
  <2>3. QED
    BY <1>1, <2>1, <2>2 DEF TreeInv, BornInv, Born
<1>8. QuestionInv'
  BY <1>1, <1>4, <1>5 DEF TreeInv, QuestionInv, Born
<1>9. RemovalInv' /\ SelectedInv'
  <2>1. RemovalInv'
    BY <1>1, SameRemovals DEF TreeInv
  <2>2. SelectedInv'
    BY <1>1, <1>2 DEF TreeInv, SelectedInv, Ended, LiveOrNone
  <2>3. QED
    BY <2>1, <2>2
<1>10. QED
  BY <1>6, <1>7, <1>8, <1>9 DEF TreeInv

\* A row is selected, or a child is added to it.
LEMMA SelectStep ==
  ASSUME Tree!ConstantsOK, TreeInv, NEW n \in TreeNodes, Tree!Select(n) \/ Tree!AddChild(n)
  PROVE  TreeInv'
<1>1. /\ UNCHANGED <<page, parentOf, live, filter, screen, answer, confirm, removal>>
      /\ selected' = n /\ strayed' \in BOOLEAN
      /\ ~strayed' => n \in live /\ Tree!Removing = {}
  BY DEF Tree!Select, Tree!AddChild, Tree!Idle
<1>2. adding' \in [st : {"none", "sent", "served", "settling"}, parent : Tree!NodeOrNone]
  BY DEF TreeInv, Tree!TypeOK, Tree!Select, Tree!AddChild, Tree!NodeOrNone
<1>3. Tree!TypeOK'
  BY <1>1, <1>2 DEF TreeInv, Tree!TypeOK, Tree!NodeOrNone
<1>4. strayed' \/ (selected' \in live /\ \A c \in TreeCalls : removal[c].st = "none")
  BY <1>1 DEF Tree!Removing
<1>5. QED
  BY <1>1, <1>3, <1>4, SameRows, SameRemovals, SameQuestion, NewSelection DEF TreeInv

\* The saved parent is selected again.
LEMMA SettleChildStep ==
  ASSUME Tree!ConstantsOK, TreeInv, Tree!SettleChild PROVE TreeInv'
<1>1. /\ UNCHANGED <<page, parentOf, live, filter, screen, answer, confirm, removal>>
      /\ selected' \in {adding.parent, selected} /\ adding' = Tree!NoAdding
      /\ strayed' = (strayed \/ (selected' # selected /\ (Tree!Removing # {} \/ selected' \notin live)))
  BY DEF Tree!SettleChild
<1>2. adding' \in [st : {"none", "sent", "served", "settling"}, parent : Tree!NodeOrNone]
  BY <1>1, NothingAsked
<1>3. selected' \in Tree!NodeOrNone /\ strayed' \in BOOLEAN
  BY <1>1 DEF TreeInv, Tree!TypeOK
<1>4. Tree!TypeOK'
  BY <1>1, <1>2, <1>3 DEF TreeInv, Tree!TypeOK
<1>5. SelectedInv'
  <2>1. CASE selected' = selected
    BY <1>1, <2>1, SameSelection DEF TreeInv, Tree!TypeOK
  <2>2. CASE selected' # selected
    BY <1>1, <2>2, NewSelection DEF Tree!Removing
  <2>3. QED
    BY <2>1, <2>2
<1>6. QED
  BY <1>1, <1>4, <1>5, SameRows, SameRemovals, SameQuestion DEF TreeInv

\* A new row goes below one that exists.
LEMMA CreateStep ==
  ASSUME Tree!ConstantsOK, TreeInv, NEW n \in TreeNodes, NEW p \in TreeNodes, p \in live,
         Tree!Create(n, p),
         UNCHANGED <<page, filter, screen, answer, selected, confirm, removal, strayed>>,
         adding' \in [st : {"none", "sent", "served", "settling"}, parent : Tree!NodeOrNone]
  PROVE  TreeInv'
<1>1. /\ parentOf[n] = Unborn /\ parentOf' = [parentOf EXCEPT ![n] = p]
      /\ live' = live \cup {n} /\ parentOf \in [TreeNodes -> TreeNodes \cup {None, Unborn}]
      /\ Born(p) /\ p # n
  BY DEF Tree!Create, TreeInv, Tree!TypeOK, BornInv, Born
<1>2. /\ parentOf'[n] = p /\ \A m \in TreeNodes : m # n => parentOf'[m] = parentOf[m]
      /\ \A m \in TreeNodes : parentOf[m] # n
      /\ \A m \in TreeNodes : Born(m) => m # n
  BY <1>1 DEF TreeInv, BornInv, Born
<1>3. \A m \in TreeNodes : Born(m) => Born(m)' /\ parentOf'[m] = parentOf[m]
  BY <1>2 DEF Born
<1>4. Born(n)' /\ Unborn \notin TreeNodes
  BY <1>2 DEF Born, Tree!ConstantsOK
<1>5. Rooted'
  <2>1. ASSUME NEW S \in SUBSET TreeNodes, S # {} PROVE \E m \in S : parentOf'[m] \notin S
    <3>1. CASE S = {n}
      BY <1>1, <1>2, <3>1
    <3>2. CASE S # {n}
      <4>1. PICK m \in S \ {n} : parentOf[m] \notin S \ {n}
        <5>1. S \ {n} \in SUBSET TreeNodes /\ S \ {n} # {}
          BY <2>1, <3>2
        <5>2. QED
          BY <5>1 DEF TreeInv, BornInv, Rooted
      <4>2. QED
        BY <1>2, <4>1
    <3>3. QED
      BY <3>1, <3>2
  <2>2. QED
    BY <2>1 DEF Rooted
<1>6. BornInv'
  <2>1. ASSUME NEW m \in TreeNodes, parentOf'[m] \in TreeNodes
        PROVE  parentOf'[parentOf'[m]] # Unborn
    <3>1. PICK q \in TreeNodes : q = parentOf'[m]
      BY <2>1
    <3>2. Born(q)
      BY <1>1, <1>2, <3>1 DEF TreeInv, BornInv
    <3>3. QED
      BY <1>3, <3>1, <3>2 DEF Born
  <2>2. ASSUME NEW m \in live' PROVE Born(m)' /\ parentOf'[m] \in LiveOrNone'
    BY <1>1, <1>2, <1>3, <1>4, <2>2 DEF TreeInv, Tree!TypeOK, BornInv, LiveOrNone
  <2>3. ASSUME NEW m \in screen'.rows \cup answer'.rows.rows PROVE Born(m)'
    <3>1. m \in TreeNodes
      BY <2>3 DEF TreeInv, Tree!TypeOK, Tree!RowSets
    <3>2. QED
      BY <1>3, <2>3, <3>1 DEF TreeInv, BornInv
  <2>4. QED
    BY <1>5, <2>1, <2>2, <2>3 DEF BornInv, Born
<1>7. Tree!TypeOK'
  <2>1. parentOf' \in [TreeNodes -> TreeNodes \cup {None, Unborn}] /\ live' \in SUBSET TreeNodes
    BY <1>1 DEF TreeInv, Tree!TypeOK
  <2>2. QED
    BY <2>1 DEF TreeInv, Tree!TypeOK
<1>8. QuestionInv'
  <2>1. confirm.node \in TreeNodes \cup {None}
    BY TreeRecords DEF TreeInv, Questions, Tree!NodeOrNone
  <2>2. QED
    BY <1>3, <2>1 DEF TreeInv, QuestionInv
<1>9. RemovalInv'
  BY <1>3 DEF TreeInv, RemovalInv, Tree!AskedAbout
<1>10. SelectedInv'
  BY <1>1 DEF TreeInv, SelectedInv, Ended, LiveOrNone
<1>11. QED
  BY <1>6, <1>7, <1>8, <1>9, <1>10 DEF TreeInv

\* The administrator is asked about a row that is listed.
LEMMA AskStep ==
  ASSUME Tree!ConstantsOK, TreeInv, NEW n \in TreeNodes, Tree!Ask(n) PROVE TreeInv'
<1>1. /\ UNCHANGED <<page, parentOf, live, filter, screen, answer, selected, removal, adding,
                     strayed>>
      /\ n \in screen.rows
      /\ confirm' = [node |-> n, up |-> parentOf[n], flag |-> n \in screen.branches,
                     says |-> IF n \in screen.branches THEN "branch" ELSE "leaf",
                     reloaded |-> FALSE]
  BY DEF Tree!Ask, Tree!IsBranch
<1>2. Born(n) /\ parentOf[n] \in Tree!NodeOrNone
  BY <1>1 DEF TreeInv, BornInv, Born, Tree!TypeOK, Tree!NodeOrNone
<1>3. /\ confirm' \in Questions /\ confirm'.node = n /\ confirm'.up = parentOf[n]
      /\ confirm'.flag <=> confirm'.says = "branch"
      /\ confirm'.flag <=> n \in screen.branches
  <2>1. CASE n \in screen.branches
    <3>1. confirm' = [node |-> n, up |-> parentOf[n], flag |-> TRUE, says |-> "branch",
                      reloaded |-> FALSE]
      BY <1>1, <2>1
    <3>2. QED
      BY <1>2, <2>1, <3>1 DEF Questions, Tree!NodeOrNone, Tree!Sayings
  <2>2. CASE n \notin screen.branches
    <3>1. confirm' = [node |-> n, up |-> parentOf[n], flag |-> FALSE, says |-> "leaf",
                      reloaded |-> FALSE]
      <4>1. (n \in screen.branches) = FALSE
        BY <2>2
      <4>2. QED
        BY <1>1, <4>1
    <3>2. QED
      BY <1>2, <2>2, <3>1 DEF Questions, Tree!NodeOrNone, Tree!Sayings
  <2>3. QED
    BY <2>1, <2>2
<1>4. Tree!TypeOK'
  BY <1>1, <1>3 DEF TreeInv, Tree!TypeOK, Questions
<1>5. QuestionInv'
  BY <1>1, <1>2, <1>3 DEF QuestionInv, Born
<1>6. QED
  BY <1>1, <1>4, <1>5, SameRows, SameRemovals, SameSelection DEF TreeInv

LEMMA CancelDeletion == ASSUME TreeInv, Tree!Cancel PROVE TreeInv'
<1>1. /\ UNCHANGED <<page, parentOf, live, filter, screen, answer, selected, removal, adding,
                     strayed>>
      /\ confirm' = Tree!NoConfirm
  BY DEF Tree!Cancel
<1>2. Tree!TypeOK' /\ QuestionInv'
  BY <1>1, NothingAsked DEF TreeInv, Tree!TypeOK, Questions, QuestionInv
<1>3. QED
  BY <1>1, <1>2, SameRows, SameRemovals, SameSelection DEF TreeInv

\* A removal that is sent is not yet served, and takes a branch if the dialog said so.
LEMMA ConfirmStep ==
  ASSUME Tree!ConstantsOK, TreeInv, NEW c \in TreeCalls, Tree!Confirm(c) PROVE TreeInv'
<1>1. /\ UNCHANGED <<page, parentOf, live, filter, screen, answer, selected, confirm, adding,
                     strayed>>
      /\ confirm.node # None /\ removal[c].st = "none"
  BY DEF Tree!Confirm
<1>2. PICK cascade \in BOOLEAN :
        cascade = (IF page.flag THEN confirm.flag ELSE confirm.node \in screen.branches)
  <2>1. page.flag \in BOOLEAN /\ confirm.flag \in BOOLEAN
    BY TreeRecords, PageFlag DEF TreeInv, Tree!TypeOK, Questions
  <2>2. PICK branch \in BOOLEAN : branch = (confirm.node \in screen.branches)
    <3>1. CASE confirm.node \in screen.branches
      <4>1. TRUE = (confirm.node \in screen.branches)
        BY <3>1
      <4>2. QED
        BY <4>1
    <3>2. CASE confirm.node \notin screen.branches
      <4>1. FALSE = (confirm.node \in screen.branches)
        BY <3>2
      <4>2. QED
        BY <4>1
    <3>3. QED
      BY <3>1, <3>2
  <2>3. QED
    BY <2>1, <2>2
<1>3. removal' = [removal EXCEPT ![c] =
        [Tree!NoRemoval EXCEPT !.st = "sent", !.node = confirm.node, !.up = confirm.up,
           !.says = confirm.says, !.cascade = cascade, !.reloaded = confirm.reloaded]]
  BY <1>2 DEF Tree!Confirm, Tree!Cascades, Tree!IsBranch
<1>4. confirm \in Questions /\ removal \in [TreeCalls -> Removals]
  BY TreeRecords DEF TreeInv
<1>5. /\ removal'[c] \in Removals /\ removal'[c].st = "sent"
      /\ removal'[c].node = confirm.node /\ removal'[c].up = confirm.up
      /\ removal'[c].says = confirm.says /\ removal'[c].cascade = cascade
      /\ removal'[c].reloaded = confirm.reloaded
  BY <1>3, <1>4, NothingAsked DEF Questions, Removals
<1>6. /\ removal' \in [TreeCalls -> Removals]
      /\ \A d \in TreeCalls : d # c => removal'[d] = removal[d]
  <2>1. \A d \in TreeCalls : d # c => removal'[d] = removal[d]
    BY <1>3, <1>4
  <2>2. \A d \in TreeCalls : removal'[d] \in Removals
    BY <1>4, <1>5, <2>1
  <2>3. removal' = [d \in TreeCalls |-> removal'[d]]
    BY <1>3, <1>4
  <2>4. QED
    BY <2>1, <2>2, <2>3
<1>7. Tree!TypeOK'
  BY <1>1, <1>6 DEF TreeInv, Tree!TypeOK, Removals
<1>8. RemovalInv'
  <2>1. /\ removal'[c].node \in TreeNodes /\ Born(removal'[c].node)
        /\ removal'[c].up = parentOf[removal'[c].node]
    BY <1>1, <1>4, <1>5 DEF TreeInv, QuestionInv, Questions, Tree!NodeOrNone
  <2>2. removal'[c].cascade =>
          removal'[c].says = "branch" \/ (removal'[c].reloaded /\ ~page.flag)
    <3>1. page.flag \in BOOLEAN /\ confirm.flag \in BOOLEAN
      BY <1>4, PageFlag DEF TreeInv, Tree!TypeOK, Questions
    <3>2. /\ confirm.flag <=> confirm.says = "branch"
          /\ ~confirm.reloaded => (confirm.flag <=> confirm.node \in screen.branches)
      BY <1>1 DEF TreeInv, QuestionInv
    <3>3. QED
      BY <1>2, <1>4, <1>5, <3>1, <3>2 DEF Questions
  <2>3. \A d \in TreeCalls : d # c => removal'[d] = removal[d]
    BY <1>6
  <2>4. ASSUME NEW d \in TreeCalls, removal'[d].st # "none"
        PROVE  /\ removal'[d].node \in TreeNodes /\ parentOf'[removal'[d].node] # Unborn
               /\ removal'[d].up = parentOf'[removal'[d].node]
               /\ removal'[d].cascade => Tree!AskedAbout(d)'
    <3>1. CASE d = c
      BY <1>1, <2>1, <2>2, <3>1 DEF Born, Tree!AskedAbout
    <3>2. CASE d # c
      BY <1>1, <2>3, <2>4, <3>2 DEF TreeInv, RemovalInv, Born, Tree!AskedAbout
    <3>3. QED
      BY <3>1, <3>2
  <2>5. QED
    BY <2>4 DEF RemovalInv, Born
<1>9. SelectedInv'
  <2>1. \A d \in TreeCalls : Ended(d)' <=> Ended(d)
    BY <1>1, <1>5, <1>6 DEF Ended
  <2>2. \A d \in TreeCalls : Ended(d) => removal'[d] = removal[d]
    BY <1>1, <1>6 DEF Ended
  <2>3. QED
    BY <1>1, <2>1, <2>2 DEF TreeInv, SelectedInv, LiveOrNone
<1>10. QED
  BY <1>1, <1>7, <1>8, <1>9, SameRows, SameQuestion DEF TreeInv

\* A step of a removal that leaves its row and what it was asked.
LEMMA OnwardStep ==
  ASSUME TreeInv, NEW c \in TreeCalls, removal[c].st # "none",
         NEW st \in {"served", "settling"}, NEW shift \in BOOLEAN,
         removal' = [removal EXCEPT ![c] = [removal[c] EXCEPT !.st = st, !.moves = shift]]
  PROVE  /\ removal' \in [TreeCalls -> Removals]
         /\ \A d \in TreeCalls : d # c => removal'[d] = removal[d]
         /\ removal'[c].st = st /\ removal'[c].moves = shift
         /\ removal'[c].node = removal[c].node /\ removal'[c].up = removal[c].up
         /\ removal'[c].cascade = removal[c].cascade
         /\ UNCHANGED <<page, parentOf>> => RemovalInv'
<1>1. removal \in [TreeCalls -> Removals]
  BY TreeRecords DEF TreeInv
<1>2. PICK r \in Removals : r = removal[c]
  BY <1>1
<1>3. removal'[c] = [r EXCEPT !.st = st, !.moves = shift]
  BY <1>1, <1>2
<1>4. /\ removal'[c] \in Removals /\ removal'[c].st = st /\ removal'[c].moves = shift
      /\ removal'[c].node = r.node /\ removal'[c].up = r.up /\ removal'[c].says = r.says
      /\ removal'[c].cascade = r.cascade /\ removal'[c].reloaded = r.reloaded
  <2>1. DOMAIN r = {"st", "node", "up", "says", "cascade", "reloaded", "moves"}
    BY DEF Removals
  <2>2. /\ removal'[c].st = st /\ removal'[c].moves = shift
        /\ removal'[c].node = r.node /\ removal'[c].up = r.up /\ removal'[c].says = r.says
        /\ removal'[c].cascade = r.cascade /\ removal'[c].reloaded = r.reloaded
    BY <1>3, <2>1
  <2>3. PICK q : q = [r EXCEPT !.st = st]
    OBVIOUS
  <2>4. q \in Removals
    BY <2>3 DEF Removals
  <2>5. [q EXCEPT !.moves = shift] \in Removals
    BY <2>4 DEF Removals
  <2>6. removal'[c] \in Removals
    BY <1>3, <2>3, <2>5
  <2>7. QED
    BY <2>2, <2>6
<1>5. \A d \in TreeCalls : d # c => removal'[d] = removal[d]
  BY <1>1
<1>6. removal' \in [TreeCalls -> Removals]
  <2>1. \A d \in TreeCalls : removal'[d] \in Removals
    BY <1>1, <1>4, <1>5
  <2>2. removal' = [d \in TreeCalls |-> removal'[d]]
    BY <1>1
  <2>3. QED
    BY <2>1, <2>2
<1>7. ASSUME UNCHANGED <<page, parentOf>> PROVE RemovalInv'
  <2>1. ASSUME NEW d \in TreeCalls, removal'[d].st # "none"
        PROVE  /\ removal'[d].node \in TreeNodes /\ parentOf'[removal'[d].node] # Unborn
               /\ removal'[d].up = parentOf'[removal'[d].node]
               /\ removal'[d].cascade => Tree!AskedAbout(d)'
    <3>1. CASE d = c
      BY <1>2, <1>4, <1>7, <3>1 DEF TreeInv, RemovalInv, Born, Tree!AskedAbout
    <3>2. CASE d # c
      BY <1>5, <1>7, <2>1, <3>2 DEF TreeInv, RemovalInv, Born, Tree!AskedAbout
    <3>3. QED
      BY <3>1, <3>2
  <2>2. QED
    BY <2>1 DEF RemovalInv, Born
<1>8. QED
  BY <1>2, <1>4, <1>5, <1>6, <1>7

\* What is left of the rows when one that has no children there, or a whole branch,
\* is removed; the row above stays.
LEMMA RowsLeft ==
  ASSUME Tree!ConstantsOK, Tree!TypeOK, BornInv, NEW n \in TreeNodes, NEW gone,
         gone = Tree!Branch(n) \/ (gone = {n} /\ Tree!ChildrenOf(n, live) = {}),
         live' = live \ gone, UNCHANGED <<parentOf, screen, answer>>
  PROVE  /\ BornInv' /\ live' \in SUBSET TreeNodes /\ n \notin live'
         /\ n \in live => parentOf[n] \in LiveOrNone'
<1>1. /\ n \in gone /\ parentOf[n] \notin gone
      /\ \A c \in live : parentOf[c] \in gone => c \in gone
  <2>1. live \in SUBSET TreeNodes /\ Rooted
    BY DEF BornInv, Tree!TypeOK
  <2>2. CASE gone = Tree!Branch(n)
    BY <2>1, <2>2, BranchFacts
  <2>3. CASE gone = {n} /\ Tree!ChildrenOf(n, live) = {}
    <3>1. parentOf[n] # n
      BY <2>1, BranchFacts
    <3>2. QED
      BY <2>1, <2>3, <3>1 DEF Tree!ChildrenOf
  <2>4. QED
    BY <2>2, <2>3
<1>2. live' \in SUBSET TreeNodes /\ n \notin live' /\ \A c : c \in live' => c \in live
  BY <1>1 DEF Tree!TypeOK
<1>3. ASSUME NEW c \in live, c \notin gone \/ c = n PROVE parentOf[c] \in live' \cup {None}
  BY <1>1, <1>3 DEF BornInv, LiveOrNone
<1>4. BornInv'
  <2>1. Rooted' /\ \A c : Born(c)' <=> Born(c)
    BY DEF BornInv, Rooted, Born
  <2>2. \A c \in live' : parentOf[c] \in live' \cup {None}
    BY <1>2, <1>3
  <2>3. QED
    BY <1>2, <2>1, <2>2 DEF BornInv, Born, LiveOrNone
<1>5. QED
  BY <1>2, <1>3, <1>4 DEF LiveOrNone

\* One removal is served.
LEMMA ServeRemovalStep ==
  ASSUME Tree!ConstantsOK, TreeInv, NEW c \in TreeCalls, Tree!ServeRemoval(c) PROVE TreeInv'
<1>1. PICK n : n = removal[c].node
  OBVIOUS
<1>2. PICK gone : gone = Tree!Taken(c)
  OBVIOUS
<1>3. /\ UNCHANGED <<page, parentOf, filter, screen, answer, selected, confirm, adding, used>>
      /\ removal[c].st = "sent" /\ n \in live /\ live' = live \ gone
      /\ strayed' = (strayed \/ Tree!Removing # {c} \/ adding.st # "none"
                             \/ selected \in gone \ {n})
  BY <1>1, <1>2 DEF Tree!ServeRemoval, Tree!Refused
<1>4. removal \in [TreeCalls -> Removals] /\ n \in TreeNodes
  BY <1>1, <1>3, TreeRecords DEF TreeInv, RemovalInv
<1>5. gone = Tree!Branch(n) \/ (gone = {n} /\ Tree!ChildrenOf(n, live) = {})
  BY <1>1, <1>2 DEF Tree!ServeRemoval, Tree!Taken, Tree!Refused
<1>6. PICK shift \in BOOLEAN : shift = removal[c].moves
  BY <1>4 DEF Removals
<1>7. removal' = [removal EXCEPT ![c] = [removal[c] EXCEPT !.st = "served", !.moves = shift]]
  <2>1. PICK r \in Removals : r = removal[c]
    BY <1>4
  <2>2. [r EXCEPT !.st = "served"] = [r EXCEPT !.st = "served", !.moves = shift]
    BY <1>6, <2>1 DEF Removals
  <2>3. removal' = [removal EXCEPT ![c] = [r EXCEPT !.st = "served"]]
    BY <2>1 DEF Tree!ServeRemoval
  <2>4. QED
    BY <2>1, <2>2, <2>3
<1>8. /\ removal' \in [TreeCalls -> Removals] /\ RemovalInv'
      /\ \A d \in TreeCalls : d # c => removal'[d] = removal[d]
      /\ removal'[c].st = "served" /\ removal'[c].node = n /\ removal'[c].up = removal[c].up
  BY <1>1, <1>3, <1>7, OnwardStep
<1>9. BornInv' /\ live' \in SUBSET TreeNodes /\ parentOf[n] \in LiveOrNone'
  BY <1>3, <1>4, <1>5, RowsLeft DEF TreeInv
<1>10. strayed' \in BOOLEAN
  BY <1>3 DEF TreeInv, Tree!TypeOK
<1>11. Tree!TypeOK'
  BY <1>3, <1>8, <1>9, <1>10 DEF TreeInv, Tree!TypeOK, Removals
<1>12. SelectedInv'
  <2>1. SUFFICES ASSUME ~strayed'
                 PROVE  /\ \A d \in TreeCalls : Ended(d)' => d = c
                        /\ removal'[c].up \in LiveOrNone'
                        /\ selected' \in LiveOrNone' \cup {n}
    BY <1>8 DEF SelectedInv, Ended
  <2>2. ~strayed /\ Tree!Removing = {c} /\ ~(selected \in gone \ {n})
    BY <1>3, <2>1
  <2>3. \A d \in TreeCalls : Ended(d)' => d = c
    BY <1>8, <2>2 DEF Tree!Removing, Ended
  <2>4. removal'[c].up \in LiveOrNone'
    BY <1>1, <1>3, <1>8, <1>9 DEF TreeInv, RemovalInv
  <2>5. \A d \in TreeCalls : ~Ended(d)
    BY <1>3, <2>2 DEF Tree!Removing, Ended
  <2>6. selected \in LiveOrNone
    BY <2>2, <2>5 DEF TreeInv, SelectedInv
  <2>7. selected' \in LiveOrNone' \cup {n}
    BY <1>3, <2>2, <2>6 DEF LiveOrNone
  <2>8. QED
    BY <2>3, <2>4, <2>7
<1>13. QED
  BY <1>3, <1>8, <1>9, <1>11, <1>12, SameQuestion DEF TreeInv

\* The page learns of it, and notes whether its row is the one selected.
LEMMA AnswerRemovalStep ==
  ASSUME Tree!ConstantsOK, TreeInv, NEW c \in TreeCalls, Tree!AnswerRemoval(c) PROVE TreeInv'
<1>1. PICK n : n = removal[c].node
  OBVIOUS
<1>2. PICK shift \in BOOLEAN : shift <=> Tree!Detail = n
  <2>1. CASE Tree!Detail = n
    BY <2>1
  <2>2. CASE Tree!Detail # n
    BY <2>2
  <2>3. QED
    BY <2>1, <2>2
<1>3. /\ UNCHANGED <<page, parentOf, live, filter, screen, selected, confirm, adding, used>>
      /\ removal[c].st = "served" /\ answer' \in {answer, Tree!Asked}
      /\ strayed' = (strayed \/ selected \notin screen.tree \cup {None})
  BY DEF Tree!AnswerRemoval, Tree!AskAgain
<1>4. removal' = [removal EXCEPT ![c] = [removal[c] EXCEPT !.st = "settling", !.moves = shift]]
  <2>1. removal' = [removal EXCEPT ![c] = [removal[c] EXCEPT !.st = "settling",
                                                             !.moves = (Tree!Detail = n)]]
    BY <1>1 DEF Tree!AnswerRemoval
  <2>2. shift = (Tree!Detail = n)
    BY <1>2
  <2>3. QED
    BY <2>1, <2>2
<1>5. /\ removal' \in [TreeCalls -> Removals] /\ RemovalInv'
      /\ \A d \in TreeCalls : d # c => removal'[d] = removal[d]
      /\ removal'[c].st = "settling" /\ removal'[c].moves = shift
      /\ removal'[c].up = removal[c].up
  BY <1>3, <1>4, OnwardStep
<1>6. strayed' \in BOOLEAN
  BY <1>3 DEF TreeInv, Tree!TypeOK
<1>7. Tree!TypeOK'
  BY <1>3, <1>5, <1>6, NoRowsAreRows DEF TreeInv, Tree!TypeOK, Removals, TreeReadings
<1>8. SelectedInv'
  <2>1. SUFFICES ASSUME ~strayed'
                 PROVE  /\ \A d \in TreeCalls : Ended(d)' => d = c
                        /\ removal'[c].up \in LiveOrNone'
                        /\ removal'[c].moves \/ selected' \in LiveOrNone'
    BY <1>5 DEF SelectedInv, Ended
  <2>2. ~strayed /\ selected \in screen.tree \cup {None} /\ Ended(c)
    BY <1>3, <2>1 DEF Ended
  <2>3. /\ \A d \in TreeCalls : Ended(d) => d = c
        /\ removal[c].up \in LiveOrNone
        /\ selected \in LiveOrNone \cup {n}
    BY <1>1, <1>3, <2>2 DEF TreeInv, SelectedInv
  <2>4. \A d \in TreeCalls : Ended(d)' => d = c
    BY <1>5, <2>3 DEF Ended
  <2>5. selected = n /\ selected \notin LiveOrNone => Tree!Detail = n
    BY <2>2 DEF Tree!Detail, LiveOrNone
  <2>6. QED
    BY <1>2, <1>3, <1>5, <2>3, <2>4, <2>5 DEF LiveOrNone
<1>9. QED
  BY <1>3, <1>5, <1>7, <1>8, SameRows, SameQuestion, NoRowsAreRows DEF TreeInv

\* A call that ends is forgotten, and what was asked with it.
LEMMA ForgetStep ==
  ASSUME TreeInv, NEW c \in TreeCalls, UNCHANGED <<page, parentOf>>,
         removal' = [removal EXCEPT ![c] = Tree!NoRemoval]
  PROVE  /\ removal' \in [TreeCalls -> Removals] /\ RemovalInv'
         /\ \A d \in TreeCalls : d # c => removal'[d] = removal[d]
         /\ removal'[c].st = "none"
<1>1. removal \in [TreeCalls -> Removals]
  BY TreeRecords DEF TreeInv
<1>2. removal' \in [TreeCalls -> Removals] /\ removal'[c].st = "none"
  BY <1>1, NothingAsked
<1>3. \A d \in TreeCalls : d # c => removal'[d] = removal[d]
  BY <1>1
<1>4. ASSUME NEW d \in TreeCalls, removal'[d].st # "none"
      PROVE  /\ removal'[d].node \in TreeNodes /\ parentOf'[removal'[d].node] # Unborn
             /\ removal'[d].up = parentOf'[removal'[d].node]
             /\ removal'[d].cascade => Tree!AskedAbout(d)'
  BY <1>2, <1>3, <1>4 DEF TreeInv, RemovalInv, Born, Tree!AskedAbout
<1>5. RemovalInv'
  BY <1>4 DEF RemovalInv, Born
<1>6. QED
  BY <1>2, <1>3, <1>5

LEMMA SettleRemovalStep ==
  ASSUME Tree!ConstantsOK, TreeInv, NEW c \in TreeCalls, Tree!SettleRemoval(c) PROVE TreeInv'
<1>1. /\ UNCHANGED <<page, parentOf, live, filter, screen, answer, adding, strayed>>
      /\ removal[c].st = "settling" /\ confirm' = Tree!NoConfirm
      /\ removal' = [removal EXCEPT ![c] = Tree!NoRemoval]
      /\ selected' = IF removal[c].moves THEN removal[c].up ELSE selected
  BY DEF Tree!SettleRemoval, Tree!Reselected
<1>2. /\ removal' \in [TreeCalls -> Removals] /\ RemovalInv'
      /\ \A d \in TreeCalls : d # c => removal'[d] = removal[d]
      /\ removal'[c].st = "none"
  BY <1>1, ForgetStep
<1>3. selected' \in Tree!NodeOrNone
  <2>1. removal[c].up \in Tree!NodeOrNone /\ selected \in Tree!NodeOrNone
    BY TreeRecords DEF TreeInv, Tree!TypeOK, Removals
  <2>2. QED
    BY <1>1, <2>1
<1>4. Tree!TypeOK'
  BY <1>1, <1>2, <1>3, NothingAsked DEF TreeInv, Tree!TypeOK, Removals, Questions
<1>5. QuestionInv'
  BY <1>1, NothingAsked DEF QuestionInv
<1>6. SelectedInv'
  <2>1. SUFFICES ASSUME ~strayed'
                 PROVE  (\A d \in TreeCalls : ~Ended(d)') /\ selected' \in LiveOrNone'
    BY DEF SelectedInv
  <2>2. Ended(c) /\ ~strayed
    BY <1>1, <2>1 DEF Ended
  <2>3. /\ \A d \in TreeCalls : Ended(d) => d = c
        /\ removal[c].up \in LiveOrNone
        /\ removal[c].moves \/ selected \in LiveOrNone
    BY <1>1, <2>2 DEF TreeInv, SelectedInv
  <2>4. \A d \in TreeCalls : ~Ended(d)'
    BY <1>2, <2>3 DEF Ended
  <2>5. selected' \in LiveOrNone'
    BY <1>1, <2>3 DEF LiveOrNone
  <2>6. QED
    BY <2>4, <2>5
<1>7. QED
  BY <1>1, <1>2, <1>4, <1>5, <1>6, SameRows DEF TreeInv

\* A removal is refused, with nothing done, or its call fails.
LEMMA FailRemovalStep ==
  ASSUME Tree!ConstantsOK, TreeInv, NEW c \in TreeCalls, Tree!FailRemoval(c) PROVE TreeInv'
<1>1. /\ UNCHANGED <<page, parentOf, live, filter, screen, answer, selected, adding>>
      /\ confirm' = Tree!NoConfirm
      /\ removal' = [removal EXCEPT ![c] = Tree!NoRemoval]
      /\ strayed' = TRUE \/ (strayed' = strayed /\ removal[c].st = "sent")
  BY DEF Tree!FailRemoval
<1>2. /\ removal' \in [TreeCalls -> Removals] /\ RemovalInv'
      /\ \A d \in TreeCalls : d # c => removal'[d] = removal[d]
      /\ removal'[c].st = "none"
  BY <1>1, ForgetStep
<1>3. Tree!TypeOK'
  <2>1. strayed' \in BOOLEAN
    BY <1>1 DEF TreeInv, Tree!TypeOK
  <2>2. QED
    BY <1>1, <1>2, <2>1, NothingAsked DEF TreeInv, Tree!TypeOK, Removals, Questions
<1>4. QuestionInv'
  BY <1>1, NothingAsked DEF QuestionInv
<1>5. SelectedInv'
  <2>1. CASE strayed' = TRUE
    BY <2>1 DEF SelectedInv
  <2>2. CASE strayed' = strayed /\ removal[c].st = "sent"
    <3>1. \A d \in TreeCalls : Ended(d)' <=> Ended(d)
      BY <1>2, <2>2 DEF Ended
    <3>2. \A d \in TreeCalls : Ended(d) => removal'[d] = removal[d]
      BY <1>2, <2>2 DEF Ended
    <3>3. QED
      BY <1>1, <2>2, <3>1, <3>2 DEF TreeInv, SelectedInv, LiveOrNone
  <2>3. QED
    BY <1>1, <2>1, <2>2
<1>6. QED
  BY <1>1, <1>2, <1>3, <1>4, <1>5, SameRows DEF TreeInv

\* Rows come and go that this page did not ask for.
LEMMA OthersStep ==
  ASSUME Tree!ConstantsOK, TreeInv, NEW n \in TreeNodes,
         \/ Tree!ServeChild(n) \/ Tree!OtherRemoves(n)
         \/ \E p \in TreeNodes : Tree!OtherAdds(n, p)
  PROVE  TreeInv'
<1>1. CASE Tree!ServeChild(n)
  <2>1. /\ adding.parent \in live /\ Tree!Create(n, adding.parent)
        /\ UNCHANGED <<page, filter, screen, answer, selected, confirm, removal, strayed>>
        /\ adding' = [adding EXCEPT !.st = "served"]
    BY <1>1 DEF Tree!ServeChild
  <2>2. PICK p \in TreeNodes : p = adding.parent
    BY <2>1 DEF TreeInv, Tree!TypeOK
  <2>3. adding' \in [st : {"none", "sent", "served", "settling"}, parent : Tree!NodeOrNone]
    BY <2>1 DEF TreeInv, Tree!TypeOK
  <2>4. QED
    BY <2>1, <2>2, <2>3, CreateStep
<1>2. CASE Tree!OtherRemoves(n)
  <2>1. /\ UNCHANGED <<page, parentOf, filter, screen, answer, selected, confirm, removal,
                       adding>>
        /\ live' = live \ Tree!Branch(n) /\ strayed' = TRUE
    BY <1>2 DEF Tree!OtherRemoves
  <2>2. BornInv' /\ live' \in SUBSET TreeNodes
    BY <2>1, RowsLeft DEF TreeInv
  <2>3. Tree!TypeOK' /\ SelectedInv'
    BY <2>1, <2>2 DEF TreeInv, Tree!TypeOK, SelectedInv
  <2>4. QED
    BY <2>1, <2>2, <2>3, SameRemovals, SameQuestion DEF TreeInv
<1>3. ASSUME NEW p \in TreeNodes, Tree!OtherAdds(n, p) PROVE TreeInv'
  <2>1. /\ p \in live /\ Tree!Create(n, p) /\ UNCHANGED adding
        /\ UNCHANGED <<page, filter, screen, answer, selected, confirm, removal, strayed>>
    BY <1>3 DEF Tree!OtherAdds
  <2>2. QED
    BY <2>1, CreateStep DEF TreeInv, Tree!TypeOK
<1>4. QED
  BY <1>1, <1>2, <1>3

LEMMA TreeNext == ASSUME Tree!ConstantsOK, TreeInv, [Tree!Next]_(Tree!treeVars) PROVE TreeInv'
<1>1. CASE UNCHANGED Tree!treeVars
  <2>1. UNCHANGED <<page, parentOf, live, filter, screen, answer, selected, confirm, removal,
                    adding, strayed>>
    BY <1>1 DEF Tree!treeVars
  <2>2. Tree!TypeOK'
    BY <2>1 DEF TreeInv, Tree!TypeOK
  <2>3. QED
    BY <2>1, <2>2, SameRows, SameRemovals, SameQuestion, SameSelection DEF TreeInv
<1>2. ASSUME NEW c \in TreeCalls,
             \/ Tree!Confirm(c) \/ Tree!ServeRemoval(c) \/ Tree!AnswerRemoval(c)
             \/ Tree!SettleRemoval(c) \/ Tree!FailRemoval(c)
      PROVE  TreeInv'
  BY <1>2, ConfirmStep, ServeRemovalStep, AnswerRemovalStep, SettleRemovalStep,
     FailRemovalStep
<1>3. QED
  BY <1>1, <1>2, AskedStep, ScreenStep, SelectStep, SettleChildStep, AskStep, CancelDeletion,
     OthersStep
     DEF Tree!Next

\* Only the service of a removal takes rows away for it, and without its children
\* unless it cascades.
LEMMA RemovalsAreTold ==
  ASSUME Tree!ConstantsOK, TreeInv, Tree!Next PROVE Tree!ToldStep
<1>1. SUFFICES ASSUME NEW c \in TreeCalls, Tree!TakesBranch(c) PROVE Tree!AskedAbout(c)
  BY DEF Tree!ToldStep
<1>2. /\ removal[c].st = "sent" /\ removal'[c].st = "served"
      /\ live \ live' # {removal[c].node}
  BY <1>1 DEF Tree!TakesBranch
<1>3. removal \in [TreeCalls -> Removals]
  BY TreeRecords DEF TreeInv
<1>4. Tree!ServeRemoval(c)
  <2>1. ASSUME NEW d \in TreeCalls, d # c \/ ~Tree!ServeRemoval(d),
               \/ Tree!Confirm(d) \/ Tree!ServeRemoval(d) \/ Tree!AnswerRemoval(d)
               \/ Tree!SettleRemoval(d) \/ Tree!FailRemoval(d)
        PROVE  FALSE
    <3>1. CASE d # c
      <4>1. removal'[c] = removal[c]
        BY <1>3, <2>1, <3>1
           DEF Tree!Confirm, Tree!ServeRemoval, Tree!AnswerRemoval, Tree!SettleRemoval,
               Tree!FailRemoval
      <4>2. QED
        BY <1>2, <4>1
    <3>2. CASE d = c
      <4>1. Tree!FailRemoval(c)
        BY <1>2, <2>1, <3>2 DEF Tree!Confirm, Tree!AnswerRemoval, Tree!SettleRemoval
      <4>2. removal'[c].st = "none"
        BY <1>3, <4>1, NothingAsked DEF Tree!FailRemoval
      <4>3. QED
        BY <1>2, <4>2
    <3>3. QED
      BY <3>1, <3>2
  <2>2. CASE UNCHANGED removal
    BY <1>2, <2>2
  <2>3. QED
    BY <2>1, <2>2
       DEF Tree!Next, Tree!ServeTree, Tree!ReceiveTree, Tree!FailTree, Tree!SetFilter,
           Tree!Select, Tree!AddChild, Tree!ServeChild, Tree!Ask, Tree!OtherRemoves,
           Tree!OtherAdds, Tree!AnswerChild, Tree!SettleChild, Tree!FailChild, Tree!Cancel
<1>5. removal[c].cascade
  BY <1>2, <1>4 DEF Tree!ServeRemoval, Tree!Refused, Tree!Taken
<1>6. QED
  BY <1>2, <1>5 DEF TreeInv, RemovalInv

\* The trees, the confirmation and the removals keep their types.
THEOREM TreeTyped == ASSUME Tree!ConstantsOK PROVE Tree!Spec => []Tree!TypeOK
<1>1. TreeInv => Tree!TypeOK
  BY DEF TreeInv
<1>2. QED
  BY <1>1, TreeInit, TreeNext, PTL DEF Tree!Spec

\* Once everything is answered the selected row exists, but for the causes the
\* property names.
THEOREM SelectionExists == ASSUME Tree!ConstantsOK PROVE Tree!Spec => []Tree!SelectionAlive
<1>1. TreeInv => Tree!SelectionAlive
  BY DEF TreeInv, SelectedInv, Ended, LiveOrNone, Tree!SelectionAlive, Tree!Idle,
     Tree!Removing
<1>2. QED
  BY <1>1, TreeInit, TreeNext, PTL DEF Tree!Spec

\* A branch is only removed where the dialog asked about one, or the tree was read
\* again before it was confirmed.
THEOREM BranchesAreAskedAbout ==
  ASSUME Tree!ConstantsOK PROVE Tree!Spec => [][Tree!ToldStep]_(Tree!treeVars)
<1>1. QED
  BY TreeInit, TreeNext, RemovalsAreTold, PTL DEF Tree!Spec

---------------------------------------------------------------------------
(* AssignDialog: the tree of checkboxes *)

\* A forest: every branch ends.
Grown == parent \in Dialog!Forests

LEMMA Parents ==
  ASSUME Grown
  PROVE  /\ parent \in [Assignables -> Assignables \cup {None}]
         /\ \A S \in SUBSET Assignables : S # {} => \E n \in S : parent[n] \notin S
  BY DEF Grown, Dialog!Forests

\* The ancestors of a node are a set with the node and the parents of its nodes,
LEMMA AncestryRises ==
  ASSUME Grown, NEW n \in Assignables
  PROVE  n \in Dialog!Ancestry(n) /\ Dialog!Rising(Dialog!Ancestry(n))
<1>1. n \in Dialog!Ancestry(n)
  BY DEF Dialog!Ancestry
<1>2. ASSUME NEW a \in Dialog!Ancestry(n), parent[a] # None
      PROVE  parent[a] \in Dialog!Ancestry(n)
  <2>1. a \in Assignables /\ parent[a] \in Assignables
    BY <1>2, Parents DEF Dialog!Ancestry
  <2>2. ASSUME NEW S \in SUBSET Assignables, n \in S, Dialog!Rising(S)
        PROVE  parent[a] \in S
    <3>1. a \in S
      BY <2>2 DEF Dialog!Ancestry
    <3>2. QED
      BY <1>2, <2>2, <3>1 DEF Dialog!Rising
  <2>3. QED
    BY <2>1, <2>2 DEF Dialog!Ancestry
<1>3. QED
  BY <1>1, <1>2 DEF Dialog!Rising

\* and the least such set.
LEMMA AncestryLeast ==
  ASSUME NEW n \in Assignables, NEW S \in SUBSET Assignables, n \in S, Dialog!Rising(S)
  PROVE  Dialog!Ancestry(n) \subseteq S
  BY DEF Dialog!Ancestry

\* The ancestors of an ancestor are ancestors.
LEMMA AncestryDeep ==
  ASSUME Grown, NEW n \in Assignables, NEW a \in Dialog!Ancestry(n)
  PROVE  a \in Assignables /\ Dialog!Ancestry(a) \subseteq Dialog!Ancestry(n)
<1>1. a \in Assignables /\ Dialog!Ancestry(n) \in SUBSET Assignables
  BY DEF Dialog!Ancestry
<1>2. QED
  BY <1>1, AncestryRises, AncestryLeast

\* The ancestors of a node are the node and those of its parent.
LEMMA AncestryStep ==
  ASSUME Grown, NEW n \in Assignables
  PROVE  /\ parent[n] = None => Dialog!Ancestry(n) \subseteq {n}
         /\ parent[n] # None => Dialog!Ancestry(n) \subseteq {n} \cup Dialog!Ancestry(parent[n])
<1>1. CASE parent[n] = None
  <2>1. Dialog!Rising({n})
    BY <1>1 DEF Dialog!Rising
  <2>2. QED
    BY <1>1, <2>1, AncestryLeast
<1>2. CASE parent[n] # None
  <2>1. parent[n] \in Assignables
    BY <1>2, Parents
  <2>2. /\ parent[n] \in Dialog!Ancestry(parent[n])
        /\ Dialog!Rising(Dialog!Ancestry(parent[n]))
    BY <2>1, AncestryRises
  <2>3. Dialog!Rising({n} \cup Dialog!Ancestry(parent[n]))
    BY <2>2 DEF Dialog!Rising
  <2>4. {n} \cup Dialog!Ancestry(parent[n]) \in SUBSET Assignables
    BY DEF Dialog!Ancestry
  <2>5. QED
    BY <1>2, <2>3, <2>4, AncestryLeast
<1>3. QED
  BY <1>1, <1>2

\* Between a node and an ancestor of it there is a child of the ancestor.
LEMMA AncestryBelow ==
  ASSUME Grown, NEW n \in Assignables, NEW a \in Dialog!Ancestry(n), a # n
  PROVE  \E c \in Dialog!Children(a) : c \in Dialog!Ancestry(n)
<1>1. SUFFICES ASSUME \A c \in Dialog!Children(a) : c \notin Dialog!Ancestry(n)
               PROVE  FALSE
  OBVIOUS
<1>2. n \in Dialog!Ancestry(n) \ {a} /\ Dialog!Ancestry(n) \ {a} \in SUBSET Assignables
  BY AncestryRises DEF Dialog!Ancestry
<1>3. Dialog!Rising(Dialog!Ancestry(n) \ {a})
  <2>1. ASSUME NEW m \in Dialog!Ancestry(n) \ {a}, parent[m] # None
        PROVE  parent[m] \in Dialog!Ancestry(n) \ {a}
    <3>1. parent[m] \in Dialog!Ancestry(n)
      BY <2>1, AncestryRises DEF Dialog!Rising
    <3>2. m \in Assignables
      BY <1>2
    <3>3. parent[m] # a
      BY <1>1, <3>2 DEF Dialog!Children
    <3>4. QED
      BY <3>1, <3>3
  <2>2. QED
    BY <2>1 DEF Dialog!Rising
<1>4. QED
  BY <1>2, <1>3, AncestryLeast

\* No node is above and below another one.
LEMMA AncestryOneWay ==
  ASSUME Grown, NEW n \in Assignables, NEW a \in Dialog!Ancestry(n), n \in Dialog!Ancestry(a)
  PROVE  a = n
<1>1. SUFFICES ASSUME a # n PROVE FALSE
  OBVIOUS
<1>2. DEFINE S == {m \in Dialog!Ancestry(n) : n \in Dialog!Ancestry(m)}
<1>3. n \in S /\ S \in SUBSET Assignables
  BY AncestryRises DEF Dialog!Ancestry
<1>4. PICK m \in S : parent[m] \notin S
  BY <1>3, Parents
<1>5. m \in Assignables /\ m \in Dialog!Ancestry(n) /\ n \in Dialog!Ancestry(m)
  BY <1>3, <1>4
<1>6. CASE parent[m] = None
  <2>1. n = m
    BY <1>5, <1>6, AncestryStep
  <2>2. QED
    BY <1>1, <1>6, <2>1, AncestryStep
<1>7. CASE parent[m] # None
  <2>1. parent[m] \in Dialog!Ancestry(n) /\ parent[m] \in Assignables
    BY <1>5, <1>7, AncestryRises, Parents DEF Dialog!Rising
  <2>2. n \notin Dialog!Ancestry(parent[m])
    BY <1>4, <2>1
  <2>3. n = m
    BY <1>5, <1>7, <2>2, AncestryStep
  <2>4. a \in Dialog!Ancestry(parent[m])
    BY <1>1, <1>7, <2>3, AncestryStep
  <2>5. QED
    BY <2>1, <2>2, <2>4, AncestryDeep
<1>8. QED
  BY <1>6, <1>7

\* A selection of whole branches: a parent is in it exactly when its children are.
Whole(D) ==
  \A n \in Assignables : ~Dialog!Leaf(n) => (n \in D <=> Dialog!Children(n) \subseteq D)

\* Leaves nobody touched are as they were.
LeavesKept(D, base, touched) ==
  \A n \in Assignables : Dialog!Leaf(n) /\ n \notin touched => (n \in D <=> n \in base)

\* Children are below their parent, and so is what is below them.
LEMMA ChildrenBelow ==
  ASSUME Dialog!ConstantsOK, Grown, NEW n \in Assignables, NEW c \in Dialog!Children(n)
  PROVE  /\ c \in Assignables /\ ~Dialog!Leaf(n)
         /\ Dialog!Ancestry(c) \subseteq {c} \cup Dialog!Ancestry(n)
         /\ \A m \in Assignables : c \in Dialog!Ancestry(m) => n \in Dialog!Ancestry(m)
         /\ c \in Dialog!Subtree(n) /\ Dialog!Subtree(c) \subseteq Dialog!Subtree(n)
<1>1. c \in Assignables /\ parent[c] = n /\ n # None /\ ~Dialog!Leaf(n)
  BY DEF Dialog!Children, Dialog!Leaf, Dialog!ConstantsOK
<1>2. Dialog!Ancestry(c) \subseteq {c} \cup Dialog!Ancestry(n)
  BY <1>1, AncestryStep
<1>3. ASSUME NEW m \in Assignables, c \in Dialog!Ancestry(m)
      PROVE  n \in Dialog!Ancestry(m)
  BY <1>1, <1>3, AncestryRises DEF Dialog!Rising
<1>4. c \in Dialog!Subtree(n)
  BY <1>1, <1>3, AncestryRises DEF Dialog!Subtree
<1>5. QED
  BY <1>1, <1>2, <1>3, <1>4 DEF Dialog!Subtree

\* Only a leaf is alone below itself, and above no other node.
LEMMA LeavesAlone ==
  ASSUME Dialog!ConstantsOK, Grown, NEW n \in Assignables, Dialog!Leaf(n)
  PROVE  \A m \in Assignables : n \in Dialog!Ancestry(m) => m = n
<1>1. ASSUME NEW m \in Assignables, n \in Dialog!Ancestry(m), m # n
      PROVE  FALSE
  BY <1>1, AncestryBelow DEF Dialog!Leaf
<1>2. QED
  BY <1>1

\* What is below a selected node is selected.
LEMMA WholeDown ==
  ASSUME Dialog!ConstantsOK, Grown, NEW D, Whole(D),
         NEW n \in Assignables, n \in D, NEW m \in Dialog!Subtree(n)
  PROVE  m \in D
<1>1. SUFFICES ASSUME m \notin D PROVE FALSE
  OBVIOUS
<1>2. DEFINE S == Dialog!Ancestry(m) \ D
<1>3. m \in Assignables /\ n \in Dialog!Ancestry(m)
  BY DEF Dialog!Subtree
<1>4. m \in S /\ S \in SUBSET Assignables
  BY <1>1, <1>3, AncestryRises DEF Dialog!Ancestry
<1>5. Dialog!Rising(S)
  <2>1. ASSUME NEW k \in S, parent[k] # None PROVE parent[k] \in S
    <3>1. k \in Assignables /\ k \in Dialog!Ancestry(m) /\ k \notin D
      BY <1>4, <2>1
    <3>2. parent[k] \in Dialog!Ancestry(m) /\ parent[k] \in Assignables
      BY <1>3, <2>1, <3>1, AncestryRises, Parents DEF Dialog!Rising
    <3>3. k \in Dialog!Children(parent[k])
      BY <3>1 DEF Dialog!Children
    <3>4. parent[k] \notin D
      BY <3>1, <3>2, <3>3 DEF Whole, Dialog!Leaf
    <3>5. QED
      BY <3>2, <3>4
  <2>2. QED
    BY <2>1 DEF Dialog!Rising
<1>6. QED
  <2>1. Dialog!Ancestry(m) \subseteq S
    BY <1>3, <1>4, <1>5, AncestryLeast
  <2>2. QED
    BY <1>3, <2>1

\* The first draft of a tree is one of whole branches and keeps every leaf.
LEMMA InitialWhole ==
  ASSUME Dialog!ConstantsOK, Grown, NEW ids \in SUBSET Assignables
  PROVE  /\ Dialog!Initial(ids) \in SUBSET Assignables
         /\ kind # "flat" => Whole(Dialog!Initial(ids))
         /\ LeavesKept(Dialog!Initial(ids), ids, {})
<1>1. Dialog!Initial(ids) \in SUBSET Assignables
  BY DEF Dialog!Initial
<1>2. CASE kind = "flat"
  <2>1. Dialog!Initial(ids) = ids
    BY <1>2 DEF Dialog!Initial
  <2>2. QED
    BY <1>1, <1>2, <2>1 DEF LeavesKept
<1>3. CASE kind # "flat"
  <2>1. \A n \in Assignables :
          n \in Dialog!Initial(ids) <=>
            \A leaf \in Dialog!Subtree(n) : Dialog!Leaf(leaf) => leaf \in ids
    BY <1>3 DEF Dialog!Initial
  <2>2. ASSUME NEW n \in Assignables, ~Dialog!Leaf(n)
        PROVE  n \in Dialog!Initial(ids) <=> Dialog!Children(n) \subseteq Dialog!Initial(ids)
    <3>1. ASSUME n \in Dialog!Initial(ids), NEW c \in Dialog!Children(n)
          PROVE  c \in Dialog!Initial(ids)
      <4>1. c \in Assignables /\ Dialog!Subtree(c) \subseteq Dialog!Subtree(n)
        BY ChildrenBelow
      <4>2. QED
        BY <2>1, <3>1, <4>1
    <3>2. ASSUME Dialog!Children(n) \subseteq Dialog!Initial(ids)
          PROVE  n \in Dialog!Initial(ids)
      <4>1. ASSUME NEW leaf \in Dialog!Subtree(n), Dialog!Leaf(leaf)
            PROVE  leaf \in ids
        <5>1. leaf \in Assignables /\ n \in Dialog!Ancestry(leaf) /\ n # leaf
          BY <2>2, <4>1 DEF Dialog!Subtree
        <5>2. PICK c \in Dialog!Children(n) : c \in Dialog!Ancestry(leaf)
          BY <5>1, AncestryBelow
        <5>3. c \in Assignables /\ leaf \in Dialog!Subtree(c)
          BY <5>1, <5>2, ChildrenBelow DEF Dialog!Subtree
        <5>4. QED
          BY <2>1, <3>2, <4>1, <5>2, <5>3
      <4>2. QED
        BY <2>1, <4>1
    <3>3. QED
      BY <3>1, <3>2
  <2>3. ASSUME NEW n \in Assignables, Dialog!Leaf(n)
        PROVE  n \in Dialog!Initial(ids) <=> n \in ids
    <3>1. n \in Dialog!Subtree(n) /\ \A m \in Dialog!Subtree(n) : m = n
      BY <2>3, LeavesAlone, AncestryRises DEF Dialog!Subtree
    <3>2. QED
      BY <2>1, <2>3, <3>1
  <2>4. QED
    BY <1>1, <1>3, <2>2, <2>3 DEF Whole, LeavesKept
<1>4. QED
  BY <1>2, <1>3

\* A node is deselected with what is below and above it.
LEMMA DeselectedWhole ==
  ASSUME Dialog!ConstantsOK, Grown, NEW D, Whole(D), NEW n \in Assignables
  PROVE  Whole(Dialog!Deselected(n, D))
<1>1. SUFFICES ASSUME NEW p \in Assignables, ~Dialog!Leaf(p)
               PROVE  p \in Dialog!Deselected(n, D)
                        <=> Dialog!Children(p) \subseteq Dialog!Deselected(n, D)
  BY DEF Whole
<1>2. p \in D <=> Dialog!Children(p) \subseteq D
  BY <1>1 DEF Whole
<1>3. ASSUME p \in Dialog!Deselected(n, D), NEW c \in Dialog!Children(p)
      PROVE  c \in Dialog!Deselected(n, D)
  <2>1. p \in D /\ n \notin Dialog!Ancestry(p) /\ p \notin Dialog!Ancestry(n)
    BY <1>3 DEF Dialog!Deselected, Dialog!Subtree
  <2>2. /\ c \in Assignables /\ Dialog!Ancestry(c) \subseteq {c} \cup Dialog!Ancestry(p)
        /\ c \in Dialog!Ancestry(n) => p \in Dialog!Ancestry(n)
    BY ChildrenBelow
  <2>3. c \notin Dialog!Ancestry(n)
    BY <2>1, <2>2
  <2>4. c # n
    BY <2>3, AncestryRises
  <2>5. n \notin Dialog!Ancestry(c)
    BY <2>1, <2>2, <2>4
  <2>6. QED
    BY <1>2, <2>1, <2>3, <2>5 DEF Dialog!Deselected, Dialog!Subtree
<1>4. ASSUME Dialog!Children(p) \subseteq Dialog!Deselected(n, D)
      PROVE  p \in Dialog!Deselected(n, D)
  <2>1. p \in D /\ \A c \in Dialog!Children(p) :
                     c \notin Dialog!Subtree(n) /\ c \notin Dialog!Ancestry(n)
    BY <1>2, <1>4 DEF Dialog!Deselected
  <2>2. PICK c : c \in Dialog!Children(p)
    BY <1>1 DEF Dialog!Leaf
  <2>3. n \notin Dialog!Ancestry(p)
    <3>1. p \in Dialog!Ancestry(c) /\ c \in Assignables
      BY <2>2, ChildrenBelow DEF Dialog!Subtree
    <3>2. n \notin Dialog!Ancestry(c)
      BY <2>1, <2>2, <3>1 DEF Dialog!Subtree
    <3>3. QED
      BY <3>1, <3>2, AncestryDeep
  <2>4. p \notin Dialog!Ancestry(n)
    <3>1. p # n
      BY <2>3, AncestryRises
    <3>2. QED
      BY <2>1, <3>1, AncestryBelow
  <2>5. QED
    BY <2>1, <2>3, <2>4 DEF Dialog!Deselected, Dialog!Subtree
<1>5. QED
  BY <1>3, <1>4

\* A node is selected with what is below it, and with the parents that are then whole.
LEMMA ClimbedWhole ==
  ASSUME Dialog!ConstantsOK, Grown, NEW D, Whole(D), NEW n \in Assignables, n \notin D
  PROVE  Whole(Dialog!Climbed(n, D \cup Dialog!Subtree(n)))
<1>1. DEFINE up == Dialog!Ancestry(n)
             I == D \cup Dialog!Subtree(n)
             C == {a \in up : \A b \in (up \cap Dialog!Subtree(a)) \ {n} :
                                Dialog!Children(b) \subseteq I \cup up}
<1>2. Dialog!Climbed(n, I) = I \cup C
  BY DEF Dialog!Climbed
<1>3. SUFFICES ASSUME NEW p \in Assignables, ~Dialog!Leaf(p)
               PROVE  p \in I \cup C <=> Dialog!Children(p) \subseteq I \cup C
  BY <1>2 DEF Whole
<1>4. p \in D <=> Dialog!Children(p) \subseteq D
  BY <1>3 DEF Whole
<1>5. n \in up /\ n \in Dialog!Subtree(n) /\ p \in Dialog!Subtree(p)
  BY AncestryRises DEF Dialog!Subtree
<1>6. ASSUME p \in I \cup C, NEW c \in Dialog!Children(p)
      PROVE  c \in I \cup C
  <2>1. c \in Assignables /\ Dialog!Subtree(c) \subseteq Dialog!Subtree(p)
    BY ChildrenBelow
  <2>2. CASE p \in D
    BY <1>4, <1>6, <2>2
  <2>3. CASE p \in Dialog!Subtree(n)
    <3>1. c \in Dialog!Subtree(n)
      <4>1. p \in Dialog!Ancestry(c)
        BY ChildrenBelow DEF Dialog!Subtree
      <4>2. n \in Dialog!Ancestry(p)
        BY <2>3 DEF Dialog!Subtree
      <4>3. QED
        BY <2>1, <4>1, <4>2, AncestryDeep DEF Dialog!Subtree
    <3>2. QED
      BY <3>1
  <2>4. CASE p \in C /\ p \notin Dialog!Subtree(n)
    <3>1. Dialog!Children(p) \subseteq I \cup up
      BY <1>5, <2>4
    <3>2. ASSUME c \in up PROVE c \in C
      BY <2>1, <2>4, <3>2
    <3>3. QED
      BY <3>1, <3>2
  <2>5. QED
    BY <1>6, <2>2, <2>3, <2>4
<1>7. ASSUME Dialog!Children(p) \subseteq I \cup C, p \notin I
      PROVE  p \in C
  <2>1. PICK c \in Dialog!Children(p) : c \notin D
    BY <1>4, <1>7
  <2>2. n \notin Dialog!Ancestry(p) /\ p # n
    BY <1>5, <1>7 DEF Dialog!Subtree
  <2>3. c \in up
    <3>1. CASE c \in C
      BY <3>1
    <3>2. CASE c \in Dialog!Subtree(n)
      <4>1. n \in Dialog!Ancestry(c) /\ Dialog!Ancestry(c) \subseteq {c} \cup Dialog!Ancestry(p)
        BY <3>2, ChildrenBelow DEF Dialog!Subtree
      <4>2. QED
        BY <1>5, <2>2, <4>1
    <3>3. QED
      BY <1>7, <2>1, <3>1, <3>2
  <2>4. p \in up
    BY <2>3, ChildrenBelow
  <2>5. ASSUME NEW b \in (up \cap Dialog!Subtree(p)) \ {n}
        PROVE  Dialog!Children(b) \subseteq I \cup up
    <3>1. CASE b = p
      BY <1>7, <3>1
    <3>2. CASE b # p
      <4>1. b \in Assignables /\ b \in up /\ p \in Dialog!Ancestry(b) /\ b # n
        BY <2>5 DEF Dialog!Subtree
      <4>2. PICK d \in Dialog!Children(p) : d \in Dialog!Ancestry(b)
        BY <3>2, <4>1, AncestryBelow
      <4>3. d \in Assignables /\ d \in up /\ b \in Dialog!Subtree(d)
        <5>1. d \in Assignables
          BY <4>2, ChildrenBelow
        <5>2. Dialog!Ancestry(b) \subseteq up
          BY <4>1, AncestryDeep
        <5>3. QED
          BY <4>1, <4>2, <5>1, <5>2 DEF Dialog!Subtree
      <4>4. d \notin D
        <5>1. n \in Dialog!Subtree(d)
          BY <4>3 DEF Dialog!Subtree
        <5>2. QED
          BY <4>3, <5>1, WholeDown
      <4>5. d \notin Dialog!Subtree(n)
        <5>1. ASSUME n \in Dialog!Ancestry(d) PROVE FALSE
          <6>1. d = n
            BY <4>3, <5>1, AncestryOneWay
          <6>2. n \in Dialog!Ancestry(b)
            BY <4>2, <6>1
          <6>3. QED
            BY <4>1, <6>2, AncestryOneWay
        <5>2. QED
          BY <5>1 DEF Dialog!Subtree
      <4>6. d \in C
        BY <1>7, <4>2, <4>4, <4>5
      <4>7. QED
        BY <4>1, <4>3, <4>6
    <3>3. QED
      BY <3>1, <3>2
  <2>6. QED
    BY <2>4, <2>5
<1>8. QED
  BY <1>6, <1>7

\* A toggled box makes a selection of nodes, of whole branches in a tree, and touches no
\* leaf but those below it.
LEMMA ToggledWhole ==
  ASSUME Dialog!ConstantsOK, Grown, NEW D \in SUBSET Assignables, NEW n \in Assignables
  PROVE  /\ Dialog!Toggled(n, D) \in SUBSET Assignables
         /\ kind # "flat" /\ Whole(D) => Whole(Dialog!Toggled(n, D))
         /\ LeavesKept(Dialog!Toggled(n, D), D, Dialog!Subtree(n))
<1>1. /\ Dialog!Ancestry(n) \in SUBSET Assignables /\ Dialog!Subtree(n) \in SUBSET Assignables
      /\ n \in Dialog!Subtree(n)
  BY AncestryRises DEF Dialog!Ancestry, Dialog!Subtree
<1>2. CASE kind = "flat"
  <2>1. Dialog!Toggled(n, D) = D \ {n} \/ Dialog!Toggled(n, D) = D \cup {n}
    <3>1. CASE n \in D
      BY <1>2, <3>1 DEF Dialog!Toggled
    <3>2. CASE n \notin D
      BY <1>2, <3>2 DEF Dialog!Toggled
    <3>3. QED
      BY <3>1, <3>2
  <2>2. QED
    BY <1>1, <1>2, <2>1 DEF LeavesKept
<1>3. ASSUME NEW leaf \in Assignables, Dialog!Leaf(leaf), leaf \notin Dialog!Subtree(n)
      PROVE  leaf \notin Dialog!Ancestry(n)
  BY <1>1, <1>3, LeavesAlone
<1>4. CASE kind # "flat" /\ n \in D
  <2>1. Dialog!Toggled(n, D) = Dialog!Deselected(n, D)
    BY <1>4 DEF Dialog!Toggled
  <2>2. LeavesKept(Dialog!Deselected(n, D), D, Dialog!Subtree(n))
    BY <1>3 DEF LeavesKept, Dialog!Deselected
  <2>3. Dialog!Deselected(n, D) \in SUBSET Assignables
    BY DEF Dialog!Deselected
  <2>4. QED
    BY <2>1, <2>2, <2>3, DeselectedWhole
<1>5. CASE kind # "flat" /\ n \notin D
  <2>1. Dialog!Toggled(n, D) = Dialog!Climbed(n, D \cup Dialog!Subtree(n))
    BY <1>5 DEF Dialog!Toggled
  <2>2. /\ D \cup Dialog!Subtree(n) \subseteq Dialog!Climbed(n, D \cup Dialog!Subtree(n))
        /\ Dialog!Climbed(n, D \cup Dialog!Subtree(n))
             \subseteq D \cup Dialog!Subtree(n) \cup Dialog!Ancestry(n)
    BY DEF Dialog!Climbed
  <2>3. LeavesKept(Dialog!Climbed(n, D \cup Dialog!Subtree(n)), D, Dialog!Subtree(n))
    BY <1>3, <2>2 DEF LeavesKept
  <2>4. QED
    BY <1>1, <1>5, <2>1, <2>2, <2>3, ClimbedWhole
<1>6. QED
  BY <1>2, <1>4, <1>5

---------------------------------------------------------------------------
(* AssignDialog: the cached assignments, the draft and the save *)

Entries == [ids : (SUBSET Assignables) \cup {None}, owner : Dialog!OwnerOrNone, behind : BOOLEAN]
Fetches == [st : {"idle", "sent", "served"}, ids : SUBSET Assignables]
Drafts == [owner : Dialog!OwnerOrNone, base : SUBSET Assignables, draft : SUBSET Assignables,
           from : Dialog!OwnerOrNone, touched : SUBSET Assignables]
Saves == [st : {"none", "sent", "served", "settling"}, owner : Dialog!OwnerOrNone,
          ids : SUBSET Assignables, base : SUBSET Assignables, from : Dialog!OwnerOrNone,
          touched : SUBSET Assignables, at : Dialog!OwnerOrNone, loaded : BOOLEAN]

DialogTypes ==
  /\ kind \in {"tree", "flat"} /\ Grown
  /\ assigned \in [Owners -> SUBSET Assignables]
  /\ tree \in {"none", "loading", "loaded", "error"}
  /\ entry \in [Owners -> Entries] /\ fetch \in [Owners -> Fetches]
  /\ dialog \in Drafts /\ save \in Saves
  /\ bounds \in [inputs : Nat, fails : Nat]
  /\ save.st \in {"sent", "served"} => save.owner \in Owners

Failed == bounds.fails > 0

\* A call of this owner replaced the rows, and the page has not heard of it.
Unheard(o) == save.st = "served" /\ save.owner = o

\* What was read and will not be read again is what the server has, but for those left behind.
Fresh(o) ==
  ~entry[o].behind /\ ~Unheard(o) =>
    /\ entry[o].ids # None /\ fetch[o].st = "idle" => entry[o].ids = assigned[o]
    /\ fetch[o].st = "served" => fetch[o].ids = assigned[o]

\* An assignment is in the cache under its own owner, until the save that put it there settles.
Filed(o) ==
  /\ entry[o].ids # None => entry[o].owner # None
  /\ \/ entry[o].owner \in {None, o} \/ Failed
     \/ save.st = "settling" /\ save.at = o /\ fetch[o].st # "idle"

CacheInv == \A o \in Owners : Fresh(o) /\ Filed(o)

\* The draft is made of what is cached, and once something is shown it was loaded.
DraftInv ==
  dialog.owner # None =>
    /\ kind # "flat" => Whole(dialog.draft)
    /\ LeavesKept(dialog.draft, dialog.base, dialog.touched)
    /\ dialog.from = entry[dialog.owner].owner
    /\ tree # "none"
    /\ entry[dialog.owner].ids # None \/ fetch[dialog.owner].st # "idle" \/ Failed

\* The save sends a draft.
SendInv ==
  /\ save.st = "sent" =>
       /\ LeavesKept(save.ids, save.base, save.touched)
       /\ (save.loaded /\ save.from = save.owner) \/ Failed
  /\ tree = "error" => Failed

DialogInv == DialogTypes /\ CacheInv /\ DraftInv /\ SendInv

LEMMA DialogInit == ASSUME Dialog!ConstantsOK, Dialog!Init PROVE DialogInv
<1>1. Grown
  <2>1. CASE kind = "flat"
    <3>1. parent = [n \in Assignables |-> None]
      BY <2>1 DEF Dialog!Init
    <3>2. ASSUME NEW S \in SUBSET Assignables, S # {} PROVE \E n \in S : parent[n] \notin S
      BY <3>1, <3>2 DEF Dialog!ConstantsOK
    <3>3. QED
      BY <3>1, <3>2 DEF Grown, Dialog!Forests
  <2>2. CASE kind # "flat"
    BY <2>2 DEF Dialog!Init, Grown
  <2>3. QED
    BY <2>1, <2>2
<1>2. /\ Dialog!NoEntry \in Entries /\ Dialog!NoFetch \in Fetches
      /\ Dialog!Closed \in Drafts /\ Dialog!NoSave \in Saves
  BY DEF Dialog!NoEntry, Dialog!NoFetch, Dialog!Closed, Dialog!NoSave, Entries, Fetches,
     Drafts,
         Saves, Dialog!OwnerOrNone
<1>3. /\ entry = [o \in Owners |-> Dialog!NoEntry] /\ fetch = [o \in Owners |-> Dialog!NoFetch]
      /\ dialog = Dialog!Closed /\ save = Dialog!NoSave
      /\ tree \in {"none", "loaded"}
  BY DEF Dialog!Init
<1>4. DialogTypes
  BY <1>1, <1>2, <1>3 DEF Dialog!Init, DialogTypes, Dialog!NoSave
<1>5. CacheInv
  BY <1>3 DEF CacheInv, Fresh, Filed, Dialog!NoEntry, Dialog!NoFetch
<1>6. DraftInv /\ SendInv
  BY <1>3 DEF DraftInv, SendInv, Dialog!Closed, Dialog!NoSave
<1>7. QED
  BY <1>4, <1>5, <1>6 DEF DialogInv

\* The bounds count on.
LEMMA BoundsSpent ==
  ASSUME DialogTypes
  PROVE  /\ Dialog!Spend("fails", MaxDialogFails) =>
              bounds' \in [inputs : Nat, fails : Nat] /\ bounds'.fails > 0
         /\ Dialog!Spend("inputs", MaxDialogInputs) =>
              bounds' \in [inputs : Nat, fails : Nat] /\ bounds'.fails = bounds.fails
  BY DEF DialogTypes, Dialog!Spend

\* A remounted dialog shows what is cached.
LEMMA RemountedDraft ==
  ASSUME Dialog!ConstantsOK, DialogTypes, DraftInv, NEW e \in [Owners -> Entries], NEW t
  PROVE  /\ Dialog!Remounted(dialog, e, t) \in Drafts
         /\ Dialog!Remounted(dialog, e, t).owner = dialog.owner
         /\ dialog.owner # None =>
              /\ kind # "flat" => Whole(Dialog!Remounted(dialog, e, t).draft)
              /\ LeavesKept(Dialog!Remounted(dialog, e, t).draft,
                            Dialog!Remounted(dialog, e, t).base,
                            Dialog!Remounted(dialog, e, t).touched)
              /\ Dialog!Remounted(dialog, e, t).from = e[dialog.owner].owner
<1>1. dialog \in Drafts /\ Grown
  BY DEF DialogTypes
<1>2. CASE dialog.owner = None
  <2>1. Dialog!Remounted(dialog, e, t) = dialog
    BY <1>2 DEF Dialog!Remounted
  <2>2. QED
    BY <1>1, <1>2, <2>1
<1>3. CASE dialog.owner # None
  <2>1. PICK ids, from : ids = Dialog!Shown(e[dialog.owner], t) /\ from = e[dialog.owner].owner
    OBVIOUS
  <2>2. dialog.owner \in Owners
    BY <1>1, <1>3 DEF Drafts, Dialog!OwnerOrNone
  <2>3. ids \in SUBSET Assignables /\ from \in Dialog!OwnerOrNone
    BY <2>1, <2>2 DEF Entries, Dialog!Shown
  <2>4. CASE ids = dialog.base
    <3>1. Dialog!Remounted(dialog, e, t) = [dialog EXCEPT !.from = from]
      BY <1>3, <2>1, <2>4 DEF Dialog!Remounted
    <3>2. [dialog EXCEPT !.from = from] \in Drafts
      BY <1>1, <2>3 DEF Drafts
    <3>3. QED
      BY <1>1, <1>3, <2>1, <3>1, <3>2 DEF DraftInv, Drafts
  <2>5. CASE ids # dialog.base
    <3>1. Dialog!Remounted(dialog, e, t) =
            [owner |-> dialog.owner, base |-> ids, draft |-> Dialog!Initial(ids), from |-> from,
             touched |-> {}]
      BY <1>3, <2>1, <2>5 DEF Dialog!Remounted
    <3>2. /\ Dialog!Initial(ids) \in SUBSET Assignables
          /\ kind # "flat" => Whole(Dialog!Initial(ids))
          /\ LeavesKept(Dialog!Initial(ids), ids, {})
      BY <1>1, <2>3, InitialWhole
    <3>3. PICK D \in SUBSET Assignables : D = Dialog!Initial(ids)
      BY <3>2
    <3>4. [owner |-> dialog.owner, base |-> ids, draft |-> D, from |-> from,
           touched |-> {}] \in Drafts
      BY <1>1, <2>3 DEF Drafts
    <3>5. QED
      BY <2>1, <3>1, <3>2, <3>3, <3>4
  <2>6. QED
    BY <2>4, <2>5
<1>4. QED
  BY <1>2, <1>3

\* A fetch that is joined is under way.
LEMMA JoinedFetch ==
  ASSUME DialogTypes, NEW o \in Owners
  PROVE  /\ Dialog!Joined(o) \in [Owners -> Fetches]
         /\ Dialog!Joined(o)[o].st # "idle"
         /\ \A p \in Owners :
              \/ Dialog!Joined(o)[p] = fetch[p]
              \/ p = o /\ fetch[p].st = "idle" /\ Dialog!Joined(o)[p].st = "sent"
<1>1. fetch \in [Owners -> Fetches] /\ fetch[o] \in Fetches
  BY DEF DialogTypes
<1>2. CASE fetch[o].st = "idle"
  <2>1. Dialog!Joined(o) = [fetch EXCEPT ![o] = [fetch[o] EXCEPT !.st = "sent"]]
    BY <1>1, <1>2 DEF Dialog!Joined
  <2>2. [fetch[o] EXCEPT !.st = "sent"] \in Fetches /\ [fetch[o] EXCEPT !.st = "sent"].st = "sent"
    BY <1>1 DEF Fetches
  <2>3. QED
    BY <1>1, <1>2, <2>1, <2>2
<1>3. CASE fetch[o].st # "idle"
  BY <1>1, <1>3 DEF Dialog!Joined
<1>4. QED
  BY <1>2, <1>3

\* What the visitor of the dialog and the server do to neither rows, cache nor fetch.
LEMMA CacheStays ==
  ASSUME CacheInv, UNCHANGED <<assigned, entry, fetch>>, Failed => Failed',
         \A o \in Owners : Unheard(o) => Unheard(o)',
         save.st # "settling" \/ UNCHANGED save
  PROVE  CacheInv'
<1>1. ASSUME NEW o \in Owners PROVE Fresh(o)' /\ Filed(o)'
  BY DEF CacheInv, Fresh, Filed
<1>2. QED
  BY <1>1 DEF CacheInv

\* The server reads the rows for a fetch.
LEMMA ServeFetchStep ==
  ASSUME Dialog!ConstantsOK, DialogInv, NEW o \in Owners, Dialog!ServeFetch(o)
  PROVE  DialogInv'
<1>1. /\ fetch[o].st = "sent"
      /\ fetch' = [fetch EXCEPT ![o] = [st |-> "served", ids |-> assigned[o]]]
      /\ entry' = [entry EXCEPT ![o] = [entry[o] EXCEPT !.behind = FALSE]]
      /\ UNCHANGED <<kind, parent, assigned, tree, dialog, save, bounds>>
  BY DEF Dialog!ServeFetch, Dialog!rows
<1>2. /\ fetch \in [Owners -> Fetches] /\ entry \in [Owners -> Entries] /\ entry[o] \in Entries
      /\ assigned \in [Owners -> SUBSET Assignables]
  BY DEF DialogInv, DialogTypes
<1>3. /\ [st |-> "served", ids |-> assigned[o]] \in Fetches
      /\ [entry[o] EXCEPT !.behind = FALSE] \in Entries
      /\ [entry[o] EXCEPT !.behind = FALSE].ids = entry[o].ids
      /\ [entry[o] EXCEPT !.behind = FALSE].owner = entry[o].owner
  BY <1>2 DEF Fetches, Entries
<1>4. /\ fetch' \in [Owners -> Fetches] /\ entry' \in [Owners -> Entries]
      /\ \A p \in Owners : entry'[p].ids = entry[p].ids /\ entry'[p].owner = entry[p].owner
      /\ \A p \in Owners \ {o} : entry'[p] = entry[p] /\ fetch'[p] = fetch[p]
      /\ fetch'[o].st = "served" /\ fetch'[o].ids = assigned[o]
  BY <1>1, <1>2, <1>3
<1>5. DialogTypes'
  BY <1>1, <1>4 DEF DialogInv, DialogTypes, Grown, Dialog!Forests
<1>6. CacheInv'
  <2>1. ASSUME NEW p \in Owners PROVE Fresh(p)' /\ Filed(p)'
    <3>1. CASE p = o
      BY <1>1, <1>4, <3>1 DEF DialogInv, CacheInv, Fresh, Filed, Failed
    <3>2. CASE p # o
      BY <1>1, <1>4, <3>2 DEF DialogInv, CacheInv, Fresh, Filed, Unheard, Failed
    <3>3. QED
      BY <3>1, <3>2
  <2>2. QED
    BY <2>1 DEF CacheInv
<1>7. DraftInv'
  <2>1. dialog.owner # None => dialog.owner \in Owners
    BY DEF DialogInv, DialogTypes, Drafts, Dialog!OwnerOrNone
  <2>2. QED
    BY <1>1, <1>4, <2>1
       DEF DialogInv, DraftInv, Whole, LeavesKept, Dialog!Leaf, Dialog!Children, Failed
<1>8. SendInv'
  BY <1>1 DEF DialogInv, SendInv, LeavesKept, Dialog!Leaf, Dialog!Children, Failed
<1>9. QED
  BY <1>5, <1>6, <1>7, <1>8 DEF DialogInv

\* The page reads the answer.
LEMMA ReceiveFetchStep ==
  ASSUME Dialog!ConstantsOK, DialogInv, NEW o \in Owners, Dialog!ReceiveFetch(o)
  PROVE  DialogInv'
<1>1. /\ fetch[o].st = "served"
      /\ fetch' = [fetch EXCEPT ![o] = Dialog!NoFetch]
      /\ entry' = [entry EXCEPT ![o] = [entry[o] EXCEPT !.ids = fetch[o].ids, !.owner = o]]
      /\ dialog' = Dialog!Remounted(dialog, entry', tree)
      /\ UNCHANGED <<kind, parent, assigned, tree, save, bounds>>
  <2>1. entry' = [entry EXCEPT ![o].ids = fetch[o].ids, ![o].owner = o]
    BY DEF Dialog!ReceiveFetch
  <2>2. QED
    BY <2>1 DEF Dialog!ReceiveFetch, Dialog!rows
<1>2. /\ fetch \in [Owners -> Fetches] /\ entry \in [Owners -> Entries] /\ entry[o] \in Entries
      /\ fetch[o] \in Fetches
  BY DEF DialogInv, DialogTypes
<1>3. PICK filed \in Entries :
        /\ filed = [entry[o] EXCEPT !.ids = fetch[o].ids, !.owner = o]
        /\ filed.ids = fetch[o].ids /\ filed.owner = o /\ filed.behind = entry[o].behind
        /\ filed.ids # None
  <2>1. PICK ids \in SUBSET Assignables : ids = fetch[o].ids
    BY <1>2 DEF Fetches
  <2>2. /\ [entry[o] EXCEPT !.ids = ids, !.owner = o] \in Entries
        /\ [entry[o] EXCEPT !.ids = ids, !.owner = o].ids = ids
        /\ [entry[o] EXCEPT !.ids = ids, !.owner = o].owner = o
    BY <1>2 DEF Entries, Dialog!OwnerOrNone
  <2>3. [entry[o] EXCEPT !.ids = ids, !.owner = o].behind = entry[o].behind
    BY <1>2 DEF Entries
  <2>4. ids # None
    BY <2>1 DEF Dialog!ConstantsOK
  <2>5. QED
    BY <2>1, <2>2, <2>3, <2>4
<1>4. /\ Dialog!NoFetch \in Fetches /\ Dialog!NoFetch.st = "idle"
      /\ fetch' \in [Owners -> Fetches] /\ entry' \in [Owners -> Entries]
      /\ \A p \in Owners \ {o} : entry'[p] = entry[p] /\ fetch'[p] = fetch[p]
      /\ fetch'[o].st = "idle" /\ entry'[o] = filed
  BY <1>1, <1>2, <1>3 DEF Dialog!NoFetch, Fetches
<1>5. /\ dialog' \in Drafts /\ dialog'.owner = dialog.owner
      /\ dialog.owner # None =>
           /\ kind # "flat" => Whole(dialog'.draft)
           /\ LeavesKept(dialog'.draft, dialog'.base, dialog'.touched)
           /\ dialog'.from = entry'[dialog.owner].owner
  BY <1>1, <1>4, RemountedDraft DEF DialogInv
<1>6. DialogTypes'
  BY <1>1, <1>4, <1>5 DEF DialogInv, DialogTypes, Grown, Dialog!Forests
<1>7. CacheInv'
  <2>1. ASSUME NEW p \in Owners PROVE Fresh(p)' /\ Filed(p)'
    <3>1. CASE p = o
      <4>1. Fresh(o) /\ o # None
        BY DEF DialogInv, CacheInv, Dialog!ConstantsOK
      <4>2. QED
        BY <1>1, <1>3, <1>4, <3>1, <4>1 DEF Fresh, Filed, Unheard
    <3>2. CASE p # o
      BY <1>1, <1>4, <3>2 DEF DialogInv, CacheInv, Fresh, Filed, Unheard, Failed
    <3>3. QED
      BY <3>1, <3>2
  <2>2. QED
    BY <2>1 DEF CacheInv
<1>8. DraftInv'
  <2>1. dialog.owner # None => dialog.owner \in Owners
    BY DEF DialogInv, DialogTypes, Drafts, Dialog!OwnerOrNone
  <2>2. dialog.owner # None =>
          entry'[dialog.owner].ids # None \/ fetch'[dialog.owner].st # "idle" \/ Failed
    BY <1>3, <1>4, <2>1 DEF DialogInv, DraftInv
  <2>3. SUFFICES ASSUME dialog.owner # None
                 PROVE  DraftInv'
    BY <1>5 DEF DraftInv
  <2>4. ASSUME kind # "flat" PROVE Whole(dialog.draft)'
    <3>1. PICK D : D = dialog'.draft
      OBVIOUS
    <3>2. Whole(D)
      BY <1>5, <2>3, <2>4, <3>1
    <3>3. UNCHANGED parent
      BY <1>1
    <3>4. QED
      BY <3>1, <3>2, <3>3 DEF Whole, Dialog!Leaf, Dialog!Children
  <2>5. LeavesKept(dialog.draft, dialog.base, dialog.touched)'
    BY <1>1, <1>5, <2>3 DEF LeavesKept, Dialog!Leaf, Dialog!Children
  <2>6. tree # "none"
    BY <2>3 DEF DialogInv, DraftInv
  <2>7. QED
    BY <1>1, <1>5, <2>2, <2>3, <2>4, <2>5, <2>6 DEF DraftInv, Failed
<1>9. SendInv'
  BY <1>1 DEF DialogInv, SendInv, LeavesKept, Dialog!Leaf, Dialog!Children, Failed
<1>10. QED
  BY <1>6, <1>7, <1>8, <1>9 DEF DialogInv

\* A fetch fails; another administrator assigns: what was cached is left behind.
LEMMA LeftBehindStep ==
  ASSUME Dialog!ConstantsOK, DialogInv, NEW o \in Owners,
         \/ Dialog!FailFetch(o)
         \/ \E n \in Assignables : Dialog!OtherAssigns(o, Dialog!Toggled(n, assigned[o]))
  PROVE  DialogInv'
<1>1. /\ fetch \in [Owners -> Fetches] /\ entry \in [Owners -> Entries] /\ entry[o] \in Entries
      /\ assigned \in [Owners -> SUBSET Assignables] /\ DialogTypes /\ Grown
  BY DEF DialogInv, DialogTypes
<1>2. /\ entry' = [entry EXCEPT ![o] = [entry[o] EXCEPT !.behind = TRUE]]
      /\ UNCHANGED <<kind, parent, tree, dialog, save>>
  BY DEF Dialog!FailFetch, Dialog!OtherAssigns, Dialog!rows
<1>3. PICK left \in Entries :
        /\ left = [entry[o] EXCEPT !.behind = TRUE]
        /\ left.ids = entry[o].ids /\ left.owner = entry[o].owner /\ left.behind = TRUE
  <2>1. /\ [entry[o] EXCEPT !.behind = TRUE] \in Entries
        /\ [entry[o] EXCEPT !.behind = TRUE].ids = entry[o].ids
        /\ [entry[o] EXCEPT !.behind = TRUE].owner = entry[o].owner
    BY <1>1 DEF Entries
  <2>2. [entry[o] EXCEPT !.behind = TRUE].behind = TRUE
    BY <1>1 DEF Entries
  <2>3. QED
    BY <2>1, <2>2
<1>4. /\ entry' \in [Owners -> Entries] /\ entry'[o] = left
      /\ \A p \in Owners : entry'[p].ids = entry[p].ids /\ entry'[p].owner = entry[p].owner
      /\ \A p \in Owners \ {o} : entry'[p] = entry[p]
  BY <1>1, <1>2, <1>3
<1>5. /\ assigned' \in [Owners -> SUBSET Assignables] /\ fetch' \in [Owners -> Fetches]
      /\ bounds' \in [inputs : Nat, fails : Nat] /\ (Failed => Failed')
      /\ \A p \in Owners \ {o} : assigned'[p] = assigned[p] /\ fetch'[p] = fetch[p]
      /\ fetch'[o] = fetch[o] \/ Failed'
  <2>1. CASE Dialog!FailFetch(o)
    <3>1. /\ Dialog!Spend("fails", MaxDialogFails) /\ UNCHANGED assigned
          /\ fetch' = [fetch EXCEPT ![o] = Dialog!NoFetch]
      BY <2>1 DEF Dialog!FailFetch, Dialog!rows
    <3>2. Dialog!NoFetch \in Fetches
      BY DEF Dialog!NoFetch, Fetches
    <3>3. bounds' \in [inputs : Nat, fails : Nat] /\ Failed'
      BY <1>1, <3>1, BoundsSpent DEF Failed
    <3>4. QED
      BY <1>1, <3>1, <3>2, <3>3
  <2>2. CASE \E n \in Assignables : Dialog!OtherAssigns(o, Dialog!Toggled(n, assigned[o]))
    <3>1. PICK n \in Assignables : Dialog!OtherAssigns(o, Dialog!Toggled(n, assigned[o]))
      BY <2>2
    <3>2. PICK ids \in SUBSET Assignables : ids = Dialog!Toggled(n, assigned[o])
      BY <1>1, ToggledWhole
    <3>3. /\ Dialog!Spend("inputs", MaxDialogInputs) /\ UNCHANGED fetch
          /\ assigned' = [assigned EXCEPT ![o] = ids]
      BY <3>1, <3>2 DEF Dialog!OtherAssigns
    <3>4. bounds' \in [inputs : Nat, fails : Nat] /\ bounds'.fails = bounds.fails
      BY <1>1, <3>3, BoundsSpent
    <3>5. QED
      BY <1>1, <3>2, <3>3, <3>4 DEF Failed
  <2>3. QED
    BY <2>1, <2>2
<1>6. DialogTypes'
  BY <1>2, <1>4, <1>5 DEF DialogInv, DialogTypes, Grown, Dialog!Forests
<1>7. CacheInv'
  <2>1. ASSUME NEW p \in Owners PROVE Fresh(p)' /\ Filed(p)'
    <3>1. CASE p = o
      BY <1>2, <1>3, <1>4, <1>5, <3>1 DEF DialogInv, CacheInv, Fresh, Filed
    <3>2. CASE p # o
      BY <1>2, <1>4, <1>5, <3>2 DEF DialogInv, CacheInv, Fresh, Filed, Unheard
    <3>3. QED
      BY <3>1, <3>2
  <2>2. QED
    BY <2>1 DEF CacheInv
<1>8. DraftInv'
  <2>1. dialog.owner # None => dialog.owner \in Owners
    BY DEF DialogInv, DialogTypes, Drafts, Dialog!OwnerOrNone
  <2>2. QED
    BY <1>2, <1>4, <1>5, <2>1
       DEF DialogInv, DraftInv, Whole, LeavesKept, Dialog!Leaf, Dialog!Children
<1>9. SendInv'
  BY <1>2, <1>5 DEF DialogInv, SendInv, LeavesKept, Dialog!Leaf, Dialog!Children
<1>10. QED
  BY <1>6, <1>7, <1>8, <1>9 DEF DialogInv

\* The tree is loaded, or is not.
LEMMA TreeStep ==
  ASSUME Dialog!ConstantsOK, DialogInv, Dialog!ReceiveTree \/ Dialog!FailTree
  PROVE  DialogInv'
<1>1. /\ UNCHANGED <<kind, parent, assigned, entry, fetch, save>>
      /\ DialogTypes /\ entry \in [Owners -> Entries]
  BY DEF Dialog!ReceiveTree, Dialog!FailTree, Dialog!rows, DialogInv, DialogTypes
<1>2. CASE Dialog!ReceiveTree
  <2>1. /\ tree' = "loaded" /\ dialog' = Dialog!Remounted(dialog, entry, tree')
        /\ UNCHANGED bounds
    BY <1>2 DEF Dialog!ReceiveTree
  <2>2. /\ dialog' \in Drafts /\ dialog'.owner = dialog.owner
        /\ dialog.owner # None =>
             /\ kind # "flat" => Whole(dialog'.draft)
             /\ LeavesKept(dialog'.draft, dialog'.base, dialog'.touched)
             /\ dialog'.from = entry[dialog.owner].owner
    BY <1>1, <2>1, RemountedDraft DEF DialogInv
  <2>3. DialogTypes'
    BY <1>1, <2>1, <2>2 DEF DialogTypes, Grown, Dialog!Forests
  <2>4. CacheInv'
    BY <1>1, <2>1, CacheStays DEF DialogInv, Failed, Unheard
  <2>5. DraftInv'
    BY <1>1, <2>1, <2>2
       DEF DialogInv, DraftInv, Whole, LeavesKept, Dialog!Leaf, Dialog!Children, Failed
  <2>6. SendInv'
    BY <1>1, <2>1 DEF DialogInv, SendInv, LeavesKept, Dialog!Leaf, Dialog!Children, Failed
  <2>7. QED
    BY <2>3, <2>4, <2>5, <2>6 DEF DialogInv
<1>3. CASE Dialog!FailTree
  <2>1. /\ Dialog!Spend("fails", MaxDialogFails) /\ tree' = "error" /\ UNCHANGED dialog
    BY <1>3 DEF Dialog!FailTree
  <2>2. bounds' \in [inputs : Nat, fails : Nat] /\ Failed'
    BY <1>1, <2>1, BoundsSpent DEF Failed
  <2>3. DialogTypes'
    BY <1>1, <2>1, <2>2 DEF DialogTypes, Grown, Dialog!Forests
  <2>4. CacheInv'
    BY <1>1, <2>2, CacheStays DEF DialogInv, Unheard
  <2>5. DraftInv'
    BY <1>1, <2>1, <2>2 DEF DialogInv, DraftInv, Whole, LeavesKept, Dialog!Leaf,
       Dialog!Children
  <2>6. SendInv'
    BY <1>1, <2>1, <2>2 DEF DialogInv, SendInv, LeavesKept, Dialog!Leaf, Dialog!Children
  <2>7. QED
    BY <2>3, <2>4, <2>5, <2>6 DEF DialogInv
<1>4. QED
  BY <1>2, <1>3

\* The dialog opens on what is cached.
LEMMA OpenStep ==
  ASSUME Dialog!ConstantsOK, DialogInv, NEW o \in Owners, Dialog!Open(o)
  PROVE  DialogInv'
<1>1. PICK ids :
        /\ Dialog!Spend("inputs", MaxDialogInputs) /\ dialog.owner = None
        /\ tree' = IF tree \in {"none", "error"} THEN "loading" ELSE tree
        /\ fetch' = Dialog!Joined(o) /\ ids = Dialog!Shown(entry[o], tree')
        /\ dialog' = [owner |-> o, base |-> ids, draft |-> Dialog!Initial(ids),
                      from |-> entry[o].owner, touched |-> {}]
        /\ UNCHANGED <<kind, parent, assigned, entry, save>>
  BY DEF Dialog!Open, Dialog!rows
<1>2. /\ DialogTypes /\ Grown /\ entry[o] \in Entries /\ o # None
      /\ tree \in {"none", "loading", "loaded", "error"}
  BY DEF DialogInv, DialogTypes, Dialog!ConstantsOK
<1>3. ids \in SUBSET Assignables /\ entry[o].owner \in Dialog!OwnerOrNone
  BY <1>1, <1>2 DEF Entries, Dialog!Shown
<1>4. /\ Dialog!Initial(ids) \in SUBSET Assignables
      /\ kind # "flat" => Whole(Dialog!Initial(ids))
      /\ LeavesKept(Dialog!Initial(ids), ids, {})
  BY <1>2, <1>3, InitialWhole
<1>5. PICK D \in SUBSET Assignables : D = Dialog!Initial(ids)
  BY <1>4
<1>6. /\ dialog' \in Drafts /\ dialog'.owner = o /\ dialog'.draft = D /\ dialog'.base = ids
      /\ dialog'.touched = {} /\ dialog'.from = entry[o].owner
  <2>1. dialog' = [owner |-> o, base |-> ids, draft |-> D, from |-> entry[o].owner,
                   touched |-> {}]
    BY <1>1, <1>5
  <2>2. [owner |-> o, base |-> ids, draft |-> D, from |-> entry[o].owner,
         touched |-> {}] \in Drafts
    BY <1>3 DEF Drafts, Dialog!OwnerOrNone
  <2>3. QED
    BY <2>1, <2>2
<1>7. /\ fetch' \in [Owners -> Fetches] /\ fetch'[o].st # "idle"
      /\ \A p \in Owners : \/ fetch'[p] = fetch[p]
                           \/ p = o /\ fetch[p].st = "idle" /\ fetch'[p].st = "sent"
  BY <1>1, <1>2, JoinedFetch
<1>8. tree' \in {"loading", "loaded"}
  BY <1>1, <1>2
<1>9. bounds' \in [inputs : Nat, fails : Nat] /\ (Failed' <=> Failed)
  BY <1>1, <1>2, BoundsSpent DEF Failed
<1>10. DialogTypes'
  BY <1>1, <1>2, <1>6, <1>7, <1>8, <1>9 DEF DialogTypes, Grown, Dialog!Forests
<1>11. CacheInv'
  <2>1. ASSUME NEW p \in Owners PROVE Fresh(p)' /\ Filed(p)'
    BY <1>1, <1>7, <1>9 DEF DialogInv, CacheInv, Fresh, Filed, Unheard
  <2>2. QED
    BY <2>1 DEF CacheInv
<1>12. DraftInv'
  <2>1. (kind # "flat" => Whole(dialog.draft))'
    BY <1>1, <1>4, <1>5, <1>6 DEF Whole, Dialog!Leaf, Dialog!Children
  <2>2. LeavesKept(dialog.draft, dialog.base, dialog.touched)'
    BY <1>1, <1>4, <1>5, <1>6 DEF LeavesKept, Dialog!Leaf, Dialog!Children
  <2>3. QED
    BY <1>1, <1>6, <1>7, <1>8, <2>1, <2>2 DEF DraftInv
<1>13. SendInv'
  BY <1>1, <1>8, <1>9 DEF DialogInv, SendInv, LeavesKept, Dialog!Leaf, Dialog!Children
<1>14. QED
  BY <1>10, <1>11, <1>12, <1>13 DEF DialogInv

\* A box is toggled; the dialog is closed.
LEMMA DraftStep ==
  ASSUME Dialog!ConstantsOK, DialogInv,
         Dialog!Close \/ \E n \in Assignables : Dialog!Toggle(n)
  PROVE  DialogInv'
<1>1. /\ UNCHANGED <<kind, parent, assigned, tree, entry, fetch, save>>
      /\ dialog.owner # None /\ DialogTypes /\ Grown /\ dialog \in Drafts
  BY DEF Dialog!Close, Dialog!Toggle, Dialog!rows, DialogInv, DialogTypes
<1>2. /\ dialog' \in Drafts
      /\ \/ dialog'.owner = None
         \/ /\ dialog'.owner = dialog.owner /\ dialog'.from = dialog.from
            /\ kind # "flat" => Whole(dialog'.draft)
            /\ LeavesKept(dialog'.draft, dialog'.base, dialog'.touched)
      /\ bounds' \in [inputs : Nat, fails : Nat] /\ (Failed' <=> Failed)
  <2>1. CASE Dialog!Close
    <3>1. dialog' = Dialog!Closed /\ UNCHANGED bounds
      BY <2>1 DEF Dialog!Close
    <3>2. Dialog!Closed \in Drafts /\ Dialog!Closed.owner = None
      BY DEF Dialog!Closed, Drafts, Dialog!OwnerOrNone
    <3>3. QED
      BY <1>1, <3>1, <3>2 DEF DialogTypes, Failed
  <2>2. CASE \E n \in Assignables : Dialog!Toggle(n)
    <3>1. PICK n \in Assignables : Dialog!Toggle(n)
      BY <2>2
    <3>2. PICK D \in SUBSET Assignables, T \in SUBSET Assignables :
            /\ D = Dialog!Toggled(n, dialog.draft) /\ T = dialog.touched \cup Dialog!Subtree(n)
            /\ kind # "flat" /\ Whole(dialog.draft) => Whole(D)
            /\ LeavesKept(D, dialog.draft, Dialog!Subtree(n))
      <4>1. dialog.draft \in SUBSET Assignables /\ dialog.touched \in SUBSET Assignables
        BY <1>1 DEF Drafts
      <4>2. Dialog!Subtree(n) \in SUBSET Assignables
        BY DEF Dialog!Subtree
      <4>3. QED
        BY <1>1, <4>1, <4>2, ToggledWhole
    <3>3. /\ Dialog!Spend("inputs", MaxDialogInputs)
          /\ dialog' = [dialog EXCEPT !.draft = D, !.touched = T]
      BY <3>1, <3>2 DEF Dialog!Toggle
    <3>4. /\ dialog' \in Drafts /\ dialog'.owner = dialog.owner /\ dialog'.from = dialog.from
          /\ dialog'.draft = D /\ dialog'.touched = T /\ dialog'.base = dialog.base
      BY <1>1, <3>3 DEF Drafts
    <3>5. LeavesKept(D, dialog.base, T)
      BY <1>1, <3>2 DEF DialogInv, DraftInv, LeavesKept
    <3>6. kind # "flat" => Whole(D)
      BY <1>1, <3>2 DEF DialogInv, DraftInv
    <3>7. bounds' \in [inputs : Nat, fails : Nat] /\ (Failed' <=> Failed)
      BY <1>1, <3>3, BoundsSpent DEF Failed
    <3>8. QED
      BY <3>4, <3>5, <3>6, <3>7
  <2>3. QED
    BY <2>1, <2>2
<1>3. DialogTypes'
  BY <1>1, <1>2 DEF DialogTypes, Grown, Dialog!Forests
<1>4. CacheInv'
  BY <1>1, <1>2, CacheStays DEF DialogInv, Unheard
<1>5. DraftInv'
  <2>1. CASE dialog'.owner = None
    BY <2>1 DEF DraftInv
  <2>2. CASE dialog'.owner # None
    <3>1. (kind # "flat" => Whole(dialog.draft))'
      BY <1>1, <1>2, <2>2 DEF Whole, Dialog!Leaf, Dialog!Children
    <3>2. LeavesKept(dialog.draft, dialog.base, dialog.touched)'
      BY <1>1, <1>2, <2>2 DEF LeavesKept, Dialog!Leaf, Dialog!Children
    <3>3. QED
      BY <1>1, <1>2, <2>2, <3>1, <3>2 DEF DialogInv, DraftInv
  <2>3. QED
    BY <2>1, <2>2
<1>6. SendInv'
  BY <1>1, <1>2 DEF DialogInv, SendInv, LeavesKept, Dialog!Leaf, Dialog!Children
<1>7. QED
  BY <1>3, <1>4, <1>5, <1>6 DEF DialogInv

\* The draft is sent.
LEMMA SaveStep ==
  ASSUME Dialog!ConstantsOK, DialogInv, Dialog!Save
  PROVE  DialogInv'
<1>1. /\ dialog.owner # None /\ ~Dialog!Loading(dialog.owner) /\ save.st = "none"
      /\ UNCHANGED <<kind, parent, assigned, tree, entry, fetch, dialog, bounds>>
  BY DEF Dialog!Save, Dialog!rows
<1>2. dialog.owner \in Owners /\ dialog \in Drafts /\ tree \in {"none", "loading", "loaded", "error"}
  BY <1>1 DEF DialogInv, DialogTypes, Drafts, Dialog!OwnerOrNone
<1>3. PICK loads \in BOOLEAN :
        /\ loads <=> tree = "loaded" /\ entry[dialog.owner].ids # None
        /\ save' = [st |-> "sent", owner |-> dialog.owner, ids |-> dialog.draft,
                    base |-> dialog.base, from |-> dialog.from, touched |-> dialog.touched,
                    at |-> None, loaded |-> loads]
  <2>1. CASE tree = "loaded" /\ entry[dialog.owner].ids # None
    <3>1. TRUE = (tree = "loaded" /\ Dialog!HasData(dialog.owner))
      BY <2>1 DEF Dialog!HasData
    <3>2. QED
      BY <2>1, <3>1 DEF Dialog!Save
  <2>2. CASE ~(tree = "loaded" /\ entry[dialog.owner].ids # None)
    <3>1. FALSE = (tree = "loaded" /\ Dialog!HasData(dialog.owner))
      BY <2>2 DEF Dialog!HasData
    <3>2. QED
      BY <2>2, <3>1 DEF Dialog!Save
  <2>3. QED
    BY <2>1, <2>2
<1>4. /\ save' \in Saves /\ save'.st = "sent" /\ save'.owner = dialog.owner
      /\ save'.ids = dialog.draft /\ save'.base = dialog.base
      /\ save'.touched = dialog.touched /\ save'.from = dialog.from
  <2>1. [st |-> "sent", owner |-> dialog.owner, ids |-> dialog.draft, base |-> dialog.base,
         from |-> dialog.from, touched |-> dialog.touched, at |-> None,
         loaded |-> loads] \in Saves
    BY <1>2 DEF Drafts, Saves, Dialog!OwnerOrNone
  <2>2. QED
    BY <1>3, <2>1
<1>5. (save'.loaded /\ save'.from = save'.owner) \/ Failed
  <2>1. SUFFICES ASSUME ~Failed PROVE save'.loaded /\ save'.from = save'.owner
    OBVIOUS
  <2>2. tree = "loaded"
    BY <1>1, <1>2, <2>1 DEF Dialog!Loading, DialogInv, DraftInv, SendInv
  <2>3. entry[dialog.owner].ids # None
    BY <1>1, <1>2, <2>1 DEF Dialog!Loading, Dialog!HasData, DialogInv, DraftInv
  <2>4. entry[dialog.owner].owner = dialog.owner
    BY <1>1, <1>2, <2>1, <2>3 DEF DialogInv, CacheInv, Filed
  <2>5. dialog.from = dialog.owner
    BY <1>1, <2>4 DEF DialogInv, DraftInv
  <2>6. loads /\ save'.loaded = loads
    BY <1>3, <2>2, <2>3
  <2>7. QED
    BY <1>4, <2>5, <2>6
<1>6. DialogTypes'
  BY <1>1, <1>2, <1>4 DEF DialogInv, DialogTypes, Grown, Dialog!Forests
<1>7. CacheInv'
  BY <1>1, <1>4, CacheStays DEF DialogInv, Failed, Unheard
<1>8. DraftInv'
  BY <1>1 DEF DialogInv, DraftInv, Whole, LeavesKept, Dialog!Leaf, Dialog!Children, Failed
<1>9. SendInv'
  <2>1. LeavesKept(save.ids, save.base, save.touched)'
    BY <1>1, <1>4 DEF DialogInv, DraftInv, LeavesKept, Dialog!Leaf, Dialog!Children
  <2>2. QED
    BY <1>1, <1>5, <2>1 DEF DialogInv, SendInv, Failed
<1>10. QED
  BY <1>6, <1>7, <1>8, <1>9 DEF DialogInv

\* The server replaces the rows.
LEMMA ServeSaveStep ==
  ASSUME Dialog!ConstantsOK, DialogInv, Dialog!ServeSave
  PROVE  DialogInv'
<1>1. /\ save.st = "sent"
      /\ save' = [Dialog!NoSave EXCEPT !.st = "served", !.owner = save.owner, !.ids = save.ids]
      /\ assigned' = [assigned EXCEPT ![save.owner] = save.ids]
      /\ UNCHANGED <<kind, parent, tree, entry, fetch, dialog, bounds>>
  BY DEF Dialog!ServeSave
<1>2. save \in Saves /\ save.owner \in Owners /\ assigned \in [Owners -> SUBSET Assignables]
  BY <1>1 DEF DialogInv, DialogTypes
<1>3. save' \in Saves /\ save'.st = "served" /\ save'.owner = save.owner
  <2>1. save' = [st |-> "served", owner |-> save.owner, ids |-> save.ids, base |-> {},
                 from |-> None, touched |-> {}, at |-> None, loaded |-> FALSE]
    BY <1>1 DEF Dialog!NoSave
  <2>2. [st |-> "served", owner |-> save.owner, ids |-> save.ids, base |-> {}, from |-> None,
         touched |-> {}, at |-> None, loaded |-> FALSE] \in Saves
    BY <1>2 DEF Saves, Dialog!OwnerOrNone
  <2>3. QED
    BY <2>1, <2>2
<1>4. /\ assigned' \in [Owners -> SUBSET Assignables]
      /\ \A p \in Owners \ {save.owner} : assigned'[p] = assigned[p]
  <2>1. save.ids \in SUBSET Assignables
    BY <1>2 DEF Saves
  <2>2. QED
    BY <1>1, <1>2, <2>1
<1>5. DialogTypes'
  BY <1>1, <1>2, <1>3, <1>4 DEF DialogInv, DialogTypes, Grown, Dialog!Forests
<1>6. CacheInv'
  <2>1. ASSUME NEW p \in Owners PROVE Fresh(p)' /\ Filed(p)'
    BY <1>1, <1>3, <1>4 DEF DialogInv, CacheInv, Fresh, Filed, Unheard, Failed
  <2>2. QED
    BY <2>1 DEF CacheInv
<1>7. DraftInv' /\ SendInv'
  BY <1>1, <1>3
     DEF DialogInv, DraftInv, SendInv, Whole, LeavesKept, Dialog!Leaf, Dialog!Children, Failed
<1>8. QED
  BY <1>5, <1>6, <1>7 DEF DialogInv

\* The call of the save fails.
LEMMA SaveFailsStep ==
  ASSUME Dialog!ConstantsOK, DialogInv, Dialog!SaveFails
  PROVE  DialogInv'
<1>1. /\ Dialog!Spend("fails", MaxDialogFails) /\ save.st \in {"sent", "served"}
      /\ save' = Dialog!NoSave
      /\ UNCHANGED <<kind, parent, assigned, tree, fetch, dialog>>
  BY DEF Dialog!SaveFails, Dialog!rows
<1>2. /\ save \in Saves /\ save.owner \in Owners /\ entry \in [Owners -> Entries]
      /\ entry[save.owner] \in Entries /\ DialogTypes
  BY <1>1 DEF DialogInv, DialogTypes
<1>3. PICK b \in BOOLEAN :
        /\ b <=> entry[save.owner].behind \/ save.st = "served"
        /\ entry' = [entry EXCEPT ![save.owner] = [entry[save.owner] EXCEPT !.behind = b]]
  <2>1. entry' = [entry EXCEPT ![save.owner] =
                    [entry[save.owner] EXCEPT !.behind = entry[save.owner].behind \/ save.st = "served"]]
    BY <1>2 DEF Dialog!SaveFails
  <2>2. CASE entry[save.owner].behind \/ save.st = "served"
    <3>1. TRUE = (entry[save.owner].behind \/ save.st = "served")
      BY <2>2
    <3>2. QED
      BY <2>1, <2>2, <3>1
  <2>3. CASE ~(entry[save.owner].behind \/ save.st = "served")
    <3>1. FALSE = (entry[save.owner].behind \/ save.st = "served")
      BY <2>3
    <3>2. QED
      BY <2>1, <2>3, <3>1
  <2>4. QED
    BY <2>2, <2>3
<1>4. /\ [entry[save.owner] EXCEPT !.behind = b] \in Entries
      /\ [entry[save.owner] EXCEPT !.behind = b].ids = entry[save.owner].ids
      /\ [entry[save.owner] EXCEPT !.behind = b].owner = entry[save.owner].owner
  BY <1>2 DEF Entries
<1>5. [entry[save.owner] EXCEPT !.behind = b].behind <=> b
  BY <1>2 DEF Entries
<1>6. /\ entry' \in [Owners -> Entries]
      /\ \A p \in Owners : entry'[p].ids = entry[p].ids /\ entry'[p].owner = entry[p].owner
      /\ \A p \in Owners \ {save.owner} : entry'[p] = entry[p]
      /\ entry'[save.owner].behind <=> b
  BY <1>2, <1>3, <1>4, <1>5
<1>7. bounds' \in [inputs : Nat, fails : Nat] /\ Failed'
  BY <1>1, <1>2, BoundsSpent DEF Failed
<1>8. save' \in Saves /\ save'.st = "none"
  BY <1>1 DEF Dialog!NoSave, Saves, Dialog!OwnerOrNone
<1>9. DialogTypes'
  BY <1>1, <1>6, <1>7, <1>8 DEF DialogInv, DialogTypes, Grown, Dialog!Forests
<1>10. CacheInv'
  <2>1. ASSUME NEW p \in Owners PROVE Fresh(p)' /\ Filed(p)'
    <3>1. Filed(p)'
      BY <1>6, <1>7 DEF DialogInv, CacheInv, Filed
    <3>2. CASE p = save.owner
      BY <1>1, <1>3, <1>6, <3>1, <3>2 DEF DialogInv, CacheInv, Fresh, Unheard
    <3>3. CASE p # save.owner
      BY <1>1, <1>6, <3>1, <3>3 DEF DialogInv, CacheInv, Fresh, Unheard
    <3>4. QED
      BY <3>2, <3>3
  <2>2. QED
    BY <2>1 DEF CacheInv
<1>11. DraftInv'
  <2>1. dialog.owner # None => dialog.owner \in Owners
    BY DEF DialogInv, DialogTypes, Drafts, Dialog!OwnerOrNone
  <2>2. QED
    BY <1>1, <1>6, <1>7, <2>1
       DEF DialogInv, DraftInv, Whole, LeavesKept, Dialog!Leaf, Dialog!Children
<1>12. SendInv'
  BY <1>7, <1>8 DEF SendInv
<1>13. QED
  BY <1>9, <1>10, <1>11, <1>12 DEF DialogInv

\* The save has settled: the dialog that is open then is closed.
LEMMA SaveSettlesStep ==
  ASSUME Dialog!ConstantsOK, DialogInv, Dialog!SaveSettles
  PROVE  DialogInv'
<1>1. /\ save.st = "settling" /\ (save.at # None => fetch[save.at].st = "idle")
      /\ save' = Dialog!NoSave /\ dialog' = Dialog!Closed
      /\ UNCHANGED <<kind, parent, assigned, tree, entry, fetch, bounds>>
  BY DEF Dialog!SaveSettles, Dialog!rows
<1>2. /\ save' \in Saves /\ save'.st = "none" /\ dialog' \in Drafts /\ dialog'.owner = None
  BY <1>1
     DEF Dialog!NoSave, Dialog!Closed, Drafts, Saves, Dialog!OwnerOrNone
<1>3. DialogTypes'
  BY <1>1, <1>2 DEF DialogInv, DialogTypes, Grown, Dialog!Forests
<1>4. CacheInv'
  <2>1. ASSUME NEW p \in Owners PROVE Fresh(p)' /\ Filed(p)'
    <3>1. p # None
      BY DEF Dialog!ConstantsOK
    <3>2. QED
      BY <1>1, <1>2, <3>1 DEF DialogInv, CacheInv, Fresh, Filed, Unheard, Failed
  <2>2. QED
    BY <2>1 DEF CacheInv
<1>5. DraftInv' /\ SendInv'
  BY <1>1, <1>2 DEF DialogInv, DraftInv, SendInv, Failed
<1>6. QED
  BY <1>3, <1>4, <1>5 DEF DialogInv

\* The entry of the owner saved is left behind unless the dialog still shows it.
LEMMA LeftEntry ==
  ASSUME DialogTypes, Dialog!SaveSucceeds
  PROVE  \E L \in [Owners -> Entries] :
           /\ \A p \in Owners : L[p].ids = entry[p].ids /\ L[p].owner = entry[p].owner
           /\ \A p \in Owners \ {save.owner} : L[p] = entry[p]
           /\ dialog.owner # save.owner \/ (kind = "flat" /\ entry[dialog.owner].ids = None) =>
                L[save.owner].behind
           /\ entry[save.owner].behind => L[save.owner].behind
           /\ entry' = IF dialog.owner = None \/ kind = "flat" THEN L
                       ELSE [L EXCEPT ![dialog.owner] =
                               [L[dialog.owner] EXCEPT !.ids = save.ids, !.owner = save.owner]]
<1>1. /\ save.owner \in Owners /\ entry \in [Owners -> Entries] /\ entry[save.owner] \in Entries
  BY DEF DialogTypes, Dialog!SaveSucceeds
<1>2. DEFINE away == \/ dialog.owner # save.owner
                     \/ kind = "flat" /\ entry[dialog.owner].ids = None
<1>3. PICK b \in BOOLEAN :
        /\ b <=> entry[save.owner].behind \/ away
        /\ LET left == [entry EXCEPT ![save.owner] = [entry[save.owner] EXCEPT !.behind = b]] IN
           entry' = IF dialog.owner = None \/ kind = "flat" THEN left
                    ELSE [left EXCEPT ![dialog.owner] =
                            [left[dialog.owner] EXCEPT !.ids = save.ids, !.owner = save.owner]]
  <2>1. CASE entry[save.owner].behind \/ away
    <3>1. TRUE = (entry[save.owner].behind \/ dialog.owner # save.owner
                    \/ (kind = "flat" /\ ~Dialog!HasData(dialog.owner)))
      BY <2>1 DEF Dialog!HasData
    <3>2. QED
      BY <2>1, <3>1 DEF Dialog!SaveSucceeds
  <2>2. CASE ~(entry[save.owner].behind \/ away)
    <3>1. FALSE = (entry[save.owner].behind \/ dialog.owner # save.owner
                     \/ (kind = "flat" /\ ~Dialog!HasData(dialog.owner)))
      BY <2>2 DEF Dialog!HasData
    <3>2. QED
      BY <2>2, <3>1 DEF Dialog!SaveSucceeds
  <2>3. QED
    BY <2>1, <2>2
<1>4. DEFINE L == [entry EXCEPT ![save.owner] = [entry[save.owner] EXCEPT !.behind = b]]
<1>5. /\ [entry[save.owner] EXCEPT !.behind = b] \in Entries
      /\ [entry[save.owner] EXCEPT !.behind = b].ids = entry[save.owner].ids
      /\ [entry[save.owner] EXCEPT !.behind = b].owner = entry[save.owner].owner
  BY <1>1 DEF Entries
<1>6. [entry[save.owner] EXCEPT !.behind = b].behind <=> b
  BY <1>1 DEF Entries
<1>7. /\ L \in [Owners -> Entries]
      /\ \A p \in Owners : L[p].ids = entry[p].ids /\ L[p].owner = entry[p].owner
      /\ \A p \in Owners \ {save.owner} : L[p] = entry[p]
      /\ L[save.owner].behind <=> b
  BY <1>1, <1>5, <1>6
<1>8. QED
  BY <1>3, <1>7

\* The save has succeeded: the dialog that is open now gets its ids.
LEMMA SaveSucceedsStep ==
  ASSUME Dialog!ConstantsOK, DialogInv, Dialog!SaveSucceeds
  PROVE  DialogInv'
<1>1. /\ save.st = "served"
      /\ save' = [Dialog!NoSave EXCEPT !.st = "settling", !.at = dialog.owner]
      /\ fetch' = IF dialog.owner = None THEN fetch
                  ELSE IF entry'[dialog.owner].ids # None
                       THEN [fetch EXCEPT ![dialog.owner] = [Dialog!NoFetch EXCEPT !.st = "sent"]]
                       ELSE Dialog!Joined(dialog.owner)
      /\ dialog' = Dialog!Remounted(dialog, entry', tree)
      /\ UNCHANGED <<kind, parent, assigned, tree, bounds>>
  BY DEF Dialog!SaveSucceeds, Dialog!Refetched, Dialog!rows
<1>2. /\ save \in Saves /\ save.owner \in Owners /\ save.owner # None
      /\ save.ids \in SUBSET Assignables /\ save.ids # None
      /\ fetch \in [Owners -> Fetches] /\ entry \in [Owners -> Entries]
      /\ dialog.owner # None => dialog.owner \in Owners
  <2>1. save \in Saves /\ dialog \in Drafts /\ save.owner \in Owners
    BY <1>1 DEF DialogInv, DialogTypes
  <2>2. save.ids \in SUBSET Assignables
    BY <2>1 DEF Saves
  <2>3. QED
    BY <2>1, <2>2 DEF DialogInv, DialogTypes, Drafts, Dialog!OwnerOrNone, Dialog!ConstantsOK
<1>3. PICK L \in [Owners -> Entries] :
        /\ \A p \in Owners : L[p].ids = entry[p].ids /\ L[p].owner = entry[p].owner
        /\ \A p \in Owners \ {save.owner} : L[p] = entry[p]
        /\ dialog.owner # save.owner \/ (kind = "flat" /\ entry[dialog.owner].ids = None) =>
             L[save.owner].behind
        /\ entry[save.owner].behind => L[save.owner].behind
        /\ entry' = IF dialog.owner = None \/ kind = "flat" THEN L
                    ELSE [L EXCEPT ![dialog.owner] =
                            [L[dialog.owner] EXCEPT !.ids = save.ids, !.owner = save.owner]]
  BY LeftEntry DEF DialogInv
<1>4. /\ entry' \in [Owners -> Entries]
      /\ \A p \in Owners : p # dialog.owner \/ kind = "flat" => entry'[p] = L[p]
      /\ dialog.owner # None /\ kind # "flat" =>
           entry'[dialog.owner].ids = save.ids /\ entry'[dialog.owner].owner = save.owner
  <2>1. CASE dialog.owner = None \/ kind = "flat"
    <3>1. entry' = L /\ None \notin Owners
      BY <1>3, <2>1 DEF Dialog!ConstantsOK
    <3>2. QED
      BY <2>1, <3>1
  <2>2. CASE dialog.owner # None /\ kind # "flat"
    <3>1. PICK e : e = [L[dialog.owner] EXCEPT !.ids = save.ids, !.owner = save.owner]
      OBVIOUS
    <3>2. L[dialog.owner] \in Entries
      BY <1>2, <1>3, <2>2
    <3>3. e \in Entries /\ e.ids = save.ids /\ e.owner = save.owner
      BY <1>2, <3>1, <3>2 DEF Entries, Dialog!OwnerOrNone
    <3>4. entry' = [L EXCEPT ![dialog.owner] = e]
      BY <1>3, <2>2, <3>1
    <3>5. QED
      BY <1>2, <1>3, <2>2, <3>3, <3>4
  <2>3. QED
    BY <2>1, <2>2
<1>5. /\ fetch' \in [Owners -> Fetches]
      /\ \A p \in Owners : p # dialog.owner => fetch'[p] = fetch[p]
      /\ dialog.owner # None =>
           /\ fetch'[dialog.owner].st # "idle"
           /\ entry'[dialog.owner].ids # None => fetch'[dialog.owner].st = "sent"
           /\ fetch'[dialog.owner] = fetch[dialog.owner] \/ fetch'[dialog.owner].st = "sent"
  <2>1. CASE dialog.owner = None
    <3>1. None \notin Owners
      BY DEF Dialog!ConstantsOK
    <3>2. QED
      BY <1>1, <1>2, <2>1, <3>1
  <2>2. CASE dialog.owner # None /\ entry'[dialog.owner].ids # None
    <3>1. PICK f : f = [Dialog!NoFetch EXCEPT !.st = "sent"]
      OBVIOUS
    <3>2. f \in Fetches /\ f.st = "sent"
      BY <3>1 DEF Dialog!NoFetch, Fetches
    <3>3. fetch' = [fetch EXCEPT ![dialog.owner] = f]
      BY <1>1, <2>2, <3>1
    <3>4. QED
      BY <1>2, <2>2, <3>2, <3>3
  <2>3. CASE dialog.owner # None /\ entry'[dialog.owner].ids = None
    <3>1. fetch' = Dialog!Joined(dialog.owner) /\ dialog.owner \in Owners
      BY <1>1, <1>2, <2>3
    <3>2. QED
      BY <2>3, <3>1, JoinedFetch DEF DialogInv
  <2>4. QED
    BY <2>1, <2>2, <2>3
<1>6. /\ save' \in Saves /\ save'.st = "settling" /\ save'.at = dialog.owner
  <2>1. save' = [st |-> "settling", owner |-> None, ids |-> {}, base |-> {}, from |-> None,
                 touched |-> {}, at |-> dialog.owner, loaded |-> FALSE]
    BY <1>1 DEF Dialog!NoSave
  <2>2. [st |-> "settling", owner |-> None, ids |-> {}, base |-> {}, from |-> None,
         touched |-> {}, at |-> dialog.owner, loaded |-> FALSE] \in Saves
    BY <1>2 DEF Saves, Dialog!OwnerOrNone
  <2>3. QED
    BY <2>1, <2>2
<1>7. /\ dialog' \in Drafts /\ dialog'.owner = dialog.owner
      /\ dialog.owner # None =>
           /\ kind # "flat" => Whole(dialog'.draft)
           /\ LeavesKept(dialog'.draft, dialog'.base, dialog'.touched)
           /\ dialog'.from = entry'[dialog.owner].owner
  BY <1>1, <1>4, RemountedDraft DEF DialogInv
<1>8. DialogTypes'
  BY <1>1, <1>4, <1>5, <1>6, <1>7 DEF DialogInv, DialogTypes, Grown, Dialog!Forests
<1>9. CacheInv'
  <2>1. ASSUME NEW p \in Owners PROVE Fresh(p)' /\ Filed(p)'
    <3>1. Fresh(p) /\ Filed(p)
      BY DEF DialogInv, CacheInv
    <3>2. Filed(p)'
      <4>1. CASE p # dialog.owner \/ kind = "flat"
        BY <1>1, <1>3, <1>4, <3>1, <4>1 DEF Filed, Failed
      <4>2. CASE p = dialog.owner /\ kind # "flat"
        <5>1. dialog.owner # None
          BY <4>2 DEF Dialog!ConstantsOK
        <5>2. QED
          BY <1>2, <1>4, <1>5, <1>6, <4>2, <5>1 DEF Filed
      <4>3. QED
        BY <4>1, <4>2
    <3>3. Fresh(p)'
      <4>1. CASE p # dialog.owner /\ p # save.owner
        BY <1>1, <1>3, <1>4, <1>5, <3>1, <4>1 DEF Fresh, Unheard
      <4>2. CASE p # dialog.owner /\ p = save.owner
        BY <1>3, <1>4, <4>2 DEF Fresh
      <4>3. CASE p = dialog.owner
        <5>1. dialog.owner # None
          BY <4>3 DEF Dialog!ConstantsOK
        <5>2. CASE entry'[p].ids # None
          BY <1>5, <4>3, <5>1, <5>2 DEF Fresh
        <5>3. CASE entry'[p].ids = None
          <6>1. kind = "flat" /\ entry'[p] = L[p] /\ entry[p].ids = None
            BY <1>2, <1>3, <1>4, <4>3, <5>1, <5>3
          <6>2. CASE p = save.owner
            BY <1>3, <4>3, <6>1, <6>2 DEF Fresh
          <6>3. CASE p # save.owner
            BY <1>1, <1>3, <1>5, <3>1, <4>3, <5>1, <5>3, <6>1, <6>3 DEF Fresh, Unheard
          <6>4. QED
            BY <6>2, <6>3
        <5>4. QED
          BY <5>2, <5>3
      <4>4. QED
        BY <4>1, <4>2, <4>3
    <3>4. QED
      BY <3>2, <3>3
  <2>2. QED
    BY <2>1 DEF CacheInv
<1>10. DraftInv'
  <2>1. SUFFICES ASSUME dialog.owner # None
                 PROVE  DraftInv'
    BY <1>7 DEF DraftInv
  <2>2. ASSUME kind # "flat" PROVE Whole(dialog.draft)'
    <3>1. PICK D : D = dialog'.draft
      OBVIOUS
    <3>2. Whole(D)
      BY <1>7, <2>1, <2>2, <3>1
    <3>3. UNCHANGED parent
      BY <1>1
    <3>4. QED
      BY <3>1, <3>2, <3>3 DEF Whole, Dialog!Leaf, Dialog!Children
  <2>3. LeavesKept(dialog.draft, dialog.base, dialog.touched)'
    BY <1>1, <1>7, <2>1 DEF LeavesKept, Dialog!Leaf, Dialog!Children
  <2>4. tree # "none"
    BY <2>1 DEF DialogInv, DraftInv
  <2>5. QED
    BY <1>1, <1>5, <1>7, <2>1, <2>2, <2>3, <2>4 DEF DraftInv
<1>11. SendInv'
  BY <1>1, <1>6 DEF DialogInv, SendInv, Failed
<1>12. QED
  BY <1>8, <1>9, <1>10, <1>11 DEF DialogInv

LEMMA DialogNext ==
  ASSUME Dialog!ConstantsOK, DialogInv, [Dialog!Next]_(Dialog!vars)
  PROVE  DialogInv'
<1>1. CASE UNCHANGED Dialog!vars
  <2>1. UNCHANGED <<kind, parent, assigned, tree, entry, fetch, dialog, save, bounds>>
    BY <1>1 DEF Dialog!vars, Dialog!rows
  <2>2. DialogTypes'
    BY <2>1 DEF DialogInv, DialogTypes, Grown, Dialog!Forests
  <2>3. CacheInv'
    BY <2>1 DEF DialogInv, CacheInv, Fresh, Filed, Unheard, Failed
  <2>4. DraftInv' /\ SendInv'
    BY <2>1
       DEF DialogInv, DraftInv, SendInv, Whole, LeavesKept, Dialog!Leaf, Dialog!Children, Failed
  <2>5. QED
    BY <2>2, <2>3, <2>4 DEF DialogInv
<1>2. CASE Dialog!Next
  <2>1. CASE \E o \in Owners :
               \/ Dialog!Open(o) \/ Dialog!ServeFetch(o) \/ Dialog!ReceiveFetch(o)
               \/ Dialog!FailFetch(o)
               \/ \E n \in Assignables :
                    Dialog!OtherAssigns(o, Dialog!Toggled(n, assigned[o]))
    BY <2>1, OpenStep, ServeFetchStep, ReceiveFetchStep, LeftBehindStep
  <2>2. CASE \/ \E n \in Assignables : Dialog!Toggle(n)
             \/ Dialog!Close
    BY <2>2, DraftStep
  <2>3. CASE Dialog!ReceiveTree \/ Dialog!FailTree
    BY <2>3, TreeStep
  <2>4. CASE \/ Dialog!Save \/ Dialog!ServeSave \/ Dialog!SaveSucceeds
             \/ Dialog!SaveSettles \/ Dialog!SaveFails
    BY <2>4, SaveStep, ServeSaveStep, SaveSucceedsStep, SaveSettlesStep, SaveFailsStep
  <2>5. QED
    BY <1>2, <2>1, <2>2, <2>3, <2>4 DEF Dialog!Next
<1>3. QED
  BY <1>1, <1>2

LEMMA DialogInductive == ASSUME Dialog!ConstantsOK PROVE Dialog!Spec => []DialogInv
<1>1. Dialog!Init => DialogInv
  BY DialogInit
<1>2. DialogInv /\ [Dialog!Next]_(Dialog!vars) => DialogInv'
  BY DialogNext
<1>3. QED
  BY <1>1, <1>2, PTL DEF Dialog!Spec

\* Rows, cached assignments, the draft and the save keep their types.
THEOREM DialogTyped == ASSUME Dialog!ConstantsOK PROVE Dialog!Spec => []Dialog!TypeOK
<1>1. DialogInv => Dialog!TypeOK
  BY Parents DEF DialogInv, DialogTypes, Dialog!TypeOK, Entries, Fetches, Drafts, Saves
<1>2. QED
  BY <1>1, DialogInductive, PTL

\* A save sends what the administrator chose for this owner: whole branches, leaves nobody
\* toggled as they were, on top of what the server has, but for the causes named.
THEOREM SavesAreChosen == ASSUME Dialog!ConstantsOK PROVE Dialog!Spec => []Dialog!SavesAreMeant
<1>1. ASSUME DialogInv PROVE Dialog!DraftReconciled
  BY <1>1 DEF DialogInv, DraftInv, Whole, Dialog!DraftReconciled
<1>2. ASSUME DialogInv PROVE Dialog!UntouchedLeavesKept
  BY <1>2 DEF DialogInv, SendInv, LeavesKept, Dialog!UntouchedLeavesKept
<1>3. ASSUME DialogInv PROVE Dialog!SettledEntryCurrent
  BY <1>3 DEF DialogInv, CacheInv, Fresh, Unheard, Dialog!HasData, Dialog!SettledEntryCurrent
<1>4. ASSUME DialogInv PROVE Dialog!BlindSaveNeedsFailure
  BY <1>4 DEF DialogInv, SendInv, Failed, Dialog!BlindSaveNeedsFailure
<1>5. DialogInv => Dialog!SavesAreMeant
  BY <1>1, <1>2, <1>3, <1>4 DEF Dialog!SavesAreMeant
<1>6. QED
  BY <1>5, DialogInductive, PTL

==============================================================================

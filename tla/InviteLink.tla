------------------------------ MODULE InviteLink ------------------------------
(***************************************************************************)
(* The invitation link of a workspace.  The server keeps a code for each   *)
(* workspace and the way back from the code in two entries of Redis; the   *)
(* dialog of the members page caches the answer under a key that does not  *)
(* name the workspace, while the tokens decide whose link it is.           *)
(***************************************************************************)
EXTENDS Integers, FiniteSets

CONSTANTS
  Workspaces,   \* the workspaces of one administrator
  MaxCodes,     \* codes the server may generate, numbered
  Life,         \* days an entry of Redis lives (INVITE_TTL)
  None,         \* no workspace
  MaxInputs,    \* bound on inputs and on the passing of time
  MaxErrors     \* bound on failures

ConstantsOK ==
  /\ None \notin Workspaces
  /\ MaxCodes \in Nat /\ Life \in Nat \ {0} /\ MaxInputs \in Nat /\ MaxErrors \in Nat

VARIABLES
  codeOf,     \* CACHE_INVITE_CODE: the code of each workspace, the days left
  leadsTo,    \* CACHE_INVITE_CODE_LOOKUP: the workspace of each code, the days left
  minted,     \* codes generated
  invites,    \* calls of invite_code: the page's and another administrator's
  tokenOf,    \* the workspace the stored tokens are for
  named,      \* the workspace the header of the page names
  teamCall,   \* the workspace a switch under way asks for
  opened,     \* the dialog is open
  link,       \* the cached answer: its code, 0 for none, and whether it is fresh
  aged,       \* history: a day went by since the code of the link was looked up
  torn,       \* history: a write of Redis was lost, or a call given up
  rivals,     \* history: a code was made beside another: two calls looked for one
              \* at once, or the one that was there could not be read
  afar,       \* history: another tab switched the tokens since the page was loaded
  inviteInputs, inviteErrors   \* spent bounds

server == <<codeOf, leadsTo, minted>>
client == <<tokenOf, named, teamCall, opened, link>>
marks == <<aged, torn, rivals, afar>>
inviteVars == <<server, client, invites, marks, inviteInputs, inviteErrors>>

Callers == {"page", "other"}
CodeNames == 1 .. MaxCodes
NoEntry == [code |-> 0, left |-> 0]
NoWay == [to |-> None, left |-> 0]
NoCall == [st |-> "idle", for |-> None, code |-> 0, old |-> FALSE]
NoLink == [code |-> 0, fresh |-> FALSE]

Init ==
  /\ codeOf = [w \in Workspaces |-> NoEntry]
  /\ leadsTo = [c \in CodeNames |-> NoWay]
  /\ minted = 0
  /\ invites = [i \in Callers |-> NoCall]
  /\ tokenOf \in Workspaces /\ named = tokenOf
  /\ teamCall = None
  /\ opened = FALSE
  /\ link = NoLink
  /\ aged = FALSE /\ torn = FALSE /\ rivals = FALSE /\ afar = FALSE
  /\ inviteInputs = 0 /\ inviteErrors = 0

Input == inviteInputs < MaxInputs /\ inviteInputs' = inviteInputs + 1
Error == inviteErrors < MaxErrors /\ inviteErrors' = inviteErrors + 1

---------------------------------------------------------------------------
(* invite_code: the code of the workspace, or a new one and the way back.   *)

Call(i) == [NoCall EXCEPT !.st = "asked", !.for = tokenOf]

\* Mutant of LookUp: a code that is found lives on, the way back does not.
LookUpRenewing(i) ==
  LET w == invites[i].for  entry == codeOf[w] IN
  /\ invites[i].st = "asked"
  /\ invites' = [invites EXCEPT ![i] =
       [@ EXCEPT !.st = IF entry.code # 0 THEN "served" ELSE "missed", !.code = entry.code]]
  /\ codeOf' = IF entry.code # 0 THEN [codeOf EXCEPT ![w].left = Life] ELSE codeOf
  /\ UNCHANGED <<leadsTo, minted, client, marks, inviteInputs, inviteErrors>>

\* A failed read goes on as if there were no code.
LookUp(i) ==
  LET entry == codeOf[invites[i].for] IN
  /\ invites[i].st = "asked"
  /\ \/ /\ entry.code # 0
        /\ invites' = [invites EXCEPT ![i].st = "served", ![i].code = entry.code]
        /\ UNCHANGED <<rivals, inviteErrors>>
     \/ /\ minted < MaxCodes
        /\ IF entry.code = 0 THEN UNCHANGED inviteErrors ELSE Error
        /\ invites' = [invites EXCEPT ![i].st = "missed"]
        /\ rivals' = \/ rivals \/ entry.code # 0
                     \/ \E j \in Callers \ {i} : invites[j].st \in {"missed", "keyed"}
  /\ UNCHANGED <<server, client, aged, torn, afar, inviteInputs>>

\* A failed write is only logged.
WriteOrLose(written) ==
  \/ written /\ UNCHANGED <<torn, inviteErrors>>
  \/ UNCHANGED <<codeOf, leadsTo>> /\ torn' = TRUE /\ Error

StoreCode(i) ==
  /\ invites[i].st = "missed"
  /\ minted < MaxCodes
  /\ minted' = minted + 1
  /\ invites' = [invites EXCEPT ![i].st = "keyed", ![i].code = minted + 1]
  /\ WriteOrLose(/\ codeOf' = [codeOf EXCEPT ![invites[i].for] =
                                 [code |-> minted + 1, left |-> Life]]
                 /\ UNCHANGED leadsTo)
  /\ UNCHANGED <<client, aged, rivals, afar, inviteInputs>>

StoreLookup(i) ==
  /\ invites[i].st = "keyed"
  /\ invites' = [invites EXCEPT ![i].st = "served"]
  /\ WriteOrLose(/\ leadsTo' = [leadsTo EXCEPT ![invites[i].code] =
                                  [to |-> invites[i].for, left |-> Life]]
                 /\ UNCHANGED codeOf)
  /\ UNCHANGED <<minted, client, aged, rivals, afar, inviteInputs>>

\* Entries die with their days; the link is stale after five minutes.
DayPasses ==
  /\ Input
  /\ \A i \in Callers : invites[i].st \in {"idle", "asked", "served"}
  /\ codeOf' = [w \in Workspaces |->
       IF codeOf[w].left > 1 THEN [codeOf[w] EXCEPT !.left = @ - 1] ELSE NoEntry]
  /\ leadsTo' = [c \in CodeNames |->
       IF leadsTo[c].left > 1 THEN [leadsTo[c] EXCEPT !.left = @ - 1] ELSE NoWay]
  /\ link' = [link EXCEPT !.fresh = FALSE]
  /\ aged' = (aged \/ link.code # 0)
  /\ invites' = [invites EXCEPT !["page"].old = (@ \/ invites["page"].st = "served")]
  /\ UNCHANGED <<minted, tokenOf, named, teamCall, opened, torn, rivals, afar,
                 inviteErrors>>

\* Another administrator asks for the link of any workspace.
OtherAsks(w) ==
  /\ Input
  /\ invites["other"] = NoCall
  /\ invites' = [invites EXCEPT !["other"] = [NoCall EXCEPT !.st = "asked", !.for = w]]
  /\ UNCHANGED <<server, client, marks, inviteErrors>>

OtherAnswered ==
  /\ invites["other"].st = "served"
  /\ invites' = [invites EXCEPT !["other"] = NoCall]
  /\ UNCHANGED <<server, client, marks, inviteInputs, inviteErrors>>

---------------------------------------------------------------------------
(* The dialog: a query that is enabled while it is open.                    *)

OpenDialog ==
  /\ Input
  /\ ~opened
  /\ opened' = TRUE
  /\ invites' = IF link.fresh \/ invites["page"] # NoCall THEN invites
                ELSE [invites EXCEPT !["page"] = Call("page")]
  /\ UNCHANGED <<server, tokenOf, named, teamCall, link, marks, inviteErrors>>

CloseDialog ==
  /\ opened
  /\ opened' = FALSE
  /\ UNCHANGED <<server, tokenOf, named, teamCall, link, invites, marks, inviteInputs,
                 inviteErrors>>

ReceiveLink ==
  /\ invites["page"].st = "served"
  /\ link' = [code |-> invites["page"].code, fresh |-> TRUE]
  /\ aged' = invites["page"].old
  /\ invites' = [invites EXCEPT !["page"] = NoCall]
  /\ UNCHANGED <<server, tokenOf, named, teamCall, opened, torn, rivals, afar, inviteInputs,
                 inviteErrors>>

\* A handler that is given up stops where it is.
Broken(i) == torn \/ invites[i].st = "keyed"

LinkFails ==
  /\ Error
  /\ invites["page"] # NoCall
  /\ invites' = [invites EXCEPT !["page"] = NoCall]
  /\ torn' = Broken("page")
  /\ UNCHANGED <<server, client, aged, rivals, afar, inviteInputs>>

LinkGoesStale ==
  /\ Input
  /\ link.fresh
  /\ link' = [link EXCEPT !.fresh = FALSE]
  /\ UNCHANGED <<server, tokenOf, named, teamCall, opened, invites, marks, inviteErrors>>

---------------------------------------------------------------------------
(* The workspace: the switcher of this page, and that of another tab.       *)

SwitchTeam(w) ==
  /\ Input
  /\ ~opened /\ teamCall = None
  /\ w # named
  /\ teamCall' = w
  /\ UNCHANGED <<server, tokenOf, named, opened, link, invites, marks, inviteErrors>>

\* The new tokens are stored and the dashboard is loaded anew.
Switched ==
  /\ teamCall # None
  /\ tokenOf' = teamCall /\ named' = teamCall
  /\ teamCall' = None
  /\ opened' = FALSE
  /\ link' = NoLink
  /\ invites' = [invites EXCEPT !["page"] = NoCall]
  /\ torn' = Broken("page")
  /\ aged' = FALSE /\ afar' = FALSE
  /\ UNCHANGED <<server, rivals, inviteInputs, inviteErrors>>

SwitchFails ==
  /\ Error
  /\ teamCall # None
  /\ teamCall' = None
  /\ UNCHANGED <<server, tokenOf, named, opened, link, invites, marks, inviteInputs>>

SwitchElsewhere(w) ==
  /\ Input
  /\ w # tokenOf
  /\ tokenOf' = w
  /\ afar' = TRUE
  /\ UNCHANGED <<server, named, teamCall, opened, link, invites, aged, torn, rivals,
                 inviteErrors>>

\* Back in this tab the header is asked for again.
HeaderRefetched ==
  /\ named # tokenOf
  /\ named' = tokenOf
  /\ UNCHANGED <<server, tokenOf, teamCall, opened, link, invites, marks, inviteInputs,
                 inviteErrors>>

---------------------------------------------------------------------------
Next ==
  \/ \E i \in Callers : LookUp(i) \/ StoreCode(i) \/ StoreLookup(i)
  \/ DayPasses \/ OtherAnswered
  \/ OpenDialog \/ CloseDialog \/ ReceiveLink \/ LinkFails \/ LinkGoesStale
  \/ Switched \/ SwitchFails \/ HeaderRefetched
  \/ \E w \in Workspaces : OtherAsks(w) \/ SwitchTeam(w) \/ SwitchElsewhere(w)

Spec == Init /\ [][Next]_inviteVars

---------------------------------------------------------------------------
Spaces == Workspaces \cup {None}

(* Types of the entries, the calls, the tokens and the dialog.              *)
TypeOK ==
  /\ codeOf \in [Workspaces -> [code : 0 .. MaxCodes, left : 0 .. Life]]
  /\ leadsTo \in [CodeNames -> [to : Spaces, left : 0 .. Life]]
  /\ minted \in 0 .. MaxCodes
  /\ invites \in [Callers -> [st : {"idle", "asked", "missed", "keyed", "served"},
                              for : Spaces, code : 0 .. MaxCodes, old : BOOLEAN]]
  /\ tokenOf \in Workspaces /\ named \in Workspaces /\ teamCall \in Spaces
  /\ opened \in BOOLEAN
  /\ link \in [code : 0 .. MaxCodes, fresh : BOOLEAN]
  /\ {aged, torn, rivals, afar} \subseteq BOOLEAN

\* The link on screen.
Shown == opened /\ link.code # 0 /\ invites["page"] = NoCall
Works(c) == leadsTo[c].to # None

BeingStored(c) == \E i \in Callers : invites[i].st = "keyed" /\ invites[i].code = c

(* The link on screen works, unless it is just being stored, a write of it  *)
(* was lost, its call given up, or it has been there for a day.             *)
LinkWorks == Shown => Works(link.code) \/ BeingStored(link.code) \/ torn \/ aged

(* It leads to the workspace the header names, unless another tab switched  *)
(* the tokens since the page was loaded.                                    *)
LinkOfWorkspace ==
  Shown /\ Works(link.code) => leadsTo[link.code].to = named \/ afar

(* A workspace has one living link, unless two were asked for at once, its  *)
(* code could not be read when it was asked for again, or a write was lost. *)
OneLiveLink ==
  \A w \in Workspaces :
    Cardinality({c \in CodeNames : leadsTo[c].to = w}) > 1 => rivals \/ torn

(* The one link of a workspace works and leads to the workspace on screen,  *)
(* each but for the cause named above.                                      *)
InvitationHolds ==
  /\ LinkWorks
  /\ LinkOfWorkspace
  /\ OneLiveLink
=============================================================================

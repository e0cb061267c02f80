----------------------------- MODULE CursorPage -----------------------------
(***************************************************************************)
(* The object storage page: objects are listed by continuation tokens, of  *)
(* which the page keeps a stack, while provider and page size change at    *)
(* once and the prefix is debounced.                                       *)
(***************************************************************************)
EXTENDS Integers, Sequences, FiniteSets

CONSTANTS
  Providers,   \* storage providers
  Prefixes,    \* prefixes that can be typed
  Sizes,       \* page sizes
  Default,     \* the settings of a cleared page: provider, prefix and size
  MaxPages,    \* pages a listing has
  MaxInputs,   \* bound on inputs
  MaxErrors    \* bound on failed listings

Settings == [provider : Providers, prefix : Prefixes, size : Sizes]

ConstantsOK ==
  /\ Default \in Settings
  /\ MaxPages \in Nat \ {0} /\ MaxInputs \in Nat /\ MaxErrors \in Nat

VARIABLES
  setting,   \* provider, typed prefix and page size of the controls
  settled,   \* the debounced prefix
  tokens,    \* the stack of continuation tokens
  at,        \* index of the page shown
  listing,   \* the answer on screen: the key it answers and its next token
  asking,    \* a listing is under way
  early,     \* history: Next was clicked before the typed prefix was asked
  tries      \* spent bounds

cursorVars == <<setting, settled, tokens, at, listing, asking, early, tries>>

\* A token leads to one page of one listing; the first page needs none.
First == [of |-> Default, page |-> 0]
NoToken == [of |-> Default, page |-> -1]
TokenOf(i) == IF i \in DOMAIN tokens THEN tokens[i] ELSE First
Current == TokenOf(at + 1)

\* The query key: its prefix is the debounced one.
Asked == [setting EXCEPT !.prefix = settled]
Key == [of |-> Asked, token |-> Current]
NoListing == [key |-> [of |-> Default, token |-> NoToken], next |-> NoToken]

Init ==
  /\ setting \in Settings
  /\ settled = setting.prefix
  /\ tokens = <<First>>
  /\ at = 0
  /\ listing = NoListing
  /\ asking = TRUE
  /\ early = FALSE
  /\ tries = [inputs |-> 0, errors |-> 0]

Spend(b, max) == tries[b] < max /\ tries' = [tries EXCEPT ![b] = @ + 1]

\* A new key is asked; the old rows stay on screen meanwhile.
AskIfChanged == asking' = (asking \/ Key' # Key)

---------------------------------------------------------------------------
(* resetPagination *)

ResetPagination == at' = 0 /\ tokens' = <<First>> /\ early' = FALSE

\* handleProviderChange, handlePageSizeChange, handlePrefixChange
Change(s) ==
  /\ Spend("inputs", MaxInputs)
  /\ s # setting
  /\ Cardinality({f \in DOMAIN s : s[f] # setting[f]}) = 1
  /\ setting' = s
  /\ ResetPagination
  /\ UNCHANGED <<settled, listing>>
  /\ AskIfChanged

\* clearFilters
Clear ==
  /\ Spend("inputs", MaxInputs)
  /\ setting' = Default
  /\ ResetPagination
  /\ UNCHANGED <<settled, listing>>
  /\ AskIfChanged

Debounce ==
  /\ settled # setting.prefix
  /\ settled' = setting.prefix
  /\ UNCHANGED <<setting, tokens, at, listing, early, tries>>
  /\ AskIfChanged

---------------------------------------------------------------------------
(* Pages: both buttons wait for the listing under way *)

PrevPage ==
  /\ Spend("inputs", MaxInputs)
  /\ at > 0 /\ ~asking
  /\ at' = at - 1
  /\ UNCHANGED <<setting, settled, tokens, listing, early>>
  /\ AskIfChanged

\* Mutant of NextPage: pages ahead of this one stay on the stack.
NextPageAppends ==
  /\ Spend("inputs", MaxInputs)
  /\ listing.next # NoToken /\ ~asking
  /\ tokens' = Append(tokens, listing.next)
  /\ at' = at + 1
  /\ early' = (early \/ settled # setting.prefix)
  /\ UNCHANGED <<setting, settled, listing>>
  /\ AskIfChanged

\* The token of the rows on screen is put on top of the pages before it.
NextPage ==
  /\ Spend("inputs", MaxInputs)
  /\ listing.next # NoToken /\ ~asking
  /\ tokens' = Append(SubSeq(tokens, 1, at + 1), listing.next)
  /\ at' = at + 1
  /\ early' = (early \/ settled # setting.prefix)
  /\ UNCHANGED <<setting, settled, listing>>
  /\ AskIfChanged

---------------------------------------------------------------------------
(* The listing *)

\* Tokens continue the listing they were issued for, whatever is asked now.
Receive ==
  /\ asking
  /\ LET page == Current.page + 1 IN
     listing' = [key |-> Key,
                 next |-> IF page < MaxPages THEN [of |-> Asked, page |-> page] ELSE NoToken]
  /\ asking' = FALSE
  /\ UNCHANGED <<setting, settled, tokens, at, early, tries>>

\* Rows of another key go when their successor fails.
Fail ==
  /\ Spend("errors", MaxErrors)
  /\ asking
  /\ asking' = FALSE
  /\ listing' = IF listing.key = Key THEN listing ELSE NoListing
  /\ UNCHANGED <<setting, settled, tokens, at, early>>

Refresh ==
  /\ Spend("inputs", MaxInputs)
  /\ ~asking
  /\ asking' = TRUE
  /\ UNCHANGED <<setting, settled, tokens, at, listing, early>>

---------------------------------------------------------------------------
Next ==
  \/ \E s \in Settings : Change(s)
  \/ Clear \/ Debounce \/ PrevPage \/ NextPage \/ Receive \/ Fail \/ Refresh

Spec == Init /\ [][Next]_cursorVars

---------------------------------------------------------------------------
Tokens == [of : Settings, page : -1 .. MaxPages]

(* Types of the controls, the stack and the listing.                        *)
TypeOK ==
  /\ setting \in Settings /\ settled \in Prefixes
  /\ tokens \in Seq(Tokens) /\ at \in 0 .. MaxInputs
  /\ listing \in [key : [of : Settings, token : Tokens], next : Tokens]
  /\ asking \in BOOLEAN /\ early \in BOOLEAN
  /\ tries \in [inputs : 0 .. MaxInputs, errors : 0 .. MaxErrors]

(* A token is only sent with the provider, prefix and page size it was      *)
(* issued for, and the tokens below it lead page by page back to the first, *)
(* unless Next was clicked between a keystroke in the prefix and the end of *)
(* its debounce: then the new prefix is asked from the middle of the old    *)
(* listing.                                                                 *)
TokensMatchListing ==
  ~early =>
    /\ at < Len(tokens)
    /\ settled = setting.prefix =>
         \A i \in 2 .. at + 1 : tokens[i] = [of |-> Asked, page |-> i - 1]
=============================================================================

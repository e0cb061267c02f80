------------------------ MODULE OccurrenceDelivery ------------------------
(***************************************************************************)
(* What the notification rules promise: an occurrence is a rule and an     *)
(* instant.  Occurrences are armed and abandoned at will, but one is sent  *)
(* only after it was claimed while armed, never before its instant, and at *)
(* most once.                                                              *)
(***************************************************************************)
EXTENDS Integers

CONSTANTS Rules, Horizon

Times == 0 .. Horizon
Occurrences == Rules \X Times

VARIABLES
  clock,    \* the instant
  armed,    \* occurrences that may be claimed
  claimed,  \* occurrences that may be sent
  sent      \* how often each occurrence was sent

vars == <<clock, armed, claimed, sent>>

Init ==
  /\ clock = 0
  /\ armed = {}
  /\ claimed = {}
  /\ sent = [o \in Occurrences |-> 0]

\* Saves and finished fires arm and abandon; claims end with their handler.
Rearrange ==
  /\ armed' \in SUBSET Occurrences
  /\ claimed' \in SUBSET claimed
  /\ UNCHANGED <<clock, sent>>

Claim(o) ==
  /\ o \in armed
  /\ claimed' = claimed \cup {o}
  /\ UNCHANGED <<clock, armed, sent>>

Send(o) ==
  /\ o \in claimed
  /\ clock >= o[2]
  /\ sent[o] = 0
  /\ sent' = [sent EXCEPT ![o] = 1]
  /\ UNCHANGED <<clock, armed, claimed>>

Advance ==
  /\ clock < Horizon
  /\ clock' = clock + 1
  /\ UNCHANGED <<armed, claimed, sent>>

Next == Rearrange \/ Advance \/ \E o \in Occurrences : Claim(o) \/ Send(o)

Spec == Init /\ [][Next]_vars
=============================================================================

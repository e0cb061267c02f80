----------------------- MODULE MCNotificationRules -----------------------
(* Instances of NotificationRules for TLC. *)
EXTENDS NotificationRules, TLC

Recurring(ticks, gaps) ==
  [enabled |-> TRUE, mode |-> "recurring", ticks |-> ticks, gaps |-> gaps,
   start |-> None, delay |-> 1]

EveryTick == Recurring(1 .. Horizon, {})
Sparse == Recurring({2}, {})
WithGap == Recurring({1}, {2})
Once == [Recurring({}, {}) EXCEPT !.mode = "delay_once"]
OnceFrom0 == [Once EXCEPT !.start = 0]
Disabled == [EveryTick EXCEPT !.enabled = FALSE]
OnEvent == [EveryTick EXCEPT !.mode = "event"]

MixedDefinitions == {EveryTick, Sparse, Once, Disabled}
OneDefinition == {EveryTick}
GapDefinitions == {WithGap, OnceFrom0, OnEvent}

WorkerSymmetry == Permutations(Workers)
=============================================================================

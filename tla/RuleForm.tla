------------------------------ MODULE RuleForm ------------------------------
(* The form of the dialog of a notification rule: which fields it shows,     *)
(* which values it accepts, what it sends and what the server makes of it.   *)
(* A field that its trigger mode hides keeps its value, and is still sent or *)
(* checked: what the administrator cannot see decides what a save does.      *)
EXTENDS Integers

VARIABLES
  values,    \* NotificationRuleFormValues
  verdict    \* what the last Save did to these values: "none", "invalid", "refused", "saved"

formVars == <<values, verdict>>

Modes == {"event", "delay_once", "fixed_schedule", "cron_expression"}
Selectors == {"tenant_all", "tenant_admins", "explicit_users", "actor"}
Delays == {"", "0", "1.5", "60", "huge"}

\* Texts: "over" has more than 120 characters, "wide" no more than those but more
\* than 120 bytes, and a "long" expression more of either.  A name that is too long
\* is like one that is missing: the field is always there to say so.
Names == {"", "filled", "wide"}
EventCodes == {"", "code", "over", "wide"}
CronExpressions == {"", "* * * * *", "bad", "long"}

\* Both instants blank, or in this order.
Windows == {"open", "ordered", "reversed"}

RuleForms ==
  [basics : Names, trigger_mode : Modes, event_code : EventCodes,
   delay_seconds : Delays, schedule_kind : {"daily", "weekly"}, schedule_time : {"", "09:00"},
   schedule_weekdays : SUBSET {1}, cron_expression : CronExpressions, window : Windows,
   recipient_selector_type : Selectors, recipient_user_ids : SUBSET {"user"},
   enabled : BOOLEAN]

DEFAULT_RULE_FORM_VALUES ==
  [basics |-> "", trigger_mode |-> "event", event_code |-> "", delay_seconds |-> "",
   schedule_kind |-> "daily", schedule_time |-> "", schedule_weekdays |-> {},
   cron_expression |-> "", window |-> "open", recipient_selector_type |-> "tenant_admins",
   recipient_user_ids |-> {}, enabled |-> TRUE]

Init == values = DEFAULT_RULE_FORM_VALUES /\ verdict = "none"

---------------------------------------------------------------------------
\* The inputs of the dialog

\* An input changes the values and nothing has been saved of them yet.
Typed(next) == values' = next /\ values' # values /\ verdict' = "none"

Basics == \E text \in Names : Typed([values EXCEPT !.basics = text])

\* The actor of an event does not exist for the other modes.
ModeSelector(mode, selector) ==
  IF mode # "event" /\ selector = "actor" THEN "tenant_admins" ELSE selector

TriggerMode ==
  \E mode \in Modes :
    Typed([values EXCEPT !.trigger_mode = mode,
                         !.recipient_selector_type = ModeSelector(mode, @)])

EventCode ==
  /\ values.trigger_mode = "event"
  /\ \E code \in EventCodes : Typed([values EXCEPT !.event_code = code])

DelaySeconds ==
  /\ values.trigger_mode = "delay_once"
  /\ \E delay \in Delays : Typed([values EXCEPT !.delay_seconds = delay])

ScheduleKind ==
  /\ values.trigger_mode = "fixed_schedule"
  /\ \E kind \in {"daily", "weekly"} :
       Typed([values EXCEPT !.schedule_kind = kind,
                            !.schedule_weekdays = IF kind = "weekly" THEN @ ELSE {}])

ScheduleTime ==
  /\ values.trigger_mode = "fixed_schedule"
  /\ \E time \in {"", "09:00"} : Typed([values EXCEPT !.schedule_time = time])

ToggleWeekday ==
  /\ values.trigger_mode = "fixed_schedule" /\ values.schedule_kind = "weekly"
  /\ Typed([values EXCEPT !.schedule_weekdays = {1} \ @])

CronExpression ==
  /\ values.trigger_mode = "cron_expression"
  /\ \E cron \in CronExpressions : Typed([values EXCEPT !.cron_expression = cron])

StartAndEnd ==
  /\ values.trigger_mode # "event"
  /\ \E window \in Windows : Typed([values EXCEPT !.window = window])

\* The selectors the list offers.
RecipientSelectorOptions(mode) == IF mode = "event" THEN Selectors ELSE Selectors \ {"actor"}

RecipientSelector ==
  \E selector \in RecipientSelectorOptions(values.trigger_mode) :
    Typed([values EXCEPT !.recipient_selector_type = selector,
                         !.recipient_user_ids = IF selector = "explicit_users" THEN @ ELSE {}])

ToggleUser ==
  /\ values.recipient_selector_type = "explicit_users"
  /\ Typed([values EXCEPT !.recipient_user_ids = {"user"} \ @])

ToggleEnabled == Typed([values EXCEPT !.enabled = ~@])

---------------------------------------------------------------------------
\* Save

TimeMissing(v) == v.trigger_mode = "fixed_schedule" /\ v.schedule_time = ""

WeekdaysMissing(v) ==
  /\ v.trigger_mode = "fixed_schedule" /\ v.schedule_kind = "weekly"
  /\ v.schedule_weekdays = {}

\* createNotificationRuleSchema: the fields with an error.
Errors(v) ==
  {f \in {"basics"} : v.basics = ""}
  \union {f \in {"recipient_user_ids"} :
            v.recipient_selector_type = "explicit_users" /\ v.recipient_user_ids = {}}
  \union {f \in {"recipient_selector_type"} :
            v.trigger_mode # "event" /\ v.recipient_selector_type = "actor"}
  \union {f \in {"event_code"} :
            v.event_code = "over" \/ (v.trigger_mode = "event" /\ v.event_code = "")}
  \union {f \in {"delay_seconds"} :
            v.trigger_mode = "delay_once" /\ v.delay_seconds \in {"", "0"}}
  \union {f \in {"schedule_time"} : TimeMissing(v)}
  \union {f \in {"schedule_weekdays"} : WeekdaysMissing(v)}
  \union {f \in {"cron_expression"} :
            v.trigger_mode = "cron_expression" /\ v.cron_expression = ""}
  \union {f \in {"end_at"} : v.window = "reversed"}

\* The fields the dialog has an error message on the screen for.
ShownErrors(v) ==
  {"basics", "recipient_selector_type"}
  \union {f \in {"recipient_user_ids"} : v.recipient_selector_type = "explicit_users"}
  \union {f \in {"event_code"} : v.trigger_mode = "event"}
  \union {f \in {"delay_seconds"} : v.trigger_mode = "delay_once"}
  \union {f \in {"schedule_time"} : v.trigger_mode = "fixed_schedule"}
  \union {f \in {"schedule_weekdays"} :
            v.trigger_mode = "fixed_schedule" /\ v.schedule_kind = "weekly"}
  \union {f \in {"cron_expression"} : v.trigger_mode = "cron_expression"}
  \union {f \in {"end_at"} : v.trigger_mode # "event"}

\* Mutant of SentWindow: the window is only sent with a delay.
SentWindowOfDelay(v) == IF v.trigger_mode = "delay_once" THEN v.window ELSE "open"

SentWindow(v) == v.window

\* buildCreateRuleParam: a blank field is not sent, the schedule only in its mode.
Param(v) ==
  [v EXCEPT
     !.schedule_kind = IF v.trigger_mode = "fixed_schedule" THEN @ ELSE "",
     !.schedule_time = IF v.trigger_mode = "fixed_schedule" THEN @ ELSE "",
     !.schedule_weekdays =
       IF v.trigger_mode = "fixed_schedule" /\ v.schedule_kind = "weekly" THEN @ ELSE {},
     !.cron_expression = IF v.trigger_mode = "cron_expression" THEN @ ELSE "",
     !.window = SentWindow(v),
     !.recipient_user_ids = IF v.recipient_selector_type = "explicit_users" THEN @ ELSE {}]

\* CreateNotificationRuleReq: a delay is a whole number of 64 bits and at least one,
\* whatever the mode, texts are counted in characters, and no selector is "actor".
RequestOk(p) ==
  /\ p.basics # "" /\ p.event_code # "over" /\ p.cron_expression # "long"
  /\ p.delay_seconds \in {"", "60"}
  /\ p.recipient_selector_type # "actor"
  /\ p.recipient_selector_type = "explicit_users" => p.recipient_user_ids # {}

\* CreateNotificationRuleCmd::validate: here texts are counted in bytes.
CommandOk(p) ==
  /\ p.basics # "wide" /\ p.event_code # "wide"
  /\ p.trigger_mode # "event" => p.recipient_selector_type # "actor"
  /\ p.trigger_mode = "event" => p.event_code # ""
  /\ p.trigger_mode = "delay_once" => p.delay_seconds # ""
  /\ p.trigger_mode = "fixed_schedule" =>
       /\ p.schedule_kind # "" /\ p.schedule_time # ""
       /\ p.schedule_kind = "weekly" => p.schedule_weekdays # {}
  /\ p.trigger_mode = "cron_expression" => p.cron_expression # ""
  /\ p.recipient_selector_type = "explicit_users" => p.recipient_user_ids # {}

\* prepare_rule_for_save: only here is the expression parsed, if the rule is enabled.
ScheduleOk(p) ==
  p.enabled /\ p.trigger_mode = "cron_expression" => p.cron_expression # "bad"

Accepted(p) == RequestOk(p) /\ CommandOk(p) /\ ScheduleOk(p)

\* The browser does not submit a number field on the screen that is below its minimum
\* or not whole.
BrowserBlocks(v) == v.trigger_mode = "delay_once" /\ v.delay_seconds \in {"0", "1.5"}

Save ==
  /\ ~BrowserBlocks(values)
  /\ verdict' = IF Errors(values) # {} THEN "invalid"
                ELSE IF Accepted(Param(values)) THEN "saved" ELSE "refused"
  /\ UNCHANGED values

Next ==
  \/ Basics \/ TriggerMode \/ EventCode \/ DelaySeconds \/ ScheduleKind \/ ScheduleTime
  \/ ToggleWeekday \/ CronExpression \/ StartAndEnd \/ RecipientSelector \/ ToggleUser
  \/ ToggleEnabled \/ Save

Spec == Init /\ [][Next]_formVars

---------------------------------------------------------------------------
\* Properties

\* Types of the form and of the answer.
TypeOK == values \in RuleForms /\ verdict \in {"none", "invalid", "refused", "saved"}

\* A Save that does nothing says why: the dialog shows one of its errors, unless
\* the trigger mode hides what is wrong, a reversed window or an event too long.
InvalidShown ==
  verdict = "invalid" =>
    \/ Errors(values) \intersect ShownErrors(values) # {}
    \/ values.trigger_mode = "event" /\ values.window = "reversed"
    \/ values.trigger_mode # "event" /\ values.event_code = "over"

\* What the form accepts and the server refuses: the actor of an event, which the
\* list offers; a text of few characters and many bytes, the event's in any mode;
\* an expression too long or, if the rule is enabled, not well formed; a delay that
\* is too big; and a delay left behind in another mode that is no delay.
OnlyServerRefuses(v) ==
  \/ v.recipient_selector_type = "actor"
  \/ "wide" \in {v.basics, v.event_code}
  \/ /\ v.trigger_mode = "cron_expression"
     /\ v.cron_expression = "long" \/ (v.cron_expression = "bad" /\ v.enabled)
  \/ v.delay_seconds = "huge"
  \/ v.trigger_mode # "delay_once" /\ v.delay_seconds \in {"0", "1.5"}

\* The server refuses what the form accepts for these causes, for each of them and
\* for no other.
RefusalHasCause ==
  /\ verdict = "refused" => OnlyServerRefuses(values)
  /\ verdict = "saved" => ~OnlyServerRefuses(values)

\* createRuleFormValues: the form of the row that was stored.
FormOf(p) == [p EXCEPT !.schedule_kind = IF @ = "" THEN "daily" ELSE @]

\* What the dialog shows of the values.
Seen(v) ==
  [v EXCEPT
     !.event_code = IF v.trigger_mode = "event" THEN @ ELSE "",
     !.delay_seconds = IF v.trigger_mode = "delay_once" THEN @ ELSE "",
     !.schedule_kind = IF v.trigger_mode = "fixed_schedule" THEN @ ELSE "",
     !.schedule_time = IF v.trigger_mode = "fixed_schedule" THEN @ ELSE "",
     !.schedule_weekdays =
       IF v.trigger_mode = "fixed_schedule" /\ v.schedule_kind = "weekly" THEN @ ELSE {},
     !.cron_expression = IF v.trigger_mode = "cron_expression" THEN @ ELSE "",
     !.window = IF v.trigger_mode = "event" THEN "" ELSE @,
     !.recipient_user_ids = IF v.recipient_selector_type = "explicit_users" THEN @ ELSE {}]

\* A rule read back into the form shows what was on the screen when it was saved.
SavedReadsBack == verdict = "saved" => Seen(FormOf(Param(values))) = Seen(values)

\* Save does what the dialog shows: it stores that rule, or shows what is wrong
\* with it, or the server refuses it for one of the causes the form does not check.
SaveDoesAsShown ==
  /\ InvalidShown
  /\ RefusalHasCause
  /\ SavedReadsBack
=============================================================================

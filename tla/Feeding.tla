------------------------------ MODULE Feeding ------------------------------
(***************************************************************************)
(* A feeder's meals (web/api/schedules.py, http/handlers/feed.py).  The    *)
(* feeder dispenses by itself what the last list it was given counts down  *)
(* for today and tomorrow, and asks again when that list told it to.  A    *)
(* list is the answer to dev_feed_get or the "feed" of a property.set,     *)
(* over MQTT or from the heartbeat's queue.  Countdowns are whole seconds; *)
(* time passes in ticks, Second of them a second; days and weeks are short.*)
(***************************************************************************)
EXTENDS Naturals, FiniteSetsExt

CONSTANTS
    Second,              \* ticks in a second
    Ticks,               \* in a day
    Days,                \* in a week
    EmptyTick,           \* _EMPTY_TICK: a little less than a day
    Schedules,           \* what the panel may store: sets of <<weekday, tick>>
    PunctualPolls,       \* whether a polling feeder takes its queue at once
    MaxTicks, MaxChanges

ASSUME FeedingAssumption ==
    /\ Second \in Nat \ {0} /\ Ticks \in Nat \ {0} /\ Days \in Nat \ {0} /\ EmptyTick \in 1 .. Ticks
    /\ \A s \in Schedules : s \subseteq (0 .. Days - 1) \X (0 .. Ticks - 1)
    /\ PunctualPolls \in BOOLEAN

VARIABLES
    now, feedChanges,
    meals, deferred,     \* config["feed_schedule"]: recurring, one-off
    draft,               \* the one-off feeds an open editor holds, if any
    feedOnMqtt,          \* mqtt_connected
    feedGet, unsent,     \* command_queue: feed_get, and the last list that was not published
    followed,            \* the recurring feeds of the list the feeder was given last
    listed, nextPoll,    \* that list, by the feeder's clock, and when it asks again
    untold,              \* history: that list is not what is stored, or came late
    due,                 \* feeds stored for this moment
    dispensed, served    \* feeds dispensed at this moment; and those whose time is not past

stored == <<meals, deferred>>
feeder == <<followed, listed, nextPoll>>
feedingVars == <<now, feedChanges, stored, draft, feedOnMqtt, feedGet, unsent, feeder, untold, due, dispensed, served>>

NoDraft == [open |-> FALSE, oneOff |-> {}]
Changes == feedChanges < MaxChanges /\ feedChanges' = feedChanges + 1

IsMeal(m, t) == <<(t \div Ticks) % Days, t % Ticks>> \in m

(* A feed is known by its time and its kind, as the id of an entry says.   *)
IsStored(m, d, f) == IF f[2] = "meal" THEN IsMeal(m, f[1]) ELSE f[1] \in d
FeedsIn(m, d, times) == {f \in times \X {"meal", "oneOff"} : IsStored(m, d, f)}
-----------------------------------------------------------------------------
Cutoff(n) == (n \div Ticks + 2) * Ticks

(* int(fire - now): whole seconds.                                         *)
Countdown(t) == (t - now) - ((t - now) % Second)

(* _build_latest: strictly after now, up to the end of tomorrow.  An entry *)
(* is [of] a feed that comes [in] so many ticks.                           *)
LatestFeeds(m, d) == {[of |-> f, in |-> Countdown(f[1])] : f \in FeedsIn(m, d, now + 1 .. Cutoff(now) - 1)}

(* Faulty variant: with nothing listed, asks again in a week.              *)
NextWeek(latest) == IF latest = {} THEN Days * Ticks ELSE Max({e.in : e \in latest})

(* _compute_next_tick: the last countdown.                                 *)
NextTick(latest) == IF latest = {} THEN EmptyTick ELSE Max({e.in : e \in latest})

(* A list as the server sends it.                                          *)
Sent(m, d) == [at |-> now, meals |-> m, latest |-> LatestFeeds(m, d)]

(* The feeder takes a list over, and counts from when it gets it.  It asks *)
(* again no sooner than the next tick, whatever it is told.                *)
Follows(u) ==
    /\ followed' = u.meals
    /\ listed' = {[of |-> e.of, at |-> now + e.in] : e \in u.latest}
    /\ nextPoll' = now + Max({1, NextTick(u.latest)})
Given(m, d) == Follows(Sent(m, d)) /\ untold' = FALSE

FeedingInit ==
    /\ now = 0 /\ feedChanges = 0
    /\ meals \in Schedules /\ deferred = {} /\ draft = NoDraft
    /\ feedOnMqtt \in BOOLEAN /\ feedGet = FALSE /\ unsent = {}
    /\ followed = meals /\ listed = {[of |-> e.of, at |-> now + e.in] : e \in LatestFeeds(meals, {})}
    /\ nextPoll = now + Max({1, NextTick(LatestFeeds(meals, {}))})
    /\ untold = FALSE /\ due = {} /\ dispensed = {} /\ served = {}

(* handle_feed_get.  One-off feeds gone by are pruned.                     *)
FeedsAnswered == Given(meals, deferred) /\ deferred' = {u \in deferred : u > now}

(* dev_feed_get, asked because it is time.                                 *)
Fetches ==
    /\ nextPoll <= now
    /\ FeedsAnswered
    /\ UNCHANGED <<now, feedChanges, meals, draft, feedOnMqtt, feedGet, unsent, due, dispensed, served>>

(* handle_heartbeat hands over the whole queue: feed_get makes the feeder  *)
(* ask, and a list that was not published comes as it was made, countdowns *)
(* from then and all; which of the two is taken over last is the feeder's. *)
TakesFeedQueue ==
    /\ \/ feedGet /\ FeedsAnswered
       \/ \E u \in unsent :
            /\ Follows(u) /\ untold' = (u # Sent(meals, deferred))
            /\ deferred' = IF feedGet THEN {t \in deferred : t > now} ELSE deferred
    /\ feedGet' = FALSE /\ unsent' = {}
    /\ UNCHANGED <<now, feedChanges, meals, draft, feedOnMqtt, due, dispensed, served>>

(* The feeder asks when it was told to, and dispenses what is counted down *)
(* to nothing, once: a feed listed again keeps its id.                     *)
TickPasses ==
    /\ now < MaxTicks /\ nextPoll > now
    /\ PunctualPolls => ~feedGet \/ feedOnMqtt
    /\ now' = now + 1
    /\ LET over == {e \in listed : e.at <= now'}
       IN dispensed' = {e.of : e \in over} \ served /\ listed' = listed \ over
    /\ served' = {f \in served \cup dispensed' : f[1] >= now'}
    /\ due' = FeedsIn(meals, deferred, {now'})
    /\ UNCHANGED <<feedChanges, stored, draft, feedOnMqtt, feedGet, unsent, followed, nextPoll, untold>>
-----------------------------------------------------------------------------
(* A new schedule is stored, feed_get queued, and the new list goes along  *)
(* over MQTT; without a session, or if the publish fails, it is queued too *)
(* (_deliver_locked), and nothing else remembers it.                       *)
Store(m, d) ==
    /\ meals' = m /\ deferred' = d /\ feedGet' = TRUE
    /\ \/ feedOnMqtt /\ Given(m, d) /\ UNCHANGED unsent
       \/ untold' = TRUE /\ unsent' = {Sent(m, d)} /\ UNCHANGED feeder

OpensEditor ==
    /\ Changes /\ draft' = [open |-> TRUE, oneOff |-> deferred]
    /\ UNCHANGED <<now, stored, feedOnMqtt, feedGet, unsent, feeder, untold, due, dispensed, served>>

(* api_save_schedule: the whole object the editor holds, with the one-off  *)
(* feeds there were when it was opened.                                    *)
SavesSchedule ==
    /\ draft.open /\ draft' = NoDraft
    /\ \E m \in Schedules : Store(m, draft.oneOff)
    /\ UNCHANGED <<now, feedChanges, feedOnMqtt, due, dispensed, served>>

(* build_command, for Home Assistant's text control: what was typed.       *)
HomeAssistantSaves ==
    /\ Changes
    /\ \E m \in Schedules : Store(m, {})
    /\ UNCHANGED <<now, draft, feedOnMqtt, due, dispensed, served>>

(* api_deferred_feed, to add and to delete: _push_feed_get queues feed_get *)
(* for the heartbeat, and does nothing else.                               *)
ChangesDeferred ==
    /\ Changes
    /\ \/ \E t \in {u \in now + 1 .. MaxTicks : u % Second = 0} : deferred' = deferred \cup {t}
       \/ \E t \in deferred : deferred' = deferred \ {t}
    /\ feedGet' = TRUE /\ untold' = TRUE
    /\ UNCHANGED <<now, meals, draft, feedOnMqtt, unsent, feeder, due, dispensed, served>>

(* _sync_settings_from_device: what the feeder goes by replaces what is    *)
(* stored, an edit it has not been told of and one-off feeds included.     *)
ReportsSchedule ==
    /\ feedOnMqtt
    /\ meals' = followed /\ deferred' = {} /\ untold' = (untold \/ deferred # {})
    /\ UNCHANGED <<now, feedChanges, draft, feedOnMqtt, feedGet, unsent, feeder, due, dispensed, served>>

ChangesTransport ==
    /\ Changes /\ feedOnMqtt' = ~feedOnMqtt
    /\ UNCHANGED <<now, stored, draft, feedGet, unsent, feeder, untold, due, dispensed, served>>

(* The command queue is not kept over a restart.                           *)
FeedServerRestarts ==
    /\ Changes /\ feedGet' = FALSE /\ unsent' = {} /\ draft' = NoDraft
    /\ UNCHANGED <<now, stored, feedOnMqtt, feeder, untold, due, dispensed, served>>

FeedingNext ==
    \/ Fetches \/ TakesFeedQueue \/ TickPasses \/ OpensEditor \/ SavesSchedule \/ HomeAssistantSaves
    \/ ChangesDeferred \/ ReportsSchedule \/ ChangesTransport \/ FeedServerRestarts

FeedingSpec == FeedingInit /\ [][FeedingNext]_feedingVars
-----------------------------------------------------------------------------
FeedingTypeOK ==
    /\ meals \in Schedules /\ deferred \subseteq 0 .. MaxTicks
    /\ \A e \in listed : e.at >= now
    /\ due \subseteq {now} \X {"meal", "oneOff"}

(* A feeder that goes by a list made of what is stored dispenses exactly   *)
(* that: every feed within the second before its time, and nothing that is *)
(* not stored for the coming second.  Countdowns rounded down, the two     *)
(* days a list covers and the time after which the feeder asks again leave *)
(* no gap however meals fall in the week (_build_latest,                   *)
(* _compute_next_tick).                                                    *)
FedAsStored ==
    [][now' # now /\ ~untold =>
          /\ due' \subseteq served'
          /\ \A f \in dispensed' :
               /\ f[1] \in now' .. now' + Second - 1
               /\ IsStored(meals, deferred, f)]_feedingVars

(* "The device picks this up on its next dev_feed_get poll, which the      *)
(* heartbeat feed_get:1 command triggers immediately":  a one-off feed     *)
(* still stored when its time comes is dispensed (api_deferred_feed).      *)
OneOffDispensed == [][now' # now => {e \in due' : e[2] = "oneOff"} \subseteq served']_feedingVars
=============================================================================

-------------------------------- MODULE Codes --------------------------------
(***************************************************************************)
(* What events/codes.py knows of an event code, as far as the Timeline and *)
(* the derived state use it: its kind, its role, whether it is a detail,   *)
(* and whether it may head a card.  The numeric HTTP codes mean different  *)
(* things per device category; the MQTT names are global.                  *)
(***************************************************************************)
LOCAL INSTANCE TLC

(* One kind of event, for a set of codes.                                  *)
Each(codes, kind, role, detail, anchor) ==
    [c \in codes |-> [kind |-> kind, role |-> role, detail |-> detail, anchor |-> anchor]]

Litter ==
    Each({"1"}, "error", "error_start", FALSE, TRUE)
    @@ Each({"2"}, "error", "error_over", FALSE, FALSE)
    @@ Each({"3"}, "cleaning", "start", TRUE, FALSE)
    @@ Each({"4", "13", "18"}, "cleaning", "step", TRUE, FALSE)
    @@ Each({"5", "6", "7", "8", "11", "21"}, "cleaning", "done", FALSE, FALSE)
    @@ Each({"14", "15", "16"}, "cleaning", "stop", TRUE, FALSE)
    @@ Each({"17"}, "cleaning", "done", TRUE, FALSE)
    @@ Each({"9"}, "toilet_visit", "step", TRUE, FALSE)
    @@ Each({"10"}, "toilet_visit", "visit_summary", FALSE, TRUE)
    @@ Each({"20"}, "pet", "none", FALSE, TRUE)
    @@ Each({"24"}, "pet", "detection", TRUE, FALSE)
    @@ Each({"51", "53"}, "system", "none", TRUE, FALSE)

Feeder ==
    Each({"2", "4"}, "feeding", "done", FALSE, TRUE)
    @@ Each({"3", "5"}, "feeding", "start", TRUE, FALSE)
    @@ Each({"7"}, "motion", "none", FALSE, TRUE)
    @@ Each({"8"}, "pet", "none", FALSE, TRUE)

Fountain ==
    Each({"5"}, "drinking", "start", TRUE, FALSE)
    @@ Each({"6"}, "drinking", "done", FALSE, TRUE)
    @@ Each({"20"}, "pet", "none", FALSE, TRUE)
    @@ Each({"24"}, "pet", "detection", TRUE, FALSE)

Mqtt ==
    Each({"work_start"}, "cleaning", "start", FALSE, FALSE)
    @@ Each({"work_suspend", "work_continue", "stop_start", "stop_suspend", "stop_continue"},
            "cleaning", "stop", TRUE, FALSE)
    @@ Each({"clean_over", "dump_over", "reset_over", "smooth_over", "correct_over",
             "sand_correct_over", "spray_over", "liquid_reset_over", "melt_over", "package_over"},
            "cleaning", "done", FALSE, FALSE)
    @@ Each({"light_over"}, "cleaning", "done", TRUE, FALSE)
    @@ Each({"add_water_over", "flush_over", "water_change_over"}, "cleaning", "done", FALSE, TRUE)
    @@ Each({"pet_in"}, "toilet_visit", "start", TRUE, FALSE)
    @@ Each({"pet_out"}, "toilet_visit", "visit_summary", FALSE, TRUE)
    @@ Each({"pet_discern"}, "pet", "detection", TRUE, FALSE)
    @@ Each({"pet_wander", "pet_detect", "appeared"}, "pet", "none", FALSE, TRUE)
    @@ Each({"wander_over"}, "pet", "none", TRUE, FALSE)
    @@ Each({"feed_start", "eat_start"}, "feeding", "start", TRUE, FALSE)
    @@ Each({"feed_over", "eat_over"}, "feeding", "done", FALSE, TRUE)
    @@ Each({"feed_stop"}, "feeding", "stop", FALSE, FALSE)
    @@ Each({"drink_start"}, "drinking", "start", TRUE, FALSE)
    @@ Each({"drink_over"}, "drinking", "done", FALSE, TRUE)
    @@ Each({"move_detect", "cvr_event"}, "motion", "none", FALSE, TRUE)
    @@ Each({"error_start"}, "error", "error_start", FALSE, TRUE)
    @@ Each({"error_over"}, "error", "error_over", FALSE, FALSE)
    @@ Each({"property", "property_post", "data_get", "ble_response", "ble_relay_start",
             "ble_relay_over"}, "system", "none", TRUE, FALSE)

HttpCodes(category) ==
    CASE category = "feeder" -> Feeder
      [] category = "fountain" -> Fountain
      [] category = "purifier" -> <<>>
      [] OTHER -> Litter

Unknown == [kind |-> "other", role |-> "none", detail |-> FALSE, anchor |-> FALSE]

(* The category's own table first, then the names all categories share.    *)
Lookup(code, category) ==
    CASE code \in DOMAIN HttpCodes(category) -> HttpCodes(category)[code]
      [] code \notin DOMAIN HttpCodes(category) /\ code \in DOMAIN Mqtt -> Mqtt[code]
      [] OTHER -> Unknown

(* Every code in one table; where categories collide the litter box wins.  *)
AllCodes == Litter @@ Fountain @@ Feeder @@ Mqtt

AnchorCodes == {c \in DOMAIN AllCodes : AllCodes[c].anchor}
PrimaryDoneCodes == {c \in DOMAIN AllCodes : AllCodes[c].role = "done" /\ ~AllCodes[c].detail}
VisitSummaryCodes ==
    {c \in DOMAIN AllCodes : AllCodes[c].role = "visit_summary" /\ AllCodes[c].kind = "toilet_visit"}

(* Telemetry and plumbing, never stored as events.                         *)
TransportTopics == {c \in DOMAIN Mqtt : Mqtt[c].kind = "system"}
=============================================================================

------------------------------- MODULE MCHome -------------------------------
(* A device's MQTT session (MqttSession), what Home Assistant is told of   *)
(* it (Publisher), and what its reports are taken to say (Reported), which *)
(* share no state: a run follows one of the three.                         *)
EXTENDS MqttSession, Publisher, Reported

CONSTANTS d1, s1, s2, h1

VARIABLE focus

sessionVars == vars
mcVars == <<sessionVars, publisherVars, reportedVars, focus>>

MCInit ==
    /\ focus \in {"session", "publisher", "reports"}
    /\ Init /\ (focus # "session" => owner = [s \in Sessions |-> d1])
    /\ PublisherInit
    /\ ReportedInit /\ (focus # "reports" => watched = {"plain", "stamp", "litter"})

MCNext ==
    \/ focus = "session"   /\ Next          /\ UNCHANGED <<publisherVars, reportedVars, focus>>
    \/ focus = "publisher" /\ PublisherNext /\ UNCHANGED <<sessionVars, reportedVars, focus>>
    \/ focus = "reports"   /\ ReportedNext  /\ UNCHANGED <<sessionVars, publisherVars, focus>>

MCSpec ==
    /\ MCInit /\ [][MCNext]_mcVars
    /\ focus = "session"   => Fairness
    /\ focus = "publisher" => PublisherFairness
=============================================================================

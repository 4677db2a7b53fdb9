---------------------------- MODULE MCLifecycle ----------------------------
(* Lifecycle (with Upstream) and Sidecar meet only in shutdown, whose one  *)
(* effect on the sidecar is SideCancel: a run follows one of the two.      *)
EXTENDS Lifecycle, Sidecar

CONSTANTS d1, c1, n1, k1, k2, v1

VARIABLE focus

mcVars == <<lifeVars, sideVars, focus>>

MCInit ==
    /\ LifeInit /\ SideInit
    /\ \/ focus = "services" /\ serving = {}
       \/ focus = "camera" /\ ~wanted /\ creds = [d \in Devices |-> NoCreds]
                           /\ topic = [n \in Frames |-> "event"]
MCNext ==
    \/ focus = "services" /\ LifeNext /\ UNCHANGED <<sideVars, focus>>
    \/ focus = "camera"   /\ SideNext /\ UNCHANGED <<lifeVars, focus>>

MCSpec ==
    /\ MCInit /\ [][MCNext]_mcVars
    /\ focus = "services" => LifeFairness
    /\ focus = "camera" => SideFairness

MCTypeOK == LifeTypeOK /\ SideTypeOK
=============================================================================

------------------------------- MODULE MCProxy -------------------------------
(* What passes through the add-on: the requests of a device (Proxy), the   *)
(* cloud's answers (Redact), and what a device relays for an accessory     *)
(* (Accessories).  They meet in no state of the models: a run follows      *)
(* requests, or the accessory, or looks at bodies.                         *)
EXTENDS Proxy, Redact, Accessories

CONSTANTS r1, r2, cmd1, s1, s2, p1, p2, w1

VARIABLE focus

mcVars == <<proxyVars, accessoryVars, redactVars, focus>>

(* Bodies with two marked objects, which may be one.                       *)
SomeBodies ==
    LET Trees == {f \in [Nodes -> 0 .. MaxNodes - 1] : \A n \in Nodes : f[n] < n /\ (n > 1 => f[n] > 0)}
        Kinds == {f \in [Nodes -> {"object", "list", "text"}] : f[1] # "text" /\ f[MaxNodes] # "text"}
        Pair(x, mx, y, my) == [n \in Nodes |-> (IF n = x THEN mx ELSE {}) \cup (IF n = y THEN my ELSE {})]
    IN {b \in [nodes : {Nodes}, parent : Trees, kind : Kinds,
                marks : {Pair(x, mx, y, my) : x \in Nodes, y \in Nodes, mx \in {{}, {"rce"}, {"mqttHost"}},
                            my \in {{"ota"}, {"mqttCreds", "server"}, {"sts", "id", "secret"}}},
                ours : {[n \in Nodes |-> {}]}, result : {0, 2}] : IsBody(b)}

SomePolicies ==
    {[block |-> Rules, realOss |-> FALSE, cvrWindow |-> TRUE],
     [block |-> {"ota"}, realOss |-> TRUE, cvrWindow |-> FALSE]}

MCInit ==
    /\ focus \in {"requests", "bodies", "accessory"}
    /\ ProxyInit /\ cloudSecret = s1 /\ (focus # "requests" => ~proxy)
    /\ AccessoryInit /\ linkWith = p1
    /\ wrote + mishaps + moves = IF focus = "accessory" THEN 2 ELSE 0
    /\ CASE focus = "bodies" -> body \in SomeBodies /\ policy \in SomePolicies
         [] OTHER -> body = Empty /\ policy = CHOOSE q \in SomePolicies : q.realOss

MCNext ==
    \/ focus = "requests" /\ ProxyNext /\ UNCHANGED <<accessoryVars, redactVars, focus>>
    \/ focus = "accessory" /\ AccessoryNext /\ UNCHANGED <<proxyVars, redactVars, focus>>

MCSpec ==
    /\ MCInit /\ [][MCNext]_mcVars
    /\ focus = "requests" => ProxyFairness
    /\ focus = "accessory" => AccessoryFairness
=============================================================================

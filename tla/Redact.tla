-------------------------------- MODULE Redact --------------------------------
(***************************************************************************)
(* What a reply of the real cloud loses before a device sees it            *)
(* (http/redact/).  The rules match the shape of an object, so a walker    *)
(* takes them to every object of a decoded body, those inside a JSON text  *)
(* included.                                                               *)
(*                                                                         *)
(* A body is a tree.  A node is an object, a list, or a text that holds    *)
(* JSON; what the rules look for in an object is a mark: `rce' (a shell    *)
(* command) and `ota' (a firmware image) remove the object, the others are *)
(* fields that get our value in place of the cloud's.  All other content   *)
(* is left out, and so is what lies inside a replaced field.               *)
(***************************************************************************)
EXTENDS Integers, FiniteSets

CONSTANT MaxNodes       \* nodes of a body

\* The empty answer has two nodes.
ASSUME RedactAssumption == MaxNodes \in Nat /\ MaxNodes >= 2

VARIABLES
    body,               \* what the cloud answered
    policy              \* and what the panel is set to

redactVars == <<body, policy>>

Nodes    == 1 .. MaxNodes
Rules    == {"rce", "ota"}                 \* BLOCKING_RULES
Fields   == {"server", "mqttHost", "mqttCreds", "sts", "cvr", "id", "locale"}
Marks    == Rules \cup Fields \cup {"secret"}
Policies == [block : SUBSET Rules, realOss : BOOLEAN, cvrWindow : BOOLEAN]

(* result is the root's child of that name, 0 if it has none.              *)
Bodies ==
    [nodes  : {1 .. k : k \in Nodes},
     parent : [Nodes -> 0 .. MaxNodes],
     kind   : [Nodes -> {"object", "list", "text"}],
     marks  : [Nodes -> SUBSET Marks],
     ours   : [Nodes -> SUBSET Fields],
     result : 0 .. MaxNodes]

(* The bodies there are: children come after their parent, a text holds    *)
(* one document, and only objects have fields.                             *)
IsBody(b) ==
    /\ \A n \in Nodes : IF n \in b.nodes /\ n > 1 THEN b.parent[n] \in b.nodes /\ b.parent[n] < n
                                                  ELSE b.parent[n] = 0
    /\ b.kind[1] # "text"
    /\ \A n \in b.nodes :
          /\ b.kind[n] = "text" =>
                LET inside == {c \in b.nodes : b.parent[c] = n}
                IN Cardinality(inside) = 1 /\ \A c \in inside : b.kind[c] # "text"
          /\ b.kind[n] # "object" => b.marks[n] = {} /\ b.ours[n] = {}
    /\ \A n \in Nodes \ b.nodes : b.kind[n] = "object" /\ b.marks[n] = {} /\ b.ours[n] = {}
    /\ b.result # 0 => b.result \in b.nodes /\ b.parent[b.result] = 1 /\ b.kind[1] = "object"
-----------------------------------------------------------------------------
Inside(b, n) == {c \in b.nodes : c > n /\ b.parent[c] = n}
InList(b, n)   == n > 1 /\ b.kind[b.parent[n]] = "list"

(* Which fields a policy replaces: media uploads are left to PetKit on     *)
(* request, and its recording window is overridden on request.             *)
Replaced(p) ==
    {"server", "mqttHost", "mqttCreds", "id", "locale"}
        \cup (IF p.realOss THEN {} ELSE {"sts"})
        \cup (IF p.cvrWindow THEN {"cvr"} ELSE {})

(* _match_rce and _match_ota_shape.                                        *)
Hostile(b, p, n) == b.marks[n] \cap p.block # {}

(* Faulty variant: a list element that lost a child stays.                 *)
StruckOnlyItself(b, p) ==
    LET lost[n \in Nodes] ==
            CASE b.kind[n] = "object" -> Hostile(b, p, n)
              [] b.kind[n] = "text"   -> \E c \in Inside(b, n) : lost[c]
              [] OTHER                -> FALSE
    IN {n \in b.nodes : lost[n]}

(* _walk: which nodes answer _DROP.  An object does when a rule strikes    *)
(* it, and inside a list also when one of its own children did; a text     *)
(* does when what it holds did; a list only gets shorter.                  *)
Lost(b, p) ==
    LET lost[n \in Nodes] ==
            \/ b.kind[n] = "object" /\ Hostile(b, p, n)
            \/ /\ b.kind[n] = "text" \/ (b.kind[n] = "object" /\ InList(b, n))
               /\ \E c \in Inside(b, n) : lost[c]
    IN lost

Struck(b, p) == {n \in b.nodes : Lost(b, p)[n]}

(* The nodes with nothing of S above them or at them.                      *)
Free(b, S) ==
    LET free[n \in Nodes] == n \notin S /\ (n = 1 \/ (n \in b.nodes /\ free[b.parent[n]]))
    IN free

Outside(b, S) == {n \in b.nodes : Free(b, S)[n]}

(* What has been learned on the way: the walker takes the fields of every  *)
(* object it enters, whether or not the object is kept.                    *)
Captured(b, p) ==
    LET entered == Outside(b, {n \in b.nodes : Hostile(b, p, n)})
    IN (UNION {b.marks[n] : n \in entered}) \cap {"mqttHost", "mqttCreds", "secret", "sts"}

Bare(nodes, result) ==
    [nodes |-> nodes, parent |-> [n \in Nodes |-> IF n = 1 \/ n \notin nodes THEN 0 ELSE 1],
     kind |-> [n \in Nodes |-> "object"], marks |-> [n \in Nodes |-> {}],
     ours |-> [n \in Nodes |-> {}], result |-> result]

(* {"result": {}}                                                          *)
Empty == Bare({1, 2}, 2)

(* redact_body, past its endpoint rules: a body that was lost whole is     *)
(* answered empty, and a `result' that was lost is put back empty.         *)
Redacted(b, p) ==
    LET lost == Struck(b, p)
        back == IF b.result # 0 /\ b.result \in lost THEN {b.result} ELSE {}
        keep == Outside(b, lost) \cup back
    IN IF 1 \in lost THEN Empty
       ELSE [nodes  |-> keep,
             parent |-> [n \in Nodes |-> IF n \in keep THEN b.parent[n] ELSE 0],
             kind   |-> [n \in Nodes |-> IF n \in keep \ back THEN b.kind[n] ELSE "object"],
             marks  |-> [n \in Nodes |-> IF n \in keep \ back THEN b.marks[n] \ Replaced(p) ELSE {}],
             ours   |-> [n \in Nodes |-> IF n \in keep \ back
                                         THEN b.ours[n] \cup (b.marks[n] \cap Replaced(p)) ELSE {}],
             result |-> b.result]
-----------------------------------------------------------------------------
(* Reference: what a struck object takes with it, said from the object     *)
(* upwards.  A node goes with h when it is h or above it, and every node   *)
(* from h's parent up to it is a text or an object in a list.              *)
Ways(b) ==
    LET way[n \in Nodes] == {n} \cup (IF b.parent[n] = 0 THEN {} ELSE way[b.parent[n]])
    IN way

Above(b, n) == Ways(b)[n]

GoesWith(b, n, h) ==
    /\ n \in Above(b, h)
    /\ \A m \in (Above(b, h) \ Above(b, n)) \cup {n} :
          \/ m = h
          \/ b.kind[m] = "text"
          \/ b.kind[m] = "object" /\ InList(b, m)

Gone(b, p) == {n \in b.nodes : \E h \in b.nodes : Hostile(b, p, h) /\ GoesWith(b, n, h)}

(* A redacted body holds no object a rule strikes and no address of the    *)
(* cloud; it lost what went with a struck object and nothing else; fields  *)
(* are replaced in place; an answer keeps its `result'; redacting it again *)
(* changes nothing; and both halves of an identity are learned when both   *)
(* were sent (walker.py, redact_body, _match_mqtt).                        *)
RedactionSound(b, p) ==
    LET r == Redacted(b, p)
        gone == UNION {{m \in b.nodes : n \in Above(b, m)} : n \in Gone(b, p)}
    IN /\ \A n \in r.nodes : r.marks[n] \cap (p.block \cup Replaced(p)) = {}
       /\ IF 1 \in gone THEN r = Empty
          ELSE /\ r.nodes \ {b.result} = (b.nodes \ gone) \ {b.result}
               /\ \A n \in b.nodes \ gone :
                     /\ r.kind[n] = b.kind[n] /\ r.parent[n] = b.parent[n]
                     /\ r.marks[n] \cup r.ours[n] = b.marks[n] \cup b.ours[n]
       /\ b.result # 0 => r.result # 0 /\ r.result \in r.nodes
       /\ Redacted(r, p) = r
       /\ \A f \in {"mqttHost", "mqttCreds"} :
             (\E n \in b.nodes \ gone : f \in b.marks[n]) => f \in Captured(b, p)

(* Bodies are looked at one by one: no reply depends on an earlier one.    *)
RedactInit == body \in Bodies /\ IsBody(body) /\ policy \in Policies
RedactSpec == RedactInit /\ [][FALSE]_redactVars

(* Whatever the cloud answers (redact_body).                               *)
BodiesRedacted == RedactionSound(body, policy)
=============================================================================

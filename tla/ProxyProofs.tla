----------------------------- MODULE ProxyProofs -----------------------------
(***************************************************************************)
(* For any requests in flight at once, any commands and any secrets, and   *)
(* however often the breaker opens, the device gives up or is deleted:     *)
(* AnswersRight, of every answer that goes out.  For bodies of any size    *)
(* and nesting: BodiesRedacted, by induction over the nodes of a body.     *)
(* For any commands to an accessory: ReflectedIsHeld.                      *)
(***************************************************************************)
EXTENDS Proxy, Redact, Accessories, FiniteSetTheorems, WellFoundedInduction, TLAPS

(* A request that waits for DNS, the cloud or the database carries no      *)
(* command: what has taken commands off the queue is answered at once.     *)
Carries(c) == {r \in Requests : c \in req[r].cmds}
Whole(q) == q = [pc |-> q.pc, ep |-> q.ep, proxied |-> q.proxied, signed |-> q.signed,
                 of |-> q.of, own |-> q.own, cmds |-> q.cmds, via |-> q.via,
                 reply |-> q.reply, usable |-> q.usable]
EmptyHanded ==
    /\ DOMAIN req = Requests
    /\ \A r \in Requests : Whole(req[r]) /\ req[r].cmds = {}

(* A command is queued, or deleted with the device, or was in one answer.  *)
InQueue(c) == c \in queue /\ c \notin dropped /\ served[c] = 0
InAnswer(c) == c \notin queue /\ c \notin dropped /\ served[c] = 1
InBin(c) == c \notin queue /\ c \in dropped /\ served[c] = 0
Accounted ==
    /\ issued \subseteq Commands /\ queue \cup dropped \subseteq issued
    /\ \A c \in Commands : IF c \in issued THEN InQueue(c) \/ InAnswer(c) \/ InBin(c)
                                           ELSE served[c] = 0

IInv == EmptyHanded /\ Accounted /\ shown = {}

LEMMA IdleHands == Idle.cmds = {} /\ Idle.pc = "idle"
BY DEF Idle

LEMMA InvInit == ProxyInit => IInv
<1> SUFFICES ASSUME ProxyInit PROVE IInv
  OBVIOUS
<1>1. EmptyHanded
  BY DEF ProxyInit, EmptyHanded, Whole, Idle
<1>2. Accounted /\ shown = {}
  BY DEF ProxyInit, Accounted
<1>3. QED BY <1>1, <1>2 DEF IInv

(* The request table changes in one place.                                 *)
LEMMA ReqSet ==
    ASSUME EmptyHanded, NEW r \in Requests, NEW q,
           q.cmds = {}, Whole(q), req' = [req EXCEPT ![r] = q]
    PROVE  EmptyHanded'
<1>1. DOMAIN req' = Requests /\ req'[r] = q /\ \A s \in Requests \ {r} : req'[s] = req[s]
  BY DEF EmptyHanded
<1>2. \A s \in Requests : Whole(req'[s]) /\ req'[s].cmds = {}
  BY <1>1 DEF EmptyHanded, Whole
<1>3. QED BY <1>1, <1>2 DEF EmptyHanded

LEMMA ReqIdle ==
    ASSUME EmptyHanded, NEW r \in Requests, req' = [req EXCEPT ![r] = Idle]
    PROVE  EmptyHanded'
BY ReqSet DEF Idle, Whole

(* What an answer with no commands changes, and one with the whole queue.  *)
LEMMA ServeStep ==
    ASSUME IInv, NEW r \in Requests, NEW from, NEW sec, NEW cmds,
           from = "cloud" => req[r].ep # "accessories", Serve(r, from, sec, cmds, TRUE)
    PROVE  EmptyHanded' /\ shown' = {}
<1>1. EmptyHanded'
  BY ReqIdle DEF Serve, IInv
<1>2. shown' = {}
  BY DEF Serve, IInv
<1>3. QED BY <1>1, <1>2 DEF Serve

LEMMA AccountedKept ==
    ASSUME Accounted, UNCHANGED <<queue, issued, dropped>>,
           \/ served' = served
           \/ served' = [c \in Commands |-> served[c]]
    PROVE  Accounted'
BY DEF Accounted, InQueue, InAnswer, InBin

(* An answer that carries no command.                                      *)
LEMMA PlainAnswer ==
    ASSUME IInv, NEW r \in Requests, NEW from, NEW sec,
           from = "cloud" => req[r].ep # "accessories", Serve(r, from, sec, {}, TRUE),
           UNCHANGED <<queue, issued, dropped>>
    PROVE  IInv'
<1>1. EmptyHanded' /\ shown' = {} /\ served' = [c \in Commands |-> served[c]]
  <2>1. served' = [c \in Commands |-> IF c \in {} THEN served[c] + 1 ELSE served[c]]
    BY DEF Serve
  <2>2. QED BY <2>1, ServeStep
<1>2. QED BY <1>1, AccountedKept DEF IInv

LEMMA LocalAnswer ==
    ASSUME IInv, NEW r \in Requests, ServeLocal(r), UNCHANGED <<queue, issued, dropped>>
    PROVE  IInv'
<1>1. Serve(r, "local", req[r].own, {}, TRUE)
  BY DEF ServeLocal, IInv, EmptyHanded
<1>2. QED BY <1>1, PlainAnswer

LEMMA ReplyAnswer ==
    ASSUME IInv, NEW r \in Requests, NEW sec, NEW usable, ServeReply(r, sec, usable),
           UNCHANGED <<queue, issued, dropped>>
    PROVE  IInv'
<1>1. CASE req[r].ep = "accessories" \/ ~usable
  BY <1>1, LocalAnswer DEF ServeReply
<1>2. CASE ~(req[r].ep = "accessories" \/ ~usable)
  <2>1. Serve(r, "cloud", sec, {}, TRUE)
    BY <1>2 DEF ServeReply, Serve
  <2>2. QED BY <1>2, <2>1, PlainAnswer
<1>3. QED BY <1>1, <1>2

(* The fields of a request are replaced as it goes on.                     *)
LEMMA MovedOn ==
    ASSUME NEW old, Whole(old), old.cmds = {}, NEW q, NEW pc, NEW a, NEW b
    PROVE  /\ q = [old EXCEPT !.pc = pc, !.own = a, !.cmds = {}, !.of = b]
                 => Whole(q) /\ q.cmds = {}
           /\ q = [old EXCEPT !.pc = pc, !.of = a, !.own = b] => Whole(q) /\ q.cmds = {}
           /\ q = [old EXCEPT !.pc = pc, !.via = a] => Whole(q) /\ q.cmds = {}
           /\ q = [old EXCEPT !.pc = pc, !.reply = a, !.usable = b] => Whole(q) /\ q.cmds = {}
<1>1. ASSUME q = [old EXCEPT !.pc = pc, !.own = a, !.cmds = {}, !.of = b] PROVE Whole(q) /\ q.cmds = {}
  BY <1>1 DEF Whole
<1>2. ASSUME q = [old EXCEPT !.pc = pc, !.of = a, !.own = b] PROVE Whole(q) /\ q.cmds = {}
  BY <1>2 DEF Whole
<1>3. ASSUME q = [old EXCEPT !.pc = pc, !.via = a] PROVE Whole(q) /\ q.cmds = {}
  BY <1>3 DEF Whole
<1>4. ASSUME q = [old EXCEPT !.pc = pc, !.reply = a, !.usable = b] PROVE Whole(q) /\ q.cmds = {}
  BY <1>4 DEF Whole
<1>5. QED BY <1>1, <1>2, <1>3, <1>4

(* A request goes on to its next await with what it has.                   *)
LEMMA GoesOn ==
    ASSUME IInv, NEW r \in Requests, EmptyHanded',
           UNCHANGED <<queue, issued, dropped, served, shown>>
    PROVE  IInv'
BY AccountedKept DEF IInv

LEMMA HandledEmpty ==
    ASSUME IInv, NEW r \in Requests, NEW own, Handled(r, own, {}), UNCHANGED <<queue, issued, dropped>>
    PROVE  IInv'
<1>1. CASE Withheld(r, {})
  BY <1>1, PlainAnswer DEF Handled
<1>2. CASE ~Withheld(r, {})
  <2>1. req' = [req EXCEPT ![r].pc = "dns", ![r].own = own, ![r].cmds = {}, ![r].of = gen]
    BY <1>2 DEF Handled
  <2>2. EmptyHanded'
    BY <2>1, ReqSet, MovedOn DEF IInv, EmptyHanded
  <2>3. QED BY <1>2, <2>2, GoesOn DEF Handled
<1>3. QED BY <1>1, <1>2

LEMMA Fresh ==
    ASSUME NEW q, NEW ep, NEW a, NEW b,
           q = [Idle EXCEPT !.pc = "arrived", !.ep = ep, !.proxied = a, !.signed = b]
    PROVE  Whole(q) /\ q.cmds = {}
BY DEF Whole, Idle

LEMMA ArriveStep == ASSUME IInv, NEW r \in Requests, NEW ep, Arrive(r, ep) PROVE IInv'
<1> DEFINE q == [Idle EXCEPT !.pc = "arrived", !.ep = ep, !.proxied = proxy, !.signed = signs]
<1>1. req' = [req EXCEPT ![r] = q] /\ UNCHANGED <<queue, issued, dropped, served, shown>>
  BY DEF Arrive, deviceVars
<1>2. Whole(q) /\ q.cmds = {}
  BY Fresh
<1> HIDE DEF q
<1>3. EmptyHanded'
  BY <1>1, <1>2, ReqSet DEF IInv
<1>4. QED BY <1>1, <1>3, GoesOn

LEMMA SignsUpStep == ASSUME IInv, NEW r \in Requests, SignsUp(r) PROVE IInv'
<1>1. /\ req' = [req EXCEPT ![r].pc = "signup", ![r].of = gen', ![r].own = secret']
      /\ UNCHANGED <<queue, issued, dropped, served, shown>>
  BY DEF SignsUp
<1>2. EmptyHanded'
  BY <1>1, ReqSet, MovedOn DEF IInv, EmptyHanded
<1>3. QED BY <1>1, <1>2, GoesOn

LEMMA SignedUpStep == ASSUME IInv, NEW r \in Requests, SignedUp(r) PROVE IInv'
<1>1. UNCHANGED <<queue, issued, dropped>>
  BY DEF SignedUp, deviceVars
<1>2. QED BY <1>1, HandledEmpty DEF SignedUp

(* A heartbeat takes the whole queue, and is answered with it at once.     *)
LEMMA RunsHandlerStep == ASSUME IInv, NEW r \in Requests, RunsHandler(r) PROVE IInv'
<1>1. UNCHANGED <<issued, dropped>>
  BY DEF RunsHandler
<1>2. CASE req[r].ep = "heartbeat" /\ enrolled /\ queue # {}
  <2>1. Handled(r, NoSecret, queue) /\ queue' = {}
    BY <1>2 DEF RunsHandler
  <2>2. Withheld(r, queue)
    BY <1>2 DEF Withheld
  <2>3. Serve(r, "local", NoSecret, queue, TRUE)
    BY <2>1, <2>2 DEF Handled
  <2>4. /\ EmptyHanded' /\ shown' = {}
        /\ served' = [c \in Commands |-> IF c \in queue THEN served[c] + 1 ELSE served[c]]
    BY <2>3, ServeStep DEF Serve
  <2>5. Accounted'
    BY <1>1, <2>1, <2>4 DEF IInv, Accounted, InQueue, InAnswer, InBin
  <2>6. QED BY <2>4, <2>5 DEF IInv
<1>3. CASE req[r].ep = "heartbeat" /\ enrolled /\ queue = {}
  BY <1>1, <1>3, HandledEmpty DEF RunsHandler
<1>4. CASE ~(req[r].ep = "heartbeat" /\ enrolled)
  BY <1>1, <1>4, HandledEmpty DEF RunsHandler
<1>5. QED BY <1>2, <1>3, <1>4

LEMMA ForwardsStep == ASSUME IInv, NEW r \in Requests, Forwards(r) PROVE IInv'
<1>1. UNCHANGED <<queue, issued, dropped>>
  BY DEF Forwards, deviceVars
<1>2. CASE paused
  BY <1>1, <1>2, LocalAnswer DEF Forwards
<1>3. CASE ~paused
  <2>1. /\ req' = [req EXCEPT ![r].pc = "sent", ![r].via = session']
        /\ UNCHANGED <<served, shown>>
    BY <1>3 DEF Forwards
  <2>2. EmptyHanded'
    BY <2>1, ReqSet, MovedOn DEF IInv, EmptyHanded
  <2>3. QED BY <1>1, <2>1, <2>2, GoesOn
<1>4. QED BY <1>2, <1>3

LEMMA ReplyStep ==
    ASSUME IInv, NEW r \in Requests, NEW usable, NEW struck, Reply(r, usable, struck)
    PROVE  IInv'
<1> DEFINE fit == usable /\ (req[r].ep = "signup" \/ req[r].signed = cloudSecret)
           sec == IF fit /\ req[r].ep \in {"signup", "info"} THEN cloudSecret ELSE NoSecret
<1>1. CASE struck
  <2>1. /\ req' = [req EXCEPT ![r].pc = "storing", ![r].reply = sec, ![r].usable = fit]
        /\ UNCHANGED <<queue, issued, dropped, served, shown>>
    BY <1>1 DEF Reply, deviceVars
  <2> HIDE DEF sec, fit
  <2>2. EmptyHanded'
    BY <2>1, ReqSet, MovedOn DEF IInv, EmptyHanded
  <2>3. QED BY <2>1, <2>2, GoesOn
<1>2. CASE ~struck
  <2>1. Adopts(r, sec) /\ ServeReply(r, sec, fit)
    BY <1>2 DEF Reply
  <2> HIDE DEF sec, fit
  <2>2. UNCHANGED <<queue, issued, dropped>>
    BY <2>1 DEF Adopts
  <2>3. QED BY <2>1, <2>2, ReplyAnswer
<1>3. QED BY <1>1, <1>2

LEMMA StoredStep ==
    ASSUME IInv, NEW r \in Requests, Stored(r) \/ StoreFails(r)
    PROVE  IInv'
<1>1. UNCHANGED <<queue, issued, dropped>>
  BY DEF Stored, StoreFails, Adopts, deviceVars
<1>2. ServeReply(r, req[r].reply, req[r].usable)
  BY DEF Stored, StoreFails
<1>3. QED BY <1>1, <1>2, ReplyAnswer

LEMMA QuietAnswers ==
    ASSUME IInv, NEW r \in Requests, LoopsBack(r) \/ NoReply(r)
    PROVE  IInv'
<1>1. ServeLocal(r) /\ UNCHANGED <<queue, issued, dropped>>
  BY DEF LoopsBack, NoReply, deviceVars
<1>2. QED BY <1>1, LocalAnswer

(* Only the device's removal drops what is queued, and it is counted.      *)
LEMMA UnregisteredStep == ASSUME IInv, Unregistered PROVE IInv'
<1>1. /\ queue' = {} /\ dropped' = dropped \cup queue
      /\ UNCHANGED <<issued, req, served, shown>>
  BY DEF Unregistered, answerVars
<1>2. QED BY <1>1 DEF IInv, EmptyHanded, Accounted, InQueue, InAnswer, InBin

LEMMA QueueStep == ASSUME IInv, NEW c \in Commands, QueueCommand(c) PROVE IInv'
<1>1. /\ c \notin issued /\ queue' = queue \cup {c} /\ issued' = issued \cup {c}
      /\ UNCHANGED <<dropped, req, served, shown>>
  BY DEF QueueCommand, answerVars
<1>2. EmptyHanded' /\ shown' = {}
  BY <1>1 DEF IInv, EmptyHanded
<1>3. Accounted'
  BY <1>1 DEF IInv, Accounted, InQueue, InAnswer, InBin
<1>4. QED BY <1>2, <1>3 DEF IInv

LEMMA InvNext == ASSUME IInv, [ProxyNext]_proxyVars PROVE IInv'
<1>1. CASE UNCHANGED <<req, queue, issued, dropped, served, shown>>
  BY <1>1 DEF IInv, EmptyHanded, Accounted, InQueue, InAnswer, InBin
<1>2. CASE BreakerExpires \/ GiveUp \/ Setting \/ CloudChanges \/ UNCHANGED proxyVars
  BY <1>1, <1>2 DEF BreakerExpires, GiveUp, Setting, CloudChanges, proxyVars, deviceVars, answerVars
<1>3. CASE \E r \in Requests : RequestStep(r) \/ \E ep \in Endpoints : Arrive(r, ep)
  BY <1>3, ArriveStep, SignsUpStep, SignedUpStep, RunsHandlerStep, ForwardsStep, ReplyStep,
     StoredStep, QuietAnswers DEF RequestStep
<1>4. QED BY <1>2, <1>3, UnregisteredStep, QueueStep DEF ProxyNext

(* A command is in one place: still queued, in one answer, or deleted with *)
(* its device; and no device is shown a refusal or the cloud's list of     *)
(* accessories.  However requests overlap: a request that outlives the one *)
(* the device waits for is answered too (proxy_middleware,                 *)
(* carries_commands).                                                      *)
THEOREM EveryAnswerRight == ProxySpec => []AnswersRight
<1>1. IInv => AnswersRight
  <2> SUFFICES ASSUME IInv PROVE AnswersRight
    OBVIOUS
  <2>1. ASSUME NEW c \in issued PROVE
           LET inFlight == Cardinality({r \in Requests : c \in req[r].cmds})
           IN (IF c \in queue THEN 1 ELSE 0) + (IF c \in dropped THEN 1 ELSE 0)
                 + served[c] + inFlight = 1
    <3>1. {r \in Requests : c \in req[r].cmds} = {}
      BY DEF IInv, EmptyHanded
    <3>2. Cardinality({r \in Requests : c \in req[r].cmds}) = 0
      BY <3>1, FS_EmptySet
    <3>3. InQueue(c) \/ InAnswer(c) \/ InBin(c)
      BY DEF IInv, Accounted
    <3>4. QED BY <3>2, <3>3 DEF InQueue, InAnswer, InBin
  <2>2. QED BY <2>1 DEF IInv, AnswersRight, CommandsServed, AnswersFit
<1>2. QED BY <1>1, InvInit, InvNext, PTL DEF ProxySpec
-----------------------------------------------------------------------------
(* A set of numbers that is not empty has a least one.                     *)
LEMMA LeastOf ==
    ASSUME NEW T, T \subseteq Nat, T # {}
    PROVE  \E t \in T : \A y \in T : t <= y
<1> DEFINE R == {ss \in Nat \X Nat : ss[1] < ss[2]}
<1>1. IsWellFoundedOn(R, Nat)
  BY NatLessThanWellFounded DEF OpToRel
<1>2. \A a, b \in Nat : a < b => <<a, b>> \in R
  OBVIOUS
<1> HIDE DEF R
<1>3. PICK t \in T : \A y \in T : ~(<<y, t>> \in R)
  BY <1>1, WFMin
<1>4. \A y \in T : ~(y < t)
  BY <1>2, <1>3
<1>5. QED BY <1>4

(* What is true of a node when it is true of all that rank below it is     *)
(* true of every node.                                                     *)
LEMMA ByRank ==
    ASSUME NEW rank \in [Nodes -> 0 .. MaxNodes], NEW T, T \subseteq Nodes,
           \A n \in T : \E m \in T : rank[m] < rank[n]
    PROVE  T = {}
<1> SUFFICES ASSUME T # {} PROVE FALSE
  OBVIOUS
<1> DEFINE K == {rank[n] : n \in T}
<1>1. K \subseteq Nat /\ K # {}
  OBVIOUS
<1>2. PICK k \in K : \A y \in K : k <= y
  BY <1>1, LeastOf
<1>3. PICK n \in T : k = rank[n]
  OBVIOUS
<1>4. PICK m \in T : rank[m] < rank[n]
  OBVIOUS
<1>5. rank[m] \in K
  BY <1>4
<1>6. k <= rank[m] /\ rank[m] \in Nat /\ rank[n] \in Nat
  BY <1>2, <1>5
<1>7. QED BY <1>3, <1>4, <1>6

Rising == [n \in Nodes |-> n]
Falling == [n \in Nodes |-> MaxNodes - n]

LEMMA Ranks ==
    /\ Nodes \subseteq Nat /\ 1 \in Nodes /\ 2 \in Nodes
    /\ Rising \in [Nodes -> 0 .. MaxNodes] /\ Falling \in [Nodes -> 0 .. MaxNodes]
    /\ \A m, n \in Nodes : /\ m < n => Rising[m] < Rising[n]
                           /\ n < m => Falling[m] < Falling[n]
BY RedactAssumption DEF Nodes, Rising, Falling

(* A recursion over the nodes: G says what a function is, given itself;    *)
(* if it looks only at nodes that rank below, there is such a function.    *)
LEMMA RecursionThere ==
    ASSUME NEW V, NEW rank \in [Nodes -> 0 .. MaxNodes], NEW G \in [[Nodes -> V] -> [Nodes -> V]], V # {},
           \A f, g \in [Nodes -> V] : \A n \in Nodes :
              (\A m \in Nodes : rank[m] < rank[n] => f[m] = g[m]) => G[f][n] = G[g][n]
    PROVE  \E f \in [Nodes -> V] : f = G[f]
<1> DEFINE Good(k) == \E f \in [Nodes -> V] : \A n \in Nodes : rank[n] < k => f[n] = G[f][n]
           T == {k \in Nat : ~Good(k)}
<1>1. ASSUME T # {} PROVE FALSE
  <2>1. PICK k \in T : \A y \in T : k <= y
    BY <1>1, LeastOf
  <2>2. k \in Nat /\ ~Good(k)
    OBVIOUS
  <2>3. k # 0
    <3>1. PICK v : v \in V
      OBVIOUS
    <3>2. [n \in Nodes |-> v] \in [Nodes -> V] /\ \A n \in Nodes : ~(rank[n] < 0)
      BY <3>1
    <3>3. Good(0)
      BY <3>2
    <3>4. QED BY <2>2, <3>3
  <2>4. k - 1 \in Nat /\ ~(k <= k - 1)
    BY <2>2, <2>3
  <2> HIDE DEF Good
  <2>5. Good(k - 1)
    BY <2>1, <2>4
  <2>6. PICK f \in [Nodes -> V] : \A n \in Nodes : rank[n] < k - 1 => f[n] = G[f][n]
    BY <2>5 DEF Good
  <2> DEFINE h == [n \in Nodes |-> IF rank[n] = k - 1 THEN G[f][n] ELSE f[n]]
  <2>7. h \in [Nodes -> V]
    <3>1. G[f] \in [Nodes -> V]
      OBVIOUS
    <3>2. QED BY <3>1
  <2>8. ASSUME NEW n \in Nodes, rank[n] < k PROVE h[n] = G[h][n]
    <3>1. rank[n] \in Nat
      OBVIOUS
    <3>2. ASSUME NEW m \in Nodes, rank[m] < rank[n] PROVE f[m] = h[m]
      <4>1. rank[m] \in Nat /\ rank[m] # k - 1
        BY <2>2, <2>8, <3>1, <3>2
      <4>2. QED BY <4>1
    <3> HIDE DEF h
    <3>3. G[f][n] = G[h][n]
      BY <2>7, <3>2
    <3>4. h[n] = G[f][n]
      <4>1. CASE rank[n] = k - 1
        BY <4>1 DEF h
      <4>2. CASE rank[n] # k - 1
        <5>1. \A j \in Nat : j < k /\ j # k - 1 => j < k - 1
          BY <2>2
        <5>2. rank[n] < k - 1
          BY <2>8, <3>1, <4>2, <5>1
        <5>3. QED BY <2>6, <4>2, <5>2 DEF h
      <4>3. QED BY <4>1, <4>2
    <3>5. QED BY <3>3, <3>4
  <2> HIDE DEF h
  <2>9. Good(k)
    BY <2>7, <2>8 DEF Good
  <2>10. QED BY <2>2, <2>9
<1>2. MaxNodes + 1 \in Nat
  BY RedactAssumption
<1> HIDE DEF Good
<1>3. Good(MaxNodes + 1)
  BY <1>1, <1>2
<1>4. PICK f \in [Nodes -> V] : \A n \in Nodes : rank[n] < MaxNodes + 1 => f[n] = G[f][n]
  BY <1>3 DEF Good
<1>5. \A n \in Nodes : rank[n] < MaxNodes + 1
  <2>1. \A n \in Nodes : rank[n] \in 0 .. MaxNodes
    OBVIOUS
  <2>2. QED BY <2>1, RedactAssumption
<1>6. G[f] \in [Nodes -> V]
  OBVIOUS
<1>7. f = G[f]
  BY <1>4, <1>5, <1>6
<1>8. QED BY <1>7

(* The bodies that the walker meets or leaves behind.                      *)
Tree(b) ==
    /\ b \in [nodes : SUBSET Nodes, parent : [Nodes -> 0 .. MaxNodes],
              kind : [Nodes -> {"object", "list", "text"}], marks : [Nodes -> SUBSET Marks],
              ours : [Nodes -> SUBSET Fields], result : 0 .. MaxNodes]
    /\ 1 \in b.nodes
    /\ \A n \in Nodes : IF n \in b.nodes /\ n > 1 THEN b.parent[n] \in b.nodes /\ b.parent[n] < n
                                                  ELSE b.parent[n] = 0
    /\ \A n \in Nodes : n \notin b.nodes \/ b.kind[n] # "object" => b.marks[n] = {} /\ b.ours[n] = {}
    /\ \A n \in Nodes \ b.nodes : b.kind[n] = "object"
    /\ b.result # 0 => b.result \in b.nodes /\ b.parent[b.result] = 1 /\ b.kind[1] = "object"

LEMMA BodyIsTree == ASSUME NEW b \in Bodies, IsBody(b) PROVE Tree(b)
<1>1. PICK k \in Nodes : b.nodes = 1 .. k
  BY DEF Bodies
<1>2. b.nodes \subseteq Nodes /\ 1 \in b.nodes
  BY <1>1, RedactAssumption DEF Nodes
<1>3. b \in [nodes : SUBSET Nodes, parent : [Nodes -> 0 .. MaxNodes],
             kind : [Nodes -> {"object", "list", "text"}], marks : [Nodes -> SUBSET Marks],
             ours : [Nodes -> SUBSET Fields], result : 0 .. MaxNodes]
  BY <1>2 DEF Bodies
<1>4. QED BY <1>2, <1>3 DEF Tree, IsBody

(* What the three walks compute.                                           *)
LEMMA LostSays ==
    ASSUME NEW b, NEW p, Tree(b)
    PROVE  /\ Lost(b, p) \in [Nodes -> BOOLEAN]
           /\ \A n \in Nodes : Lost(b, p)[n] <=>
                 \/ b.kind[n] = "object" /\ Hostile(b, p, n)
                 \/ /\ b.kind[n] = "text" \/ (b.kind[n] = "object" /\ InList(b, n))
                    /\ \E c \in Inside(b, n) : Lost(b, p)[c]
<1> DEFINE Says(f, n) == \/ b.kind[n] = "object" /\ Hostile(b, p, n)
                         \/ /\ b.kind[n] = "text" \/ (b.kind[n] = "object" /\ InList(b, n))
                            /\ \E c \in Inside(b, n) : f[c]
           G == [f \in [Nodes -> BOOLEAN] |-> [n \in Nodes |-> Says(f, n)]]
<1>1. \A n \in Nodes : \A c \in Inside(b, n) : c \in Nodes /\ n < c
  BY Ranks DEF Inside, Tree
<1>2. ASSUME NEW f \in [Nodes -> BOOLEAN], NEW g \in [Nodes -> BOOLEAN], NEW n \in Nodes,
             \A m \in Nodes : Falling[m] < Falling[n] => f[m] = g[m]
      PROVE  Says(f, n) <=> Says(g, n)
  <2>1. \A c \in Inside(b, n) : f[c] = g[c]
    BY <1>1, <1>2, Ranks
  <2>2. QED BY <2>1
<1> HIDE DEF Says
<1>3. G \in [[Nodes -> BOOLEAN] -> [Nodes -> BOOLEAN]]
  <2>1. \A f, n : Says(f, n) \in BOOLEAN
    BY DEF Says
  <2>2. QED BY <2>1
<1>4. \A f, g \in [Nodes -> BOOLEAN] : \A n \in Nodes :
         (\A m \in Nodes : Falling[m] < Falling[n] => f[m] = g[m]) => G[f][n] = G[g][n]
  <2> SUFFICES ASSUME NEW f \in [Nodes -> BOOLEAN], NEW g \in [Nodes -> BOOLEAN], NEW n \in Nodes,
                      \A m \in Nodes : Falling[m] < Falling[n] => f[m] = g[m]
               PROVE  G[f][n] = G[g][n]
    BY Zenon
  <2>1. G[f][n] = Says(f, n) /\ G[g][n] = Says(g, n)
    OBVIOUS
  <2>2. Says(f, n) <=> Says(g, n)
    BY <1>2
  <2>3. Says(f, n) \in BOOLEAN /\ Says(g, n) \in BOOLEAN
    BY DEF Says
  <2>4. QED BY <2>1, <2>2, <2>3

<1>5. PICK f \in [Nodes -> BOOLEAN] : f = G[f]
  <2> HIDE DEF G
  <2>1. BOOLEAN # {}
    OBVIOUS
  <2>2. QED BY <1>3, <1>4, <2>1, Ranks, RecursionThere
<1>6. f = [n \in Nodes |-> Says(f, n)]
  BY <1>5
<1>7. Lost(b, p) = CHOOSE g : g = [n \in Nodes |-> Says(g, n)]
  BY DEF Lost, Says
<1>8. Lost(b, p) = [n \in Nodes |-> Says(Lost(b, p), n)]
  BY <1>6, <1>7
<1>9. \A n : Says(Lost(b, p), n) \in BOOLEAN
  BY DEF Says
<1>10. \A n \in Nodes : Lost(b, p)[n] = Says(Lost(b, p), n)
  BY <1>8
<1>11. Lost(b, p) \in [Nodes -> BOOLEAN]
  BY <1>8, <1>9
<1>12. QED BY <1>10, <1>11 DEF Says
LEMMA FreeSays ==
    ASSUME NEW b, NEW S, Tree(b)
    PROVE  /\ Free(b, S) \in [Nodes -> BOOLEAN]
           /\ \A n \in Nodes : Free(b, S)[n] <=> n \notin S /\ (n = 1 \/ (n \in b.nodes /\ Free(b, S)[b.parent[n]]))
<1> DEFINE Says(f, n) == n \notin S /\ (n = 1 \/ (n \in b.nodes /\ f[b.parent[n]]))
           G == [f \in [Nodes -> BOOLEAN] |-> [n \in Nodes |-> Says(f, n)]]
<1>1. \A n \in Nodes : n # 1 /\ n \in b.nodes => b.parent[n] \in Nodes /\ b.parent[n] < n
  BY Ranks DEF Tree, Nodes
<1>2. ASSUME NEW f \in [Nodes -> BOOLEAN], NEW g \in [Nodes -> BOOLEAN], NEW n \in Nodes,
             \A m \in Nodes : Rising[m] < Rising[n] => f[m] = g[m]
      PROVE  Says(f, n) <=> Says(g, n)
  <2>1. n # 1 /\ n \in b.nodes => f[b.parent[n]] = g[b.parent[n]]
    BY <1>1, <1>2, Ranks
  <2>2. QED BY <2>1
<1> HIDE DEF Says
<1>3. G \in [[Nodes -> BOOLEAN] -> [Nodes -> BOOLEAN]]
  <2>1. \A f, n : Says(f, n) \in BOOLEAN
    BY DEF Says
  <2>2. QED BY <2>1
<1>4. \A f, g \in [Nodes -> BOOLEAN] : \A n \in Nodes :
         (\A m \in Nodes : Rising[m] < Rising[n] => f[m] = g[m]) => G[f][n] = G[g][n]
  <2> SUFFICES ASSUME NEW f \in [Nodes -> BOOLEAN], NEW g \in [Nodes -> BOOLEAN], NEW n \in Nodes,
                      \A m \in Nodes : Rising[m] < Rising[n] => f[m] = g[m]
               PROVE  G[f][n] = G[g][n]
    BY Zenon
  <2>1. G[f][n] = Says(f, n) /\ G[g][n] = Says(g, n)
    OBVIOUS
  <2>2. Says(f, n) <=> Says(g, n)
    BY <1>2
  <2>3. Says(f, n) \in BOOLEAN /\ Says(g, n) \in BOOLEAN
    BY DEF Says
  <2>4. QED BY <2>1, <2>2, <2>3
<1>5. PICK f \in [Nodes -> BOOLEAN] : f = G[f]
  <2> HIDE DEF G
  <2>1. BOOLEAN # {}
    OBVIOUS
  <2>2. QED BY <1>3, <1>4, <2>1, Ranks, RecursionThere
<1>6. f = [n \in Nodes |-> Says(f, n)]
  BY <1>5
<1>7. Free(b, S) = CHOOSE g : g = [n \in Nodes |-> Says(g, n)]
  BY DEF Free, Says
<1>8. Free(b, S) = [n \in Nodes |-> Says(Free(b, S), n)]
  BY <1>6, <1>7
<1>9. \A n : Says(Free(b, S), n) \in BOOLEAN
  BY DEF Says
<1>10. \A n \in Nodes : Free(b, S)[n] = Says(Free(b, S), n)
  BY <1>8
<1>11. Free(b, S) \in [Nodes -> BOOLEAN]
  BY <1>8, <1>9
<1>12. QED BY <1>10, <1>11 DEF Says

LEMMA WaysSay ==
    ASSUME NEW b, Tree(b)
    PROVE  \A n \in Nodes : /\ Above(b, n) \in SUBSET Nodes
                            /\ Above(b, n) = {n} \cup (IF b.parent[n] = 0 THEN {} ELSE Above(b, b.parent[n]))
<1> DEFINE Says(f, n) == {n} \cup (IF b.parent[n] = 0 THEN {} ELSE f[b.parent[n]])
           G == [f \in [Nodes -> SUBSET Nodes] |-> [n \in Nodes |-> Says(f, n)]]
<1>1. \A n \in Nodes : b.parent[n] # 0 => b.parent[n] \in Nodes /\ b.parent[n] < n
  BY Ranks DEF Tree, Nodes
<1>2. ASSUME NEW f \in [Nodes -> SUBSET Nodes], NEW n \in Nodes PROVE Says(f, n) \in SUBSET Nodes
  BY <1>1
<1>3. ASSUME NEW f \in [Nodes -> SUBSET Nodes], NEW g \in [Nodes -> SUBSET Nodes], NEW n \in Nodes,
             \A m \in Nodes : Rising[m] < Rising[n] => f[m] = g[m]
      PROVE  Says(f, n) = Says(g, n)
  <2>1. b.parent[n] # 0 => f[b.parent[n]] = g[b.parent[n]]
    BY <1>1, <1>3, Ranks
  <2>2. QED BY <2>1
<1> HIDE DEF Says
<1>4. G \in [[Nodes -> SUBSET Nodes] -> [Nodes -> SUBSET Nodes]]
  BY <1>2
<1>5. \A f, g \in [Nodes -> SUBSET Nodes] : \A n \in Nodes :
         (\A m \in Nodes : Rising[m] < Rising[n] => f[m] = g[m]) => G[f][n] = G[g][n]
  <2> SUFFICES ASSUME NEW f \in [Nodes -> SUBSET Nodes], NEW g \in [Nodes -> SUBSET Nodes], NEW n \in Nodes,
                      \A m \in Nodes : Rising[m] < Rising[n] => f[m] = g[m]
               PROVE  G[f][n] = G[g][n]
    BY Zenon
  <2>1. G[f][n] = Says(f, n) /\ G[g][n] = Says(g, n)
    OBVIOUS
  <2>2. QED BY <1>3, <2>1
<1>6. PICK f \in [Nodes -> SUBSET Nodes] : f = G[f]
  <2> HIDE DEF G
  <2> DEFINE V == SUBSET Nodes
  <2>1. V # {}
    OBVIOUS
  <2>2. /\ G \in [[Nodes -> V] -> [Nodes -> V]]
        /\ \A f, g \in [Nodes -> V] : \A n \in Nodes :
              (\A m \in Nodes : Rising[m] < Rising[n] => f[m] = g[m]) => G[f][n] = G[g][n]
    BY <1>4, <1>5
  <2> HIDE DEF V
  <2>3. \E f \in [Nodes -> V] : f = G[f]
    BY <2>1, <2>2, Ranks, RecursionThere
  <2>4. QED BY <2>3 DEF V
<1>7. f = [n \in Nodes |-> Says(f, n)]
  BY <1>6
<1>8. Ways(b) = CHOOSE g : g = [n \in Nodes |-> Says(g, n)]
  BY DEF Ways, Says
<1>9. Ways(b) = [n \in Nodes |-> Says(Ways(b), n)]
  BY <1>7, <1>8
<1>10. \A n \in Nodes : Ways(b)[n] = Says(Ways(b), n)
  BY <1>9
<1>11. \A n \in Nodes : Above(b, n) = {n} \cup (IF b.parent[n] = 0 THEN {} ELSE Above(b, b.parent[n]))
  BY <1>10 DEF Says, Above
<1> DEFINE T == {n \in Nodes : ~(Above(b, n) \in SUBSET Nodes)}
<1>12. ASSUME NEW n \in T PROVE \E m \in T : Rising[m] < Rising[n]
  <2>1. Above(b, n) = {n} \cup (IF b.parent[n] = 0 THEN {} ELSE Above(b, b.parent[n])) /\ n \in Nodes
    BY <1>11
  <2>2. b.parent[n] # 0 /\ b.parent[n] \in T
    BY <1>1, <2>1
  <2>3. QED BY <1>1, <2>2, Ranks
<1>13. T = {}
  <2> HIDE DEF T
  <2>1. T \subseteq Nodes
    BY DEF T
  <2>2. QED BY <1>12, <2>1, Ranks, ByRank
<1>14. QED BY <1>11, <1>13
(* A node is above those it contains, and no others.                       *)
LEMMA WayFacts ==
    ASSUME NEW b, Tree(b)
    PROVE  \A n \in Nodes :
              /\ n \in Above(b, n)
              /\ \A m \in Above(b, n) : m \in Nodes /\ m <= n /\ Above(b, m) \subseteq Above(b, n)
              /\ n \in b.nodes => Above(b, n) \subseteq b.nodes /\ 1 \in Above(b, n)
<1> DEFINE Fine(n) == /\ \A m \in Above(b, n) : m \in Nodes /\ m <= n /\ Above(b, m) \subseteq Above(b, n)
                      /\ n \in b.nodes => Above(b, n) \subseteq b.nodes /\ 1 \in Above(b, n)
           T == {n \in Nodes : ~Fine(n)}
<1>1. ASSUME NEW n \in T PROVE \E m \in T : Rising[m] < Rising[n]
  <2>1. /\ n \in Nodes /\ ~Fine(n)
        /\ Above(b, n) = {n} \cup (IF b.parent[n] = 0 THEN {} ELSE Above(b, b.parent[n]))
    BY WaysSay
  <2>2. b.parent[n] # 0 => b.parent[n] \in b.nodes /\ b.parent[n] \in Nodes /\ b.parent[n] < n
    BY <2>1, Ranks DEF Tree, Nodes
  <2>3. b.parent[n] = 0 /\ n \in b.nodes => n = 1
    BY <2>1, RedactAssumption DEF Tree, Nodes
  <2>4. b.parent[n] # 0
    <3>1. n \in Nat /\ n <= n
      BY <2>1, Ranks
    <3>2. ASSUME b.parent[n] = 0 PROVE Fine(n)
      <4>1. Above(b, n) = {n}
        BY <2>1, <3>2
      <4>2. QED BY <2>1, <2>3, <3>1, <3>2, <4>1
    <3>3. QED BY <2>1, <3>2
  <2>5. ASSUME Fine(b.parent[n]) PROVE FALSE
    <3>1. Above(b, n) = {n} \cup Above(b, b.parent[n])
      BY <2>1, <2>4
    <3>2. ASSUME NEW m \in Above(b, b.parent[n]) PROVE m \in Nodes /\ m <= n
      <4>1. m \in Nodes /\ m <= b.parent[n]
        BY <2>5
      <4>2. m \in Nat /\ n \in Nat /\ b.parent[n] \in Nat /\ b.parent[n] < n
        BY <2>1, <2>2, <2>4, <4>1, Ranks
      <4>3. QED BY <4>1, <4>2
    <3>3. n \in Nat
      BY <2>1, Ranks
    <3>4. \A m \in Above(b, n) : m \in Nodes /\ m <= n /\ Above(b, m) \subseteq Above(b, n)
      BY <2>1, <2>5, <3>1, <3>2, <3>3
    <3>5. n \in b.nodes => Above(b, n) \subseteq b.nodes /\ 1 \in Above(b, n)
      BY <2>2, <2>4, <2>5, <3>1
    <3>6. QED BY <2>1, <3>4, <3>5
  <2>6. b.parent[n] \in T
    BY <2>2, <2>4, <2>5
  <2>7. QED BY <2>1, <2>2, <2>4, <2>6, Ranks
<1>2. T = {}
  <2> HIDE DEF T
  <2>1. T \subseteq Nodes
    BY DEF T
  <2>2. QED BY <1>1, <2>1, Ranks, ByRank
<1>3. \A n \in Nodes : n \in Above(b, n)
  BY WaysSay
<1>4. QED BY <1>2, <1>3

(* What contains a node, and is not it, contains it in a child.            *)
LEMMA ChildBetween ==
    ASSUME NEW b, Tree(b), NEW h \in b.nodes, NEW n \in Above(b, h), n # h
    PROVE  \E c \in Inside(b, n) : c \in Above(b, h)
<1> DEFINE T == {m \in b.nodes : n \in Above(b, m) /\ n # m /\ ~\E c \in Inside(b, n) : c \in Above(b, m)}
<1>1. T \subseteq Nodes
  BY DEF Tree
<1>2. ASSUME NEW m \in T PROVE \E k \in T : Rising[k] < Rising[m]
  <2>1. m \in b.nodes /\ m \in Nodes /\ n \in Above(b, m) /\ n # m
    BY <1>1
  <2>2. Above(b, m) = {m} \cup (IF b.parent[m] = 0 THEN {} ELSE Above(b, b.parent[m]))
    BY <2>1, WaysSay
  <2>3. b.parent[m] # 0 /\ n \in Above(b, b.parent[m])
    BY <2>1, <2>2
  <2>4. b.parent[m] \in b.nodes /\ b.parent[m] \in Nodes /\ b.parent[m] < m
    BY <2>1, <2>3 DEF Tree
  <2>5. n # b.parent[m]
    <3>1. ASSUME n = b.parent[m] PROVE FALSE
      <4>1. m \in Inside(b, n)
        BY <2>1, <2>4, <3>1, Ranks DEF Inside
      <4>2. QED BY <2>1, <2>2, <4>1
    <3>2. QED BY <3>1
  <2>6. b.parent[m] \in T
    BY <2>2, <2>3, <2>4, <2>5
  <2>7. QED BY <2>1, <2>4, <2>6, Ranks
<1>3. T = {}
  <2> HIDE DEF T
  <2>1. QED BY <1>1, <1>2, Ranks, ByRank
<1>4. QED BY <1>3

(* A node is free of S when nothing above it or at it is in S.             *)
LEMMA OutsideSays ==
    ASSUME NEW b, NEW S, Tree(b)
    PROVE  Outside(b, S) = {n \in b.nodes : Above(b, n) \cap S = {}}
<1> DEFINE T == {n \in b.nodes : ~(Free(b, S)[n] <=> Above(b, n) \cap S = {})}
<1>1. T \subseteq Nodes
  BY DEF Tree
<1>2. ASSUME NEW n \in T PROVE \E m \in T : Rising[m] < Rising[n]
  <2>1. /\ n \in b.nodes /\ n \in Nodes
        /\ Above(b, n) = {n} \cup (IF b.parent[n] = 0 THEN {} ELSE Above(b, b.parent[n]))
        /\ Free(b, S)[n] <=> n \notin S /\ (n = 1 \/ (n \in b.nodes /\ Free(b, S)[b.parent[n]]))
    BY <1>1, WaysSay, FreeSays
  <2>2. n = 1 => b.parent[n] = 0
    BY <2>1 DEF Tree
  <2>3. n # 1
    BY <2>1, <2>2
  <2>4. b.parent[n] \in b.nodes /\ b.parent[n] \in Nodes /\ b.parent[n] < n /\ b.parent[n] # 0
    BY <2>1, <2>3, RedactAssumption DEF Tree, Nodes
  <2>5. b.parent[n] \in T
    BY <2>1, <2>3, <2>4
  <2>6. QED BY <2>1, <2>4, <2>5, Ranks
<1>3. T = {}
  <2> HIDE DEF T
  <2>1. QED BY <1>1, <1>2, Ranks, ByRank
<1>4. QED BY <1>3 DEF Outside
(* What the walker drops is what goes with a struck object.                *)
LEMMA StruckIsGone ==
    ASSUME NEW b, NEW p, Tree(b)
    PROVE  Struck(b, p) = Gone(b, p)
<1> DEFINE Taken(n) == \E h \in b.nodes : Hostile(b, p, h) /\ GoesWith(b, n, h)
           T == {n \in b.nodes : ~(Lost(b, p)[n] <=> Taken(n))}
<1>1. T \subseteq Nodes /\ b.nodes \subseteq Nodes
  BY DEF Tree
<1>2. \A n \in b.nodes : Hostile(b, p, n) => b.kind[n] = "object"
  <2>1. \A n \in b.nodes : b.kind[n] # "object" => b.marks[n] = {}
    BY <1>1 DEF Tree
  <2>2. QED BY <2>1 DEF Hostile
<1>3. ASSUME NEW n \in b.nodes PROVE GoesWith(b, n, n)
  <2>1. n \in Above(b, n)
    BY <1>1, WayFacts
  <2>2. QED BY <2>1 DEF GoesWith
<1>4. ASSUME NEW n \in b.nodes, NEW c \in Inside(b, n), NEW h \in b.nodes, c \in Above(b, h)
      PROVE  /\ n \in Above(b, h) /\ c \in b.nodes /\ n # h
             /\ Above(b, h) \ Above(b, n) = (Above(b, h) \ Above(b, c)) \cup {c}
  <2>1. c \in b.nodes /\ c > n /\ b.parent[c] = n /\ c \in Nodes /\ n \in Nodes /\ h \in Nodes
    BY <1>1 DEF Inside
  <2>2. n # 0 /\ n \in Nat /\ c \in Nat /\ h \in Nat
    BY <2>1, RedactAssumption DEF Nodes
  <2>3. Above(b, c) = {c} \cup Above(b, n)
    BY <2>1, <2>2, WaysSay
  <2>4. n \in Above(b, n) /\ c \notin Above(b, n)
    BY <2>1, <2>2, WayFacts
  <2>5. Above(b, c) \subseteq Above(b, h) /\ c <= h
    BY <1>4, <2>1, WayFacts
  <2>6. n # h
    BY <2>1, <2>2, <2>5
  <2>7. QED BY <1>4, <2>1, <2>3, <2>4, <2>5, <2>6
<1>5. ASSUME NEW n \in T PROVE \E m \in T : Falling[m] < Falling[n]
  <2>1. n \in b.nodes /\ n \in Nodes /\ ~(Lost(b, p)[n] <=> Taken(n))
    BY <1>1
  <2>2. Lost(b, p)[n] <=>
           \/ b.kind[n] = "object" /\ Hostile(b, p, n)
           \/ /\ b.kind[n] = "text" \/ (b.kind[n] = "object" /\ InList(b, n))
              /\ \E c \in Inside(b, n) : Lost(b, p)[c]
    BY <2>1, LostSays
  <2>3. ~Hostile(b, p, n)
    BY <1>2, <1>3, <2>1, <2>2
  <2>4. \A c \in Inside(b, n) : c \in b.nodes /\ c \in Nodes /\ Falling[c] < Falling[n]
    BY <1>1, <2>1, Ranks DEF Inside
  <2> DEFINE Passes == b.kind[n] = "text" \/ (b.kind[n] = "object" /\ InList(b, n))
  <2>5. ASSUME \A c \in Inside(b, n) : Lost(b, p)[c] <=> Taken(c) PROVE FALSE
    <3>1. ASSUME Lost(b, p)[n] PROVE Taken(n)
      <4>1. Passes /\ \E c \in Inside(b, n) : Lost(b, p)[c]
        BY <2>2, <2>3, <3>1
      <4>2. PICK c \in Inside(b, n) : Taken(c)
        BY <2>5, <4>1
      <4>3. PICK h \in b.nodes : Hostile(b, p, h) /\ GoesWith(b, c, h)
        BY <4>2
      <4>4. c \in Above(b, h)
        BY <4>3 DEF GoesWith
      <4>5. /\ n \in Above(b, h)
            /\ Above(b, h) \ Above(b, n) = (Above(b, h) \ Above(b, c)) \cup {c}
        BY <1>4, <2>1, <4>4
      <4>6. GoesWith(b, n, h)
        BY <4>1, <4>3, <4>5 DEF GoesWith
      <4>7. QED BY <4>3, <4>6
    <3>2. ASSUME Taken(n) PROVE Lost(b, p)[n]
      <4>1. PICK h \in b.nodes : Hostile(b, p, h) /\ GoesWith(b, n, h)
        BY <3>2
      <4>2. n # h /\ n \in Above(b, h)
        BY <2>3, <4>1 DEF GoesWith
      <4>3. PICK c \in Inside(b, n) : c \in Above(b, h)
        BY <4>2, ChildBetween
      <4>4. Above(b, h) \ Above(b, n) = (Above(b, h) \ Above(b, c)) \cup {c}
        BY <1>4, <2>1, <4>3
      <4>5. GoesWith(b, c, h)
        BY <4>1, <4>3, <4>4 DEF GoesWith
      <4>6. Lost(b, p)[c]
        BY <2>5, <4>1, <4>3, <4>5
      <4>7. Passes
        BY <4>1, <4>2 DEF GoesWith
      <4>8. QED BY <2>2, <4>3, <4>6, <4>7
    <3>3. QED BY <2>1, <3>1, <3>2
  <2>6. PICK c \in Inside(b, n) : ~(Lost(b, p)[c] <=> Taken(c))
    BY <2>5
  <2>7. c \in T
    BY <2>4, <2>6
  <2>8. QED BY <2>4, <2>7
<1>6. T = {}
  <2> HIDE DEF T
  <2>1. QED BY <1>1, <1>5, Ranks, ByRank
<1>7. QED BY <1>6 DEF Struck, Gone
(* A body with nothing in it that a policy removes or replaces is left as  *)
(* it is.                                                                  *)
LEMMA CleanStays ==
    ASSUME NEW r, NEW p, Tree(r), \A n \in Nodes : r.marks[n] \cap (p.block \cup Replaced(p)) = {}
    PROVE  Redacted(r, p) = r
<1>1. r.nodes \subseteq Nodes /\ 1 \in r.nodes
  BY DEF Tree
<1>2. Struck(r, p) = {}
  <2>1. Gone(r, p) = {}
    BY <1>1 DEF Gone, Hostile
  <2>2. QED BY <2>1, StruckIsGone
<1>3. Outside(r, {}) = r.nodes
  BY OutsideSays
<1> DEFINE keep == Outside(r, {}) \cup {}
           back == IF r.result # 0 /\ r.result \in {} THEN {r.result} ELSE {}
<1>4. Redacted(r, p) =
        [nodes  |-> r.nodes,
         parent |-> [n \in Nodes |-> IF n \in r.nodes THEN r.parent[n] ELSE 0],
         kind   |-> [n \in Nodes |-> IF n \in r.nodes THEN r.kind[n] ELSE "object"],
         marks  |-> [n \in Nodes |-> IF n \in r.nodes THEN r.marks[n] \ Replaced(p) ELSE {}],
         ours   |-> [n \in Nodes |-> IF n \in r.nodes
                                     THEN r.ours[n] \cup (r.marks[n] \cap Replaced(p)) ELSE {}],
         result |-> r.result]
  BY <1>2, <1>3 DEF Redacted
<1>5. [n \in Nodes |-> IF n \in r.nodes THEN r.parent[n] ELSE 0] = r.parent
  BY DEF Tree
<1>6. [n \in Nodes |-> IF n \in r.nodes THEN r.kind[n] ELSE "object"] = r.kind
  BY DEF Tree
<1>7. [n \in Nodes |-> IF n \in r.nodes THEN r.marks[n] \ Replaced(p) ELSE {}] = r.marks
  <2>1. \A n \in Nodes : (IF n \in r.nodes THEN r.marks[n] \ Replaced(p) ELSE {}) = r.marks[n]
    BY DEF Tree
  <2>2. r.marks = [n \in Nodes |-> r.marks[n]]
    BY DEF Tree
  <2>3. QED BY <2>1, <2>2
<1>8. [n \in Nodes |-> IF n \in r.nodes THEN r.ours[n] \cup (r.marks[n] \cap Replaced(p)) ELSE {}] = r.ours
  <2>1. \A n \in Nodes : (IF n \in r.nodes THEN r.ours[n] \cup (r.marks[n] \cap Replaced(p)) ELSE {}) = r.ours[n]
    BY DEF Tree
  <2>2. r.ours = [n \in Nodes |-> r.ours[n]]
    BY DEF Tree
  <2>3. QED BY <2>1, <2>2
<1>9. r = [nodes |-> r.nodes, parent |-> r.parent, kind |-> r.kind, marks |-> r.marks,
           ours |-> r.ours, result |-> r.result]
  BY DEF Tree
<1>10. QED BY <1>4, <1>5, <1>6, <1>7, <1>8, <1>9

LEMMA EmptyIsTree == Tree(Empty) /\ \A n \in Nodes : Empty.marks[n] = {}
<1>1. 2 \in 0 .. MaxNodes /\ 1 \in 0 .. MaxNodes /\ 0 \in 0 .. MaxNodes
  BY RedactAssumption
<1>2. \A n \in Nodes : (n \in {1, 2} /\ n > 1) <=> n = 2
  BY Ranks
<1>3. QED BY <1>1, <1>2, Ranks DEF Tree, Empty, Bare

(* What is left is a body again, without anything the policy is against.   *)
LEMMA RedactedParts ==
    ASSUME NEW b, NEW p, 1 \notin Struck(b, p)
    PROVE  LET lost == Struck(b, p)
               back == IF b.result # 0 /\ b.result \in lost THEN {b.result} ELSE {}
               keep == Outside(b, lost) \cup back
               r    == Redacted(b, p)
           IN /\ r.nodes = keep /\ r.result = b.result
              /\ r = [nodes |-> r.nodes, parent |-> r.parent, kind |-> r.kind, marks |-> r.marks,
                      ours |-> r.ours, result |-> r.result]
              /\ r.parent = [n \in Nodes |-> IF n \in keep THEN b.parent[n] ELSE 0]
              /\ r.kind = [n \in Nodes |-> IF n \in keep \ back THEN b.kind[n] ELSE "object"]
              /\ r.marks = [n \in Nodes |-> IF n \in keep \ back THEN b.marks[n] \ Replaced(p) ELSE {}]
              /\ r.ours = [n \in Nodes |-> IF n \in keep \ back
                                           THEN b.ours[n] \cup (b.marks[n] \cap Replaced(p)) ELSE {}]
BY DEF Redacted

LEMMA RedactedTree ==
    ASSUME NEW b, NEW p, Tree(b), 1 \notin Struck(b, p)
    PROVE  /\ Tree(Redacted(b, p))
           /\ \A n \in Nodes : Redacted(b, p).marks[n] \cap (p.block \cup Replaced(p)) = {}
<1> DEFINE lost == Struck(b, p)
           back == IF b.result # 0 /\ b.result \in lost THEN {b.result} ELSE {}
           keep == Outside(b, lost) \cup back
           r    == Redacted(b, p)
<1>1. /\ r.nodes = keep /\ r.result = b.result
      /\ r = [nodes |-> r.nodes, parent |-> r.parent, kind |-> r.kind, marks |-> r.marks,
              ours |-> r.ours, result |-> r.result]
      /\ r.parent = [n \in Nodes |-> IF n \in keep THEN b.parent[n] ELSE 0]
      /\ r.kind = [n \in Nodes |-> IF n \in keep \ back THEN b.kind[n] ELSE "object"]
      /\ r.marks = [n \in Nodes |-> IF n \in keep \ back THEN b.marks[n] \ Replaced(p) ELSE {}]
      /\ r.ours = [n \in Nodes |-> IF n \in keep \ back
                                   THEN b.ours[n] \cup (b.marks[n] \cap Replaced(p)) ELSE {}]
  BY RedactedParts
<1>2. /\ b.nodes \subseteq Nodes /\ 1 \in b.nodes
      /\ b.result # 0 => b.result \in b.nodes /\ b.parent[b.result] = 1 /\ b.kind[1] = "object"
      /\ \A n \in Nodes : b.parent[n] \in 0 .. MaxNodes
  BY DEF Tree
<1>3. Outside(b, lost) = {n \in b.nodes : Above(b, n) \cap lost = {}}
  BY OutsideSays
<1>4. \A n \in Outside(b, lost) : n \notin lost
  BY <1>2, <1>3, WayFacts
<1>5. 1 \in Outside(b, lost)
  <2>1. \A m \in Above(b, 1) : m \in Nodes /\ m <= 1
    BY <1>2, WayFacts
  <2>2. \A m \in Above(b, 1) : m = 1
    BY <2>1, Ranks DEF Nodes
  <2>3. QED BY <1>2, <1>3, <2>2
<1>6. keep \subseteq b.nodes /\ 1 \in keep /\ 1 \notin back
  BY <1>2, <1>3, <1>5
<1>7. ASSUME NEW n \in keep, n > 1 PROVE b.parent[n] \in keep /\ b.parent[n] < n /\ n \in b.nodes
  <2>1. n \in b.nodes /\ n \in Nodes
    BY <1>2, <1>6
  <2>2. b.parent[n] \in b.nodes /\ b.parent[n] < n
    BY <1>7, <2>1 DEF Tree
  <2>3. CASE n \in back
    <3>1. b.parent[n] = 1
      BY <1>2, <2>3
    <3>2. QED BY <1>6, <2>1, <2>2, <3>1
  <2>4. CASE n \notin back
    <3>1. Above(b, n) \cap lost = {}
      BY <1>3, <2>4
    <3>2. b.parent[n] # 0
      BY <1>2, <2>2, Ranks DEF Nodes
    <3>3. Above(b, b.parent[n]) \subseteq Above(b, n)
      BY <2>1, <3>2, WaysSay
    <3>4. QED BY <1>3, <2>1, <2>2, <3>1, <3>3
  <2>5. QED BY <2>3, <2>4
<1>8. \A n \in Nodes : b.parent[n] # 0 => n \in b.nodes /\ n > 1
  BY DEF Tree
<1>9. /\ \A n \in Nodes : b.marks[n] \in SUBSET Marks /\ b.ours[n] \in SUBSET Fields
                          /\ b.kind[n] \in {"object", "list", "text"}
      /\ \A n \in Nodes : n \notin b.nodes \/ b.kind[n] # "object" => b.marks[n] = {} /\ b.ours[n] = {}
      /\ b.result \in 0 .. MaxNodes
  BY DEF Tree
<1>10. Replaced(p) \subseteq Fields
  BY DEF Replaced, Fields
<1> HIDE DEF lost, back, keep, r
<1>11. \A n \in Nodes : r.marks[n] \in SUBSET Marks /\ r.ours[n] \in SUBSET Fields
                        /\ r.kind[n] \in {"object", "list", "text"} /\ r.parent[n] \in 0 .. MaxNodes
  BY <1>1, <1>2, <1>9, <1>10, RedactAssumption
<1>12. r \in [nodes : SUBSET Nodes, parent : [Nodes -> 0 .. MaxNodes],
              kind : [Nodes -> {"object", "list", "text"}], marks : [Nodes -> SUBSET Marks],
              ours : [Nodes -> SUBSET Fields], result : 0 .. MaxNodes]
  <2>1. /\ r.nodes \in SUBSET Nodes /\ r.result \in 0 .. MaxNodes
        /\ r.parent \in [Nodes -> 0 .. MaxNodes] /\ r.kind \in [Nodes -> {"object", "list", "text"}]
        /\ r.marks \in [Nodes -> SUBSET Marks] /\ r.ours \in [Nodes -> SUBSET Fields]
    BY <1>1, <1>2, <1>6, <1>9, <1>11
  <2>2. QED BY <1>1, <2>1
<1>13. \A n \in Nodes : IF n \in r.nodes /\ n > 1 THEN r.parent[n] \in r.nodes /\ r.parent[n] < n
                                                   ELSE r.parent[n] = 0
  BY <1>1, <1>7, <1>8
<1>14. \A n \in Nodes : n \notin r.nodes \/ r.kind[n] # "object" => r.marks[n] = {} /\ r.ours[n] = {}
  <2>1. \A n \in Nodes : n \in keep \ back /\ b.kind[n] # "object" => b.marks[n] = {} /\ b.ours[n] = {}
    BY <1>9
  <2>2. QED BY <1>1, <2>1
<1>15. \A n \in Nodes \ r.nodes : r.kind[n] = "object"
  BY <1>1
<1>16. r.result # 0 => r.result \in r.nodes /\ r.parent[r.result] = 1 /\ r.kind[1] = "object"
  <2>1. ASSUME b.result # 0 PROVE b.result \in keep
    <3>1. CASE b.result \in lost
      BY <2>1, <3>1 DEF back, keep
    <3>2. CASE b.result \notin lost
      <4>1. b.result \in Nodes /\ b.result \in b.nodes /\ b.parent[b.result] = 1
        BY <1>2, <2>1
      <4>2. Above(b, b.result) = {b.result} \cup Above(b, 1)
        BY <4>1, WaysSay
      <4>3. Above(b, 1) \cap lost = {}
        BY <1>3, <1>5
      <4>4. QED BY <1>3, <3>2, <4>1, <4>2, <4>3 DEF keep
    <3>3. QED BY <3>1, <3>2
  <2>2. QED BY <1>1, <1>2, <1>6, <2>1
<1>17. Tree(r)
  BY <1>1, <1>6, <1>12, <1>13, <1>14, <1>15, <1>16 DEF Tree
<1>18. ASSUME NEW n \in Nodes PROVE r.marks[n] \cap (p.block \cup Replaced(p)) = {}
  <2>1. CASE n \in keep \ back
    <3>1. n \notin lost /\ n \in b.nodes
      BY <1>4, <1>6, <2>1 DEF keep
    <3>2. n \notin Gone(b, p)
      BY <3>1, StruckIsGone DEF lost
    <3>3. GoesWith(b, n, n)
      BY WayFacts DEF GoesWith
    <3>4. b.marks[n] \cap p.block = {}
      BY <3>1, <3>2, <3>3 DEF Gone, Hostile
    <3>5. r.marks[n] = b.marks[n] \ Replaced(p)
      BY <1>1, <2>1
    <3>6. QED BY <3>4, <3>5
  <2>2. CASE n \notin keep \ back
    BY <1>1, <2>2
  <2>3. QED BY <2>1, <2>2
<1>19. QED BY <1>17, <1>18 DEF r
LEMMA SoundRedaction ==
    ASSUME NEW b, NEW p, Tree(b)
    PROVE  RedactionSound(b, p)
<1> DEFINE lost == Struck(b, p)
           back == IF b.result # 0 /\ b.result \in lost THEN {b.result} ELSE {}
           keep == Outside(b, lost) \cup back
           r    == Redacted(b, p)
           gone == UNION {{m \in b.nodes : n \in Above(b, m)} : n \in Gone(b, p)}
<1>1. b.nodes \subseteq Nodes /\ 1 \in b.nodes /\ lost = Gone(b, p) /\ lost \subseteq b.nodes
  BY StruckIsGone DEF Tree, Gone
<1>2. Outside(b, lost) = b.nodes \ gone
  <2>1. \A m \in b.nodes : m \in gone <=> Above(b, m) \cap lost # {}
    BY <1>1
  <2>2. QED BY <2>1, OutsideSays
<1>3. 1 \in gone <=> 1 \in lost
  <2>1. \A m \in Above(b, 1) : m \in Nodes /\ m <= 1
    BY <1>1, WayFacts
  <2>2. \A m \in Above(b, 1) : m = 1
    BY <2>1, Ranks DEF Nodes
  <2>3. 1 \in Above(b, 1)
    BY <1>1, WayFacts
  <2>4. QED BY <1>1, <2>2, <2>3
<1>4. \A n \in b.nodes : n \in lost => n \in gone
  BY <1>1, WayFacts
<1>5. Tree(r) /\ \A n \in Nodes : r.marks[n] \cap (p.block \cup Replaced(p)) = {}
  <2>1. CASE 1 \in lost
    <3>1. r = Empty
      BY <2>1 DEF Redacted
    <3>2. QED BY <3>1, EmptyIsTree
  <2>2. CASE 1 \notin lost
    BY <2>2, RedactedTree
  <2>3. QED BY <2>1, <2>2
<1>6. Redacted(r, p) = r
  BY <1>5, CleanStays
<1>7. \A n \in r.nodes : r.marks[n] \cap (p.block \cup Replaced(p)) = {}
  BY <1>5 DEF Tree
<1>8. IF 1 \in gone THEN r = Empty
      ELSE /\ r.nodes \ {b.result} = (b.nodes \ gone) \ {b.result}
           /\ \A n \in b.nodes \ gone :
                 /\ r.kind[n] = b.kind[n] /\ r.parent[n] = b.parent[n]
                 /\ r.marks[n] \cup r.ours[n] = b.marks[n] \cup b.ours[n]
  <2>1. CASE 1 \in gone
    BY <1>3, <2>1 DEF Redacted
  <2>2. CASE 1 \notin gone
    <3>1. /\ r.nodes = keep
          /\ r.parent = [n \in Nodes |-> IF n \in keep THEN b.parent[n] ELSE 0]
          /\ r.kind = [n \in Nodes |-> IF n \in keep \ back THEN b.kind[n] ELSE "object"]
          /\ r.marks = [n \in Nodes |-> IF n \in keep \ back THEN b.marks[n] \ Replaced(p) ELSE {}]
          /\ r.ours = [n \in Nodes |-> IF n \in keep \ back
                                       THEN b.ours[n] \cup (b.marks[n] \cap Replaced(p)) ELSE {}]
      BY <1>3, <2>2, RedactedParts
    <3>2. back \subseteq {b.result}
      OBVIOUS
    <3>3. \A n \in b.nodes \ gone : n \in keep \ back /\ n \in Nodes
      BY <1>1, <1>2, <1>4
    <3> HIDE DEF back, lost, r, gone
    <3>4. r.nodes \ {b.result} = (b.nodes \ gone) \ {b.result}
      BY <1>2, <3>1, <3>2
    <3>5. \A n \in b.nodes \ gone : /\ r.kind[n] = b.kind[n] /\ r.parent[n] = b.parent[n]
                                    /\ r.marks[n] = b.marks[n] \ Replaced(p)
                                    /\ r.ours[n] = b.ours[n] \cup (b.marks[n] \cap Replaced(p))
      BY <3>1, <3>3
    <3>6. QED BY <2>2, <3>4, <3>5
  <2>3. QED BY <2>1, <2>2
<1>9. b.result # 0 => r.result # 0 /\ r.result \in r.nodes
  <2>1. CASE 1 \in lost
    <3>1. r = Empty
      BY <2>1 DEF Redacted
    <3>2. QED BY <3>1 DEF Empty, Bare
  <2>2. CASE 1 \notin lost
    <3>1. r.result = b.result
      BY <2>2, RedactedParts
    <3>2. QED BY <1>5, <3>1 DEF Tree
  <2>3. QED BY <2>1, <2>2
<1>10. ASSUME NEW f \in {"mqttHost", "mqttCreds"}, NEW n \in b.nodes \ gone, f \in b.marks[n]
       PROVE  f \in Captured(b, p)
  <2> DEFINE hostile == {h \in b.nodes : Hostile(b, p, h)}
  <2>1. hostile \subseteq lost
    <3>1. \A h \in b.nodes : GoesWith(b, h, h)
      BY <1>1, WayFacts DEF GoesWith
    <3>2. QED BY <1>1, <3>1 DEF Gone
  <2>2. Above(b, n) \cap lost = {}
    BY <1>2, OutsideSays
  <2>3. n \in Outside(b, hostile)
    BY <2>1, <2>2, OutsideSays
  <2>4. QED BY <1>10, <2>3 DEF Captured
<1> HIDE DEF lost, back, keep
<1>11. QED BY <1>6, <1>7, <1>8, <1>9, <1>10 DEF RedactionSound

(* Of any body of any size and shape, under any policy: a redacted body    *)
(* holds no object a rule strikes and no address of the cloud; it lost     *)
(* what went with a struck object and nothing else, its answer keeps a     *)
(* `result', and redacting it again changes nothing (redact_body, _walk).  *)
THEOREM EveryBodyRedacted == RedactSpec => []BodiesRedacted
<1> DEFINE Inv == BodiesRedacted
<1>1. RedactInit => Inv
  BY BodyIsTree, SoundRedaction DEF RedactInit, BodiesRedacted
<1>2. Inv /\ [FALSE]_redactVars => Inv'
  BY DEF BodiesRedacted, redactVars
<1>3. QED BY <1>1, <1>2, PTL DEF RedactSpec
-----------------------------------------------------------------------------
(* The accessory.  Where the frames under way lead: to the block of the    *)
(* last of them, and without one to what the accessory holds now.          *)
Settles(msgs, now, b) ==
    \/ \E i \in DOMAIN msgs : /\ msgs[i].kind = "frame" /\ msgs[i].block = b
                             /\ \A j \in DOMAIN msgs : j > i => msgs[j].kind # "frame"
    \/ now = b /\ \A i \in DOMAIN msgs : msgs[i].kind # "frame"

LEMMA SettlesAppend ==
    ASSUME NEW M, NEW s \in Seq(M), NEW m \in M, NEW now, NEW b,
           IF m.kind = "frame" THEN m.block = b ELSE Settles(s, now, b)
    PROVE  Settles(Append(s, m), now, b)
<1> DEFINE t == Append(s, m)
<1>1. /\ DOMAIN t = 1 .. Len(s) + 1 /\ t[Len(s) + 1] = m
      /\ DOMAIN s = 1 .. Len(s) /\ \A i \in DOMAIN s : t[i] = s[i]
      /\ Len(s) \in Nat
  OBVIOUS
<1> HIDE DEF t
<1>2. Settles(t, now, b)
  <2>1. CASE m.kind = "frame"
    BY <1>1, <2>1 DEF Settles
  <2>2. CASE m.kind # "frame"
    BY <1>1, <2>2 DEF Settles
  <2>3. QED BY <2>1, <2>2
<1>3. QED BY <1>2 DEF t

LEMMA SettlesTail ==
    ASSUME NEW M, NEW s \in Seq(M), s # <<>>, NEW now, NEW then, NEW b, Settles(s, now, b),
           then = IF Head(s).kind = "frame" THEN Head(s).block ELSE now
    PROVE  Settles(Tail(s), then, b)
<1> DEFINE t == Tail(s)
<1>1. /\ DOMAIN s = 1 .. Len(s) /\ Len(s) \in Nat \ {0} /\ Head(s) = s[1]
      /\ DOMAIN t = 1 .. Len(s) - 1 /\ \A i \in DOMAIN t : t[i] = s[i + 1]
  OBVIOUS
<1> HIDE DEF t
<1>2. Settles(t, then, b)
  <2>1. ASSUME NEW i \in DOMAIN s, s[i].kind = "frame", s[i].block = b,
               \A j \in DOMAIN s : j > i => s[j].kind # "frame"
        PROVE  Settles(t, then, b)
    <3>1. CASE i = 1
      BY <1>1, <2>1, <3>1 DEF Settles
    <3>2. CASE i # 1
      <4>1. i - 1 \in DOMAIN t /\ t[i - 1] = s[i]
        BY <1>1, <2>1, <3>2
      <4>2. \A j \in DOMAIN t : j > i - 1 => t[j].kind # "frame"
        BY <1>1, <2>1, <3>2
      <4>3. QED BY <2>1, <4>1, <4>2 DEF Settles
    <3>3. QED BY <3>1, <3>2
  <2>2. CASE now = b /\ \A i \in DOMAIN s : s[i].kind # "frame"
    BY <1>1, <2>2 DEF Settles
  <2>3. QED BY <2>1, <2>2 DEF Settles
<1>3. QED BY <1>2 DEF t

(* What goes about: a frame restates a whole block, and what the accessory *)
(* does is one of Blocks; the server may not have read it yet.             *)
Recalled == [ModeFields -> {0, 1, NeverRead}]
Messages == {m \in [to : Parents, kind : {"connect", "frame", "close"}, block : Recalled] :
                m.kind = "frame" => m.block \in Blocks}
Readings == [from : Parents, block : Blocks, old : BOOLEAN]
Writers == {w \in [at : {"idle", "connecting", "framing"}, to : Parents \cup {NoParent}, ours : BOOLEAN,
                    field : ModeFields, value : {0, 1}, block : Blocks] :
                w.at # "idle" => w.to \in Parents}

AirInv ==
    /\ AccessoryTypeOK
    /\ air \in Seq(Messages) /\ readings \in Seq(Readings)
    /\ writer \in [Commanders -> Writers]
    /\ clear \in BOOLEAN

(* A command that is alone sets one field of what the server knows, and    *)
(* from its frame on the accessory gets there.                             *)
Alone(q) ==
    /\ \A o \in Commanders \ {q} : writer[o].at = "idle"
    /\ writer[q].ours
    /\ writer[q].block = [known EXCEPT ![writer[q].field] = writer[q].value]
    /\ writer[q].at = "framing" => Settles(air, held, writer[q].block)
Agrees ==
    /\ AllIdle => Settles(air, held, known)
    /\ \A q \in Commanders : writer[q].at # "idle" => Alone(q)
Current == \A i \in DOMAIN readings : ~readings[i].old => readings[i].block = held

AccessoryInv == AirInv /\ Current /\ (clear => Agrees)

LEMMA BlocksAreKnown == Blocks \subseteq Recalled /\ Blocks # {} /\ NoCommand \in Writers
<1>1. [f \in ModeFields |-> 0] \in Blocks
  BY DEF Blocks, ModeFields
<1>2. QED BY <1>1 DEF Blocks, Recalled, NoCommand, Writers, ModeFields

(* A command is refused where the block it would restate was never read.   *)
LEMMA BlockIsWhole ==
    ASSUME known \in Recalled, NEW f \in ModeFields, NEW v \in {0, 1},
           \A g \in ModeFields : known[g] = NeverRead => f = "mode" \/ f = g
    PROVE  Block(f, v) \in Blocks
<1> DEFINE said == [known EXCEPT ![f] = v]
           run == IF f = "mode" THEN [said EXCEPT !["power"] = 1, !["suspend"] = 1] ELSE said
<1>1. run \in Blocks
  <2>1. CASE f = "mode"
    BY <2>1 DEF Recalled, Blocks, ModeFields
  <2>2. CASE f # "mode"
    <3>1. \A g \in ModeFields : said[g] \in {0, 1}
      BY <2>2 DEF Recalled
    <3>2. QED BY <2>2, <3>1 DEF Recalled, Blocks
  <2>3. QED BY <2>1, <2>2
<1>2. Block(f, v) = IF run["power"] = 0 THEN [run EXCEPT !["suspend"] = 0] ELSE run
  BY DEF Block
<1> HIDE DEF run
<1>3. QED BY <1>1, <1>2 DEF Blocks, ModeFields

LEMMA AccessoryInvInit == AccessoryInit => AccessoryInv
<1> SUFFICES ASSUME AccessoryInit PROVE AccessoryInv
  OBVIOUS
<1>1. held \in Blocks /\ known = held /\ air = <<>> /\ readings = <<>> /\ clear = TRUE
      /\ writer = [q \in Commanders |-> NoCommand]
  BY DEF AccessoryInit, Blocks
<1>2. AirInv
  BY <1>1, BlocksAreKnown DEF AccessoryInit, AirInv, AccessoryTypeOK, Recalled
<1>3. Current
  BY <1>1 DEF Current
<1>4. Agrees
  BY <1>1 DEF Agrees, Settles, NoCommand
<1>5. QED BY <1>2, <1>3, <1>4 DEF AccessoryInv

(* A message that is sent is one, and what is no frame leads nowhere else. *)
LEMMA Sent ==
    ASSUME air \in Seq(Messages), NEW p \in Parents, NEW kind \in {"connect", "frame", "close"},
           NEW block \in Recalled, kind = "frame" => block \in Blocks
    PROVE  /\ After(air, p, kind, block) \in Seq(Messages)
           /\ \A now, b : Settles(air, now, b) /\ kind # "frame" => Settles(After(air, p, kind, block), now, b)
           /\ \A now : bridge /\ kind = "frame" => Settles(After(air, p, kind, block), now, block)
<1> DEFINE m == Message(p, kind, block)
<1>1. m \in Messages /\ m.kind = kind /\ m.block = block
  BY DEF Message, Messages
<1>2. After(air, p, kind, block) = IF bridge THEN Append(air, m) ELSE air
  BY DEF After
<1> HIDE DEF m
<1>3. Append(air, m) \in Seq(Messages)
  BY <1>1
<1>4. ASSUME NEW now, NEW b, IF kind = "frame" THEN block = b ELSE Settles(air, now, b)
      PROVE  Settles(Append(air, m), now, b)
  BY <1>1, <1>4, SettlesAppend
<1>5. QED BY <1>2, <1>3, <1>4

(* The two requests for a session: the loop's, and a person's.             *)
LEMMA PollStep == ASSUME AccessoryInv, PollTick \/ ReadNow PROVE AccessoryInv'
<1>1. linkWith \in Parents /\ known \in Recalled
  <2>1. PollTick => linkWith # NoParent
    BY DEF PollTick
  <2>2. ReadNow => linkWith \in up
    BY DEF ReadNow
  <2>3. QED BY <2>1, <2>2 DEF AccessoryInv, AirInv, AccessoryTypeOK, Recalled
<1>2. air' = After(air, linkWith, "connect", known)
      /\ UNCHANGED <<wires, radio, readings, held, known, writer, clear, spent>>
  BY DEF PollTick, ReadNow
<1>3. air' \in Seq(Messages) /\ \A now, b : Settles(air, now, b) => Settles(air', now, b)
  BY <1>1, <1>2, Sent DEF AccessoryInv, AirInv
<1>4. AirInv' /\ Current'
  BY <1>2, <1>3 DEF AccessoryInv, AirInv, AccessoryTypeOK, Current, wires
<1>5. Agrees => Agrees'
  BY <1>2, <1>3 DEF Agrees, Alone, AllIdle
<1>6. QED BY <1>2, <1>4, <1>5 DEF AccessoryInv

LEMMA WriteBeginsStep ==
    ASSUME AccessoryInv, NEW q \in Commanders, NEW f \in ModeFields, NEW v \in {0, 1}, WriteBegins(q, f, v)
    PROVE  AccessoryInv'
<1> DEFINE w == [at |-> "connecting", to |-> linkWith, ours |-> TRUE, field |-> f, value |-> v, block |-> Block(f, v)]
<1>1. linkWith \in Parents /\ known \in Recalled /\ Block(f, v) \in Blocks
  BY BlockIsWhole DEF WriteBegins, AccessoryInv, AirInv, AccessoryTypeOK, Recalled
<1>2. /\ air' = After(air, linkWith, "connect", known) /\ writer' = [writer EXCEPT ![q] = w]
      /\ clear' = (clear /\ AllIdle /\ Block(f, v) = [known EXCEPT ![f] = v])
      /\ UNCHANGED <<wires, radio, readings, held, known>>
  BY DEF WriteBegins
<1>3. air' \in Seq(Messages)
  BY <1>1, <1>2, Sent DEF AccessoryInv, AirInv
<1>4. w \in Writers
  BY <1>1 DEF Writers
<1>5. AirInv' /\ Current'
  BY <1>2, <1>3, <1>4 DEF AccessoryInv, AirInv, AccessoryTypeOK, Current, wires
<1>6. ASSUME clear' PROVE Agrees'
  <2>1. \A o \in Commanders \ {q} : writer'[o].at = "idle"
    BY <1>2, <1>6 DEF AllIdle, AccessoryInv, AirInv
  <2>2. writer'[q] = w /\ w.at = "connecting" /\ w.ours /\ w.block = [known EXCEPT ![w.field] = w.value]
    BY <1>2, <1>6 DEF AccessoryInv, AirInv
  <2>3. Alone(q)'
    BY <1>2, <2>1, <2>2 DEF Alone
  <2>4. QED BY <2>1, <2>2, <2>3 DEF Agrees, AllIdle
<1>7. QED BY <1>5, <1>6 DEF AccessoryInv

LEMMA WriteFramesStep ==
    ASSUME AccessoryInv, NEW q \in Commanders, WriteFrames(q) PROVE AccessoryInv'
<1> DEFINE w == [writer[q] EXCEPT !.at = "framing"]
<1>1. writer[q] \in Writers /\ writer[q].at = "connecting" /\ writer[q].to \in Parents
      /\ writer[q].block \in Blocks /\ writer[q].block \in Recalled
  BY BlocksAreKnown DEF WriteFrames, AccessoryInv, AirInv, Writers
<1>2. /\ air' = After(air, writer[q].to, "frame", writer[q].block) /\ writer' = [writer EXCEPT ![q] = w]
      /\ clear' = (clear /\ bridge)
      /\ UNCHANGED <<wires, radio, readings, held, known>>
  BY DEF WriteFrames
<1>3. air' \in Seq(Messages) /\ (bridge => Settles(air', held, writer[q].block))
  BY <1>1, <1>2, Sent DEF AccessoryInv, AirInv
<1>4. w \in Writers
  BY <1>1 DEF Writers
<1>5. AirInv' /\ Current'
  BY <1>2, <1>3, <1>4 DEF AccessoryInv, AirInv, AccessoryTypeOK, Current, wires
<1>6. ASSUME clear' PROVE Agrees'
  <2>1. clear /\ bridge /\ Alone(q)
    BY <1>1, <1>2, <1>6 DEF AccessoryInv, AirInv, Agrees
  <2>2. \A o \in Commanders \ {q} : writer'[o].at = "idle"
    BY <1>2, <2>1 DEF Alone, AccessoryInv, AirInv
  <2>3. writer'[q] = w /\ w.at = "framing" /\ w.ours /\ w.block = [known EXCEPT ![w.field] = w.value]
        /\ w.block = writer[q].block
    BY <1>1, <1>2, <2>1 DEF Alone, AccessoryInv, AirInv, Writers
  <2>4. Alone(q)'
    BY <1>2, <1>3, <2>1, <2>2, <2>3 DEF Alone
  <2>5. QED BY <2>2, <2>3, <2>4 DEF Agrees, AllIdle
<1>7. QED BY <1>5, <1>6 DEF AccessoryInv

(* The answer: one field is reflected, and with it the whole block, since  *)
(* the block was the server's but for that field.                          *)
LEMMA WriteEndsStep ==
    ASSUME AccessoryInv, NEW q \in Commanders, WriteEnds(q) PROVE AccessoryInv'
<1>1. writer[q] \in Writers /\ writer[q].at = "framing"
  BY DEF WriteEnds, AccessoryInv, AirInv
<1>2. /\ writer' = [writer EXCEPT ![q] = NoCommand]
      /\ known' = IF writer[q].ours THEN [known EXCEPT ![writer[q].field] = writer[q].value] ELSE known
      /\ UNCHANGED <<wires, radio, air, readings, held, clear>>
  BY DEF WriteEnds, Reflect
<1>3. AirInv' /\ Current'
  BY <1>1, <1>2, BlocksAreKnown DEF AccessoryInv, AirInv, AccessoryTypeOK, Current, wires, Writers
<1>4. ASSUME clear' PROVE Agrees'
  <2>1. Alone(q)
    BY <1>1, <1>2, <1>4 DEF AccessoryInv, AirInv, Agrees
  <2>2. \A o \in Commanders : writer'[o].at = "idle"
    BY <1>2, <2>1 DEF Alone, AccessoryInv, AirInv, NoCommand
  <2>3. known' = writer[q].block /\ Settles(air, held, writer[q].block)
    BY <1>1, <1>2, <2>1 DEF Alone
  <2>4. QED BY <1>2, <2>2, <2>3 DEF Agrees
<1>5. QED BY <1>3, <1>4 DEF AccessoryInv

(* A reading is what the accessory held when it spoke; unless something    *)
(* changed it since, or is under way to, the server agrees from then on.   *)
LEMMA ReadingStep == ASSUME AccessoryInv, ReadingArrives PROVE AccessoryInv'
<1> DEFINE r == Head(readings)
<1>1. /\ readings \in Seq(Readings) /\ readings # <<>> /\ r \in Readings /\ r = readings[1]
      /\ readings' = Tail(readings) /\ readings' \in Seq(Readings)
      /\ \A i \in DOMAIN readings' : i + 1 \in DOMAIN readings /\ readings'[i] = readings[i + 1]
      /\ 1 \in DOMAIN readings
  BY DEF ReadingArrives, AccessoryInv, AirInv
<1>2. UNCHANGED <<wires, radio, held, writer>> /\ bridge
  BY DEF ReadingArrives
<1>3. Current'
  BY <1>1, <1>2 DEF Current, AccessoryInv
<1>4. CASE linkWith = NoParent
  <2>1. UNCHANGED <<known, air, clear>>
    BY <1>4 DEF ReadingArrives
  <2>2. AirInv'
    BY <1>1, <1>2, <2>1 DEF AccessoryInv, AirInv, AccessoryTypeOK, wires
  <2>3. Agrees => Agrees'
    BY <1>2, <2>1 DEF Agrees, Alone, AllIdle
  <2>4. QED BY <1>3, <2>1, <2>2, <2>3 DEF AccessoryInv
<1>5. CASE linkWith # NoParent
  <2>1. /\ known' = r.block /\ air' = After(air, r.from, "close", known)
        /\ clear' = (~r.old /\ AllIdle /\ ~UnderWay("frame"))
    BY <1>5 DEF ReadingArrives
  <2>2. known \in Recalled /\ r.from \in Parents /\ r.block \in Blocks /\ r.old \in BOOLEAN
    BY <1>1 DEF Readings, Recalled, AccessoryInv, AirInv, AccessoryTypeOK
  <2>3. air' \in Seq(Messages) /\ \A now, b : Settles(air, now, b) => Settles(air', now, b)
    BY <2>1, <2>2, Sent DEF AccessoryInv, AirInv
  <2>4. AirInv'
    BY <1>1, <1>2, <2>1, <2>2, <2>3, BlocksAreKnown
    DEF AccessoryInv, AirInv, AccessoryTypeOK, wires, Recalled
  <2>5. ASSUME clear' PROVE Agrees'
    <3>1. r.block = held /\ AllIdle /\ \A i \in DOMAIN air : air[i].kind # "frame"
      BY <1>1, <2>1, <2>5 DEF AccessoryInv, Current, UnderWay
    <3>2. Settles(air, held, held)
      BY <3>1 DEF Settles
    <3>3. Settles(air', held, known')
      BY <2>1, <2>3, <3>1, <3>2
    <3>4. QED BY <1>2, <3>1, <3>3 DEF Agrees, AllIdle
  <2>6. QED BY <1>3, <2>4, <2>5 DEF AccessoryInv
<1>6. QED BY <1>4, <1>5

LEMMA AllOld ==
    ASSUME readings \in Seq(Readings)
    PROVE  NowOld \in Seq(Readings) /\ \A i \in DOMAIN NowOld : NowOld[i].old
<1>1. ASSUME NEW i \in DOMAIN readings
      PROVE  [readings[i] EXCEPT !.old = TRUE] \in Readings /\ [readings[i] EXCEPT !.old = TRUE].old
  <2>1. readings[i] \in Readings
    BY <1>1
  <2>2. QED BY <2>1 DEF Readings
<1>2. DOMAIN readings = 1 .. Len(readings) /\ Len(readings) \in Nat
  OBVIOUS
<1>3. NowOld = [i \in 1 .. Len(readings) |-> [readings[i] EXCEPT !.old = TRUE]]
  BY <1>2 DEF NowOld
<1>4. NowOld \in [1 .. Len(readings) -> Readings] /\ \A i \in DOMAIN NowOld : NowOld[i].old
  BY <1>1, <1>2, <1>3
<1>5. QED BY <1>2, <1>4

(* A frame that lands is what the accessory does from now on, and makes    *)
(* old what it said before; one that does not land is not made up for.     *)
LEMMA DeliveredStep == ASSUME AccessoryInv, Delivered PROVE AccessoryInv'
<1> DEFINE m == Head(air)
           lands == m.to \in up /\ radio = m.to
<1>1. /\ air \in Seq(Messages) /\ air # <<>> /\ m \in Messages /\ air' = Tail(air) /\ air' \in Seq(Messages)
      /\ UNCHANGED <<wires, known, writer>>
  BY DEF Delivered, AccessoryInv, AirInv
<1>2. m.to \in Parents /\ (m.kind = "frame" => m.block \in Blocks)
  BY <1>1 DEF Messages
<1>3. radio' \in Parents \cup {NoParent}
  BY <1>2 DEF Delivered, AccessoryInv, AirInv, AccessoryTypeOK
<1>4. /\ m.kind # "frame" => UNCHANGED <<held, readings, clear>>
      /\ m.kind = "frame" /\ lands => held' = m.block /\ readings' = NowOld /\ clear' = clear
      /\ m.kind = "frame" /\ ~lands => clear' = FALSE /\ UNCHANGED <<held, readings>>
  BY DEF Delivered
<1> HIDE DEF m, lands
<1>5. readings \in Seq(Readings) /\ AllIdle' = AllIdle
  BY <1>1 DEF AccessoryInv, AirInv, AllIdle
<1>6. held' \in Blocks /\ clear' \in BOOLEAN /\ readings' \in Seq(Readings)
  BY <1>2, <1>4, <1>5, AllOld DEF AccessoryInv, AirInv, AccessoryTypeOK
<1>7. AirInv'
  BY <1>1, <1>3, <1>6 DEF AccessoryInv, AirInv, AccessoryTypeOK, wires
<1>8. Current'
  BY <1>4, <1>5, AllOld DEF Current, AccessoryInv
<1>9. ASSUME clear' PROVE Agrees'
  <2>1. clear /\ held' = IF m.kind = "frame" THEN m.block ELSE held
    BY <1>4, <1>9
  <2>2. \A b : Settles(air, held, b) => Settles(air', held', b)
    BY <1>1, <2>1, SettlesTail DEF m
  <2>3. QED BY <1>1, <1>5, <2>1, <2>2 DEF AccessoryInv, Agrees, Alone
<1>10. QED BY <1>7, <1>8, <1>9 DEF AccessoryInv

LEMMA AccessoryStep == ASSUME AccessoryInv, [AccessoryNext]_accessoryVars PROVE AccessoryInv'
<1>1. CASE PollTick \/ ReadNow
  BY <1>1, PollStep
<1>2. ASSUME NEW q \in Commanders, NEW f \in ModeFields, NEW v \in {0, 1}, WriteBegins(q, f, v) PROVE AccessoryInv'
  BY <1>2, WriteBeginsStep
<1>3. ASSUME NEW q \in Commanders, WriteFrames(q) \/ WriteEnds(q) PROVE AccessoryInv'
  BY <1>3, WriteFramesStep, WriteEndsStep
<1>4. ASSUME NEW q \in Commanders, WriteFails(q) PROVE AccessoryInv'
  BY <1>4, BlocksAreKnown DEF WriteFails, wires, spent, AccessoryInv, AirInv, AccessoryTypeOK, Current
<1>5. CASE ReadingArrives \/ Delivered
  BY <1>5, ReadingStep, DeliveredStep
<1>6. CASE AccessorySpeaks
  <2>1. readings' \in Seq(Readings) /\ Current'
    <3>1. [from |-> radio, block |-> held, old |-> FALSE] \in Readings
      BY <1>6 DEF AccessorySpeaks, Readings, AccessoryInv, AirInv, AccessoryTypeOK
    <3>2. readings' = <<[from |-> radio, block |-> held, old |-> FALSE]>> /\ held' = held
      BY <1>6 DEF AccessorySpeaks
    <3>3. QED BY <3>1, <3>2 DEF Current
  <2>2. Agrees => Agrees'
    BY <1>6 DEF AccessorySpeaks, Agrees, Alone, AllIdle
  <2>3. QED BY <1>6, <2>1, <2>2 DEF AccessorySpeaks, wires, AccessoryInv, AirInv, AccessoryTypeOK
<1>7. ASSUME NEW f \in ModeFields, Touched(f) PROVE AccessoryInv'
  <2>1. held' \in Blocks /\ readings' = NowOld /\ clear' = FALSE
    BY <1>7 DEF Touched, Blocks, AccessoryInv, AirInv, AccessoryTypeOK
  <2>2. readings' \in Seq(Readings) /\ Current'
    BY <2>1, AllOld DEF Current, AccessoryInv, AirInv
  <2>3. QED BY <1>7, <2>1, <2>2 DEF Touched, wires, AccessoryInv, AirInv, AccessoryTypeOK
<1>8. CASE Unpaired
  <2>1. writer' \in [Commanders -> Writers]
    BY <1>8 DEF Unpaired, Writers, AccessoryInv, AirInv
  <2>2. QED BY <1>8, <2>1 DEF Unpaired, AccessoryInv, AirInv, AccessoryTypeOK, Current
<1>9. ASSUME UNCHANGED <<known, air, held, writer, clear>>, readings' = readings \/ readings' = <<>>,
             linkWith' \in Parents \cup {NoParent}, listed' \subseteq Parents, up' \subseteq Parents,
             radio' \in Parents \cup {NoParent}
      PROVE  AccessoryInv'
  <2>1. AirInv'
    <3>1. <<>> \in Seq(Readings)
      OBVIOUS
    <3>2. readings \in Seq(Readings)
      BY DEF AccessoryInv, AirInv
    <3>3. readings' \in Seq(Readings)
      BY <1>9, <3>1, <3>2, Zenon
    <3>4. QED BY <1>9, <3>3 DEF AccessoryInv, AirInv, AccessoryTypeOK
  <2>2. Current'
    BY <1>9 DEF AccessoryInv, Current
  <2>3. Agrees => Agrees'
    BY <1>9 DEF Agrees, Alone, AllIdle
  <2>4. QED BY <1>9, <2>1, <2>2, <2>3 DEF AccessoryInv
<1> DEFINE quiet == IntervalElapses \/ RadioEnds \/ BridgeLost \/ BridgeReturns \/ UNCHANGED accessoryVars
                      \/ \E p \in Parents : ParentLost(p) \/ ParentReturns(p) \/ ListFetched(p) \/ Paired(p)
<1>10. CASE quiet
  <2>1. UNCHANGED <<known, air, held, writer, clear>> /\ (readings' = readings \/ readings' = <<>>)
    BY <1>10 DEF IntervalElapses, RadioEnds, BridgeLost, BridgeReturns, accessoryVars, ParentLost,
                 ParentReturns, ListFetched, Paired
  <2>2. /\ linkWith' \in Parents \cup {NoParent} /\ listed' \subseteq Parents /\ up' \subseteq Parents
        /\ radio' \in Parents \cup {NoParent}
    BY <1>10 DEF AccessoryInv, AirInv, AccessoryTypeOK, IntervalElapses, RadioEnds, BridgeLost, BridgeReturns,
                 accessoryVars, wires, ParentLost, ParentReturns, ListFetched, Paired
  <2>3. QED BY <1>9, <2>1, <2>2
<1>11. QED BY <1>1, <1>2, <1>3, <1>4, <1>5, <1>6, <1>7, <1>8, <1>10 DEF AccessoryNext

(* For any parents and any number of commands, moves and mishaps: once     *)
(* every command was answered and no frame is under way, the server knows  *)
(* what the accessory does without having been told, unless something      *)
(* happened that only a reading can tell (api_ble_command, publish_ble).   *)
THEOREM ReflectionIsTrue == AccessorySpec => []ReflectedIsHeld
<1>1. AccessoryInv => ReflectedIsHeld
  BY DEF AccessoryInv, Agrees, ReflectedIsHeld, Settles, UnderWay
<1>2. QED BY <1>1, AccessoryInvInit, AccessoryStep, PTL DEF AccessorySpec
=============================================================================

-------------------------------- MODULE Proxy --------------------------------
(***************************************************************************)
(* Proxy mode's HTTP half (http/middleware/proxy.py, http/proxy.py): every *)
(* request of a device is answered by the local handler first, then        *)
(* forwarded to the real cloud, and one of the two answers is served.      *)
(*                                                                         *)
(* One device.  A request is a coroutine; what runs between two of its     *)
(* awaits is one action.  It waits for its body (`arrived'), for Home      *)
(* Assistant to be told of a signup (`signup'), for DNS (`dns'), for the   *)
(* cloud (`sent') and for the database (`storing').  The device waits for  *)
(* one answer at a time, but may give up and ask again while its request   *)
(* goes on.                                                                *)
(*                                                                         *)
(* Replies are what the properties tell apart: the secret they carry,      *)
(* whether the device can act on them, and whether a rule struck them.     *)
(* What redaction leaves of a body is Redact.  Outside the repository: the *)
(* device, DNS and the cloud, which refuses (error 704, status 200) what   *)
(* is not signed with its own secret, except a signup.                     *)
(***************************************************************************)
EXTENDS Integers, FiniteSets

CONSTANTS
    Requests,       \* requests that may be in flight at once
    Commands,       \* commands for the device, each queued once
    Secrets,        \* secrets the cloud may have for the device
    Minted,         \* the secret the add-on made up
    NoSecret, NoRequest,
    Threshold,      \* BREAKER_THRESHOLD
    MaxIncidents      \* failures, refusals, give-ups, removals, settings and secrets replaced

ASSUME ProxyAssumption ==
    /\ Minted \notin Secrets /\ NoSecret \notin Secrets \cup {Minted}
    /\ NoRequest \notin Requests
    /\ Threshold \in Nat \ {0}
    /\ MaxIncidents \in Nat

(* dev_signup, dev_device_info, the heartbeat, dev_ble_device and          *)
(* dev_upload_file_info_v2; dev_serverinfo and the OTA and log endpoints   *)
(* are answered with our own body whatever the cloud says.                 *)
Endpoints == {"signup", "info", "heartbeat", "accessories", "upload"}
Known     == Secrets \cup {Minted}

VARIABLES
    proxy, guard, dns,      \* proxy_mode, proxy_block_log_upload, proxy_dns
    only,                   \* endpoints proxy_only selects; all of them when it is empty
    incidents,
    cloudUp, cloudSecret,
    enrolled, gen,        \* the device's registry entry, and which object it is
    secret,                 \* its signing_secret
    queue,                  \* its command_queue
    issued, dropped,         \* commands ever queued; those deleted with the device
    fails, paused,          \* the breaker: failures in a row, and whether it is open
    session, built,         \* the client session in use, and the DNS it was built with
    req,                    \* per request, where it is and what it has
    waits, signs,           \* the request the device waits for; the secret it signs with
    served,                 \* how often a command was in an answer
    shown                   \* what the device was shown that it should not have been

liveVars   == <<proxy, guard, dns, only>>
outsideVars  == <<cloudUp, cloudSecret, incidents>>
deviceVars == <<enrolled, gen, secret, queue, issued, dropped>>
wireVars   == <<fails, paused, session, built>>
answerVars == <<req, waits, signs, served, shown>>
proxyVars  == <<liveVars, outsideVars, deviceVars, wireVars, answerVars>>

Idle == [pc |-> "idle", ep |-> "heartbeat", proxied |-> FALSE, signed |-> NoSecret, of |-> 0,
         own |-> NoSecret, cmds |-> {}, via |-> 0, reply |-> NoSecret, usable |-> FALSE]

ProxyTypeOK ==
    /\ proxy \in BOOLEAN /\ guard \in BOOLEAN /\ dns \in {"system", "named"}
    /\ only \in SUBSET Endpoints
    /\ incidents \in 0 .. MaxIncidents
    /\ cloudUp \in BOOLEAN /\ cloudSecret \in Secrets
    /\ enrolled \in BOOLEAN /\ gen \in Nat /\ secret \in Known
    /\ queue \in SUBSET Commands /\ issued \in SUBSET Commands /\ dropped \in SUBSET Commands
    /\ fails \in 0 .. Threshold /\ paused \in BOOLEAN
    /\ session \in Nat /\ built \in {"system", "named"}
    /\ req \in [Requests ->
          [pc : {"idle", "arrived", "signup", "dns", "sent", "storing"}, ep : Endpoints,
           proxied : BOOLEAN, signed : Known \cup {NoSecret}, of : Nat,
           own : Known \cup {NoSecret}, cmds : SUBSET Commands, via : Nat,
           reply : Known \cup {NoSecret}, usable : BOOLEAN]]
    /\ waits \in Requests \cup {NoRequest} /\ signs \in Known \cup {NoSecret}
    /\ served \in [Commands -> Nat]
    /\ shown \in SUBSET {"refusal", "accessories"}

ProxyInit ==
    /\ proxy \in BOOLEAN /\ guard = TRUE /\ dns = "system" /\ only = {}
    /\ incidents = 0
    /\ cloudUp = TRUE /\ cloudSecret \in Secrets
    /\ enrolled = FALSE /\ gen = 0 /\ secret = Minted
    /\ queue = {} /\ issued = {} /\ dropped = {}
    /\ fails = 0 /\ paused = FALSE /\ session = 0 /\ built = "system"
    /\ req = [r \in Requests |-> Idle]
    /\ waits = NoRequest /\ signs = NoSecret
    /\ served = [c \in Commands |-> 0]
    /\ shown = {}

Incident == incidents < MaxIncidents /\ incidents' = incidents + 1
At(r, pc) == req[r].pc = pc
-----------------------------------------------------------------------------
(* Answers.                                                                *)

(* The answer goes out: the device takes it if it is the one it waits for. *)
(* Ours it can always act on; the cloud's only if the reply was usable.    *)
Serve(r, from, sec, cmds, usable) ==
    /\ req' = [req EXCEPT ![r] = Idle]
    /\ waits' = IF waits = r THEN NoRequest ELSE waits
    /\ signs' = IF waits = r /\ sec # NoSecret THEN sec ELSE signs
    /\ served' = [c \in Commands |-> IF c \in cmds THEN served[c] + 1 ELSE served[c]]
    /\ shown' = shown \cup (IF usable THEN {} ELSE {"refusal"})
                      \cup (IF from = "cloud" THEN {req[r].ep} \cap {"accessories"} ELSE {})

ServeLocal(r) == Serve(r, "local", req[r].own, req[r].cmds, TRUE)

(* Faulty variant: whatever the cloud replied is passed on.                *)
ServeReplyUnread(r, sec, usable) ==
    IF req[r].ep = "accessories" THEN ServeLocal(r) ELSE Serve(r, "cloud", sec, {}, usable)

(* With the cloud's reply in hand: an endpoint of LOCAL_ONLY_ENDPOINTS, or *)
(* a reply the device could not act on, is answered locally all the same.  *)
ServeReply(r, sec, usable) ==
    IF req[r].ep = "accessories" \/ ~usable THEN ServeLocal(r)
    ELSE Serve(r, "cloud", sec, {}, usable)

(* Requests that are not forwarded: with proxy mode off, heartbeats that   *)
(* deliver commands, reports of uploads to us, unknown devices, endpoints  *)
(* that were not selected.                                                 *)
Withheld(r, cmds) ==
    \/ ~req[r].proxied
    \/ req[r].ep = "heartbeat" /\ cmds # {}
    \/ req[r].ep = "upload" /\ guard
    \/ ~enrolled
    \/ only # {} /\ req[r].ep \notin only

(* The local handler is done, with this answer.                            *)
Handled(r, own, cmds) ==
    IF Withheld(r, cmds)
    THEN Serve(r, "local", own, cmds, TRUE)
    ELSE /\ req' = [req EXCEPT ![r].pc = "dns", ![r].own = own, ![r].cmds = cmds, ![r].of = gen]
         /\ UNCHANGED <<waits, signs, served, shown>>
-----------------------------------------------------------------------------
(* A request.                                                              *)

Arrive(r, ep) ==
    /\ At(r, "idle") /\ waits = NoRequest
    /\ req' = [req EXCEPT ![r] = [Idle EXCEPT !.pc = "arrived", !.ep = ep,
                                              !.proxied = proxy, !.signed = signs]]
    /\ waits' = r
    /\ UNCHANGED <<liveVars, outsideVars, deviceVars, wireVars, signs, served, shown>>

(* handle_signup up to the announcement: the device is in the registry.    *)
SignsUp(r) ==
    /\ At(r, "arrived") /\ req[r].ep = "signup"
    /\ enrolled' = TRUE
    /\ gen' = IF enrolled THEN gen ELSE gen + 1
    /\ secret' = IF enrolled THEN secret ELSE Minted
    /\ req' = [req EXCEPT ![r].pc = "signup", ![r].of = gen',  ![r].own = secret']
    /\ UNCHANGED <<liveVars, outsideVars, wireVars, queue, issued, dropped, waits, signs, served, shown>>

(* ... and its answer, which hands out the secret of that moment.          *)
SignedUp(r) ==
    /\ At(r, "signup")
    /\ Handled(r, IF req[r].of = gen THEN secret ELSE req[r].own, {})
    /\ UNCHANGED <<liveVars, outsideVars, deviceVars, wireVars>>

(* The other handlers do not wait: a heartbeat takes the whole queue.      *)
RunsHandler(r) ==
    /\ At(r, "arrived") /\ req[r].ep # "signup"
    /\ IF req[r].ep = "heartbeat" /\ enrolled
       THEN Handled(r, NoSecret, queue) /\ queue' = {}
       ELSE /\ Handled(r, IF req[r].ep = "info" /\ enrolled THEN secret ELSE NoSecret, {})
            /\ UNCHANGED queue
    /\ UNCHANGED <<liveVars, outsideVars, wireVars, enrolled, gen, secret, issued, dropped>>

(* loops_back: the cloud's name resolves to this add-on.                   *)
LoopsBack(r) ==
    /\ At(r, "dns") /\ Incident
    /\ ServeLocal(r)
    /\ UNCHANGED <<liveVars, cloudUp, cloudSecret, deviceVars, wireVars>>

(* forward, up to its await: nothing while the breaker is open; a session  *)
(* built with another DNS setting is replaced and closed under whoever     *)
(* still uses it.                                                          *)
Forwards(r) ==
    /\ At(r, "dns")
    /\ IF paused
       THEN ServeLocal(r) /\ UNCHANGED <<session, built>>
       ELSE /\ session' = IF built = dns THEN session ELSE session + 1
            /\ built' = dns
            /\ req' = [req EXCEPT ![r].pc = "sent", ![r].via = session']
            /\ UNCHANGED <<waits, signs, served, shown>>
    /\ UNCHANGED <<liveVars, outsideVars, deviceVars, fails, paused>>

(* Faulty variant: the first secret is kept for good.                      *)
AdoptsOnce(r, sec) ==
    /\ secret' = IF sec # NoSecret /\ enrolled /\ req[r].of = gen /\ secret = Minted
                 THEN sec ELSE secret
    /\ UNCHANGED <<enrolled, gen, queue, issued, dropped>>

(* _remember_upstream_credentials: the device is the object the request    *)
(* resolved, in the registry or not any more.                              *)
Adopts(r, sec) ==
    /\ secret' = IF sec # NoSecret /\ enrolled /\ req[r].of = gen THEN sec ELSE secret
    /\ UNCHANGED <<enrolled, gen, queue, issued, dropped>>

(* The cloud's reply: it closes the breaker.  A reply that a rule struck   *)
(* is stored as a blocked attempt first.                                   *)
Reply(r, usable, struck) ==
    LET fit == usable /\ (req[r].ep = "signup" \/ req[r].signed = cloudSecret)
        sec == IF fit /\ req[r].ep \in {"signup", "info"} THEN cloudSecret ELSE NoSecret
    IN /\ At(r, "sent") /\ req[r].via = session /\ cloudUp
       /\ IF usable /\ ~struck THEN UNCHANGED incidents ELSE Incident
       /\ fails' = 0 /\ paused' = FALSE
       /\ IF struck
          THEN /\ req' = [req EXCEPT ![r].pc = "storing", ![r].reply = sec, ![r].usable = fit]
               /\ UNCHANGED <<deviceVars, waits, signs, served, shown>>
          ELSE Adopts(r, sec) /\ ServeReply(r, sec, fit)
       /\ UNCHANGED <<liveVars, cloudUp, cloudSecret, session, built>>

Stored(r) ==
    /\ At(r, "storing")
    /\ Adopts(r, req[r].reply) /\ ServeReply(r, req[r].reply, req[r].usable)
    /\ UNCHANGED <<liveVars, outsideVars, wireVars>>

(* _record_exchange swallows its failure, and nothing is adopted.          *)
StoreFails(r) ==
    /\ At(r, "storing") /\ Incident
    /\ ServeReply(r, req[r].reply, req[r].usable)
    /\ UNCHANGED <<liveVars, cloudUp, cloudSecret, deviceVars, wireVars>>

(* No reply: the cloud is down or slow, or the session was closed.         *)
NoReply(r) ==
    /\ At(r, "sent")
    /\ IF cloudUp /\ req[r].via = session THEN Incident ELSE UNCHANGED incidents
    /\ fails' = IF fails < Threshold THEN fails + 1 ELSE fails
    /\ paused' = (paused \/ fails' = Threshold)
    /\ ServeLocal(r)
    /\ UNCHANGED <<liveVars, cloudUp, cloudSecret, deviceVars, session, built>>

(* BREAKER_COOLDOWN has passed; the count stays.                           *)
BreakerExpires ==
    /\ paused /\ paused' = FALSE
    /\ UNCHANGED <<liveVars, outsideVars, deviceVars, fails, session, built, answerVars>>
-----------------------------------------------------------------------------
(* The world.                                                              *)

GiveUp ==
    /\ waits # NoRequest /\ Incident
    /\ waits' = NoRequest
    /\ UNCHANGED <<liveVars, cloudUp, cloudSecret, deviceVars, wireVars, req, signs, served, shown>>

QueueCommand(c) ==
    /\ enrolled /\ c \notin issued
    /\ queue' = queue \cup {c} /\ issued' = issued \cup {c}
    /\ UNCHANGED <<liveVars, outsideVars, enrolled, gen, secret, dropped, wireVars, answerVars>>

(* The panel deletes the device and what was queued for it.                *)
Unregistered ==
    /\ enrolled /\ Incident
    /\ enrolled' = FALSE /\ queue' = {} /\ dropped' = dropped \cup queue
    /\ UNCHANGED <<liveVars, cloudUp, cloudSecret, gen, secret, issued, wireVars, answerVars>>

Setting ==
    /\ Incident
    /\ \/ proxy' = ~proxy /\ UNCHANGED <<guard, dns, only>>
       \/ guard' = ~guard /\ UNCHANGED <<proxy, dns, only>>
       \/ dns' = (IF dns = "system" THEN "named" ELSE "system") /\ UNCHANGED <<proxy, guard, only>>
       \/ only' = (IF only = {} THEN {"info"} ELSE {}) /\ UNCHANGED <<proxy, guard, dns>>
    /\ UNCHANGED <<cloudUp, cloudSecret, deviceVars, wireVars, answerVars>>

CloudChanges ==
    /\ Incident
    /\ \/ cloudUp' = ~cloudUp /\ UNCHANGED cloudSecret
       \/ cloudSecret' \in Secrets \ {cloudSecret} /\ UNCHANGED cloudUp
    /\ UNCHANGED <<liveVars, deviceVars, wireVars, answerVars>>

RequestStep(r) ==
    \/ SignsUp(r) \/ SignedUp(r) \/ RunsHandler(r) \/ LoopsBack(r) \/ Forwards(r)
    \/ \E usable, struck \in BOOLEAN : Reply(r, usable, struck)
    \/ Stored(r) \/ StoreFails(r) \/ NoReply(r)

ProxyNext ==
    \/ \E r \in Requests : RequestStep(r) \/ \E ep \in Endpoints : Arrive(r, ep)
    \/ BreakerExpires \/ GiveUp \/ Unregistered \/ Setting \/ CloudChanges
    \/ \E c \in Commands : QueueCommand(c)

ProxySpec == ProxyInit /\ [][ProxyNext]_proxyVars

(* Requests get on: DNS and the cloud answer or time out.                  *)
ProxyFairness ==
    /\ \A r \in Requests : WF_proxyVars(RequestStep(r))
    /\ WF_proxyVars(BreakerExpires)
-----------------------------------------------------------------------------
(* Properties.                                                             *)

(* A command is in one place: the queue, one answer, or deleted with its   *)
(* device.  Building a heartbeat's answer takes it out of the queue for    *)
(* good, so no other answer may be served then (carries_commands).         *)
CommandsServed ==
    \A c \in issued :
        LET inFlight == Cardinality({r \in Requests : c \in req[r].cmds})
        IN (IF c \in queue THEN 1 ELSE 0) + (IF c \in dropped THEN 1 ELSE 0)
              + served[c] + inFlight = 1

(* No answer that goes out is made from a reply the device cannot act on,  *)
(* a refusal or an unusable one, however long it was kept to be stored     *)
(* first; nor is it the cloud's list of accessories (proxy_middleware, 4). *)
AnswersFit == shown = {}

(* Both of these, of every answer that goes out.                           *)
AnswersRight == CommandsServed /\ AnswersFit

(* A device that keeps signing up while the cloud can be reached ends up   *)
(* signing with the cloud's secret, and the add-on hands out no other:     *)
(* whatever was refused, timed out, given up or deleted on the way         *)
(* (_remember_upstream_credentials, Device.signing_secret, the breaker).   *)
SecretSettles ==
    /\ <>[](proxy /\ cloudUp /\ enrolled /\ only = {})
    /\ []<>(\E r \in Requests : waits = r /\ req[r].ep = "signup")
    => <>[](signs = cloudSecret /\ secret = cloudSecret)
=============================================================================

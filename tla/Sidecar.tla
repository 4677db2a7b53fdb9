------------------------------ MODULE Sidecar ------------------------------
(***************************************************************************)
(* The camera sidecar (media/go2rtc.py): a child process that republishes  *)
(* the streams of patched cameras, supervised against what a probe of each *)
(* device found.                                                           *)
(*                                                                         *)
(* One task does everything; what runs between two of its awaits is one    *)
(* action.  It waits in its sleep, in a probe of one device, for a child   *)
(* it killed, for the configuration to be written, and for a child to be   *)
(* spawned.  A cancellation reaches it in any of those.                    *)
(*                                                                         *)
(* Outside the repository: go2rtc, which holds the one connection of each  *)
(* device somebody watches and may exit by itself, and tserver on the      *)
(* device, which refuses a second connection.  A verdict's time to live is *)
(* a flag that an action clears; the address a stream is served from is    *)
(* part of whether the device serves.                                      *)
(***************************************************************************)
EXTENDS Integers, FiniteSets

CONSTANTS
    Cameras,         \* camera devices of the registry
    NoCamera,        \* "no probe is out"
    Children,        \* child processes: two are enough to tell one from its successor
    NoChild,         \* Go2rtc._proc is None
    MaxChanges       \* cameras starting or ceasing to serve, viewers coming, children exiting

ASSUME SidecarAssumption ==
    /\ NoCamera \notin Cameras /\ NoChild \notin Children
    /\ MaxChanges \in Nat

VARIABLES
    serving,         \* cameras whose tserver answers with a stream
    viewers,         \* streams somebody watches through go2rtc
    changes,
    verdict,         \* state["streamAvailable"], per camera
    fresh,           \* cameras with a verdict younger than PROBE_TTL_SECONDS
    sidePc,          \* where supervise() waits
    todo,            \* cameras this sweep has still to probe
    asked,           \* the camera a probe is out to
    alive,           \* children the kernel runs
    proc,            \* Go2rtc._proc
    planned,         \* the configuration reconcile() is bringing up
    rendered         \* Go2rtc._rendered, as the streams it names; {} for ""

sideEnv  == <<serving, viewers, changes>>
sideTask == <<verdict, fresh, sidePc, todo, asked, proc, planned, rendered>>
sideVars == <<sideEnv, sideTask, alive>>

SideTypeOK ==
    /\ serving \in SUBSET Cameras /\ viewers \in SUBSET Cameras
    /\ changes \in 0 .. MaxChanges
    /\ verdict \in SUBSET Cameras /\ fresh \in SUBSET Cameras
    /\ sidePc \in {"sleep", "asking", "probe", "reap", "swap", "write", "spawn", "ended"}
    /\ todo \in SUBSET Cameras /\ asked \in Cameras \cup {NoCamera}
    /\ alive \in SUBSET Children /\ proc \in Children \cup {NoChild}
    /\ planned \in SUBSET Cameras /\ rendered \in SUBSET Cameras

SideInit ==
    /\ serving \in SUBSET Cameras /\ viewers = {} /\ changes = 0
    /\ verdict = {} /\ fresh = {}              \* `state' does not survive a restart
    /\ sidePc = "sleep" /\ todo = {} /\ asked = NoCamera
    /\ alive = {} /\ proc = NoChild /\ planned = {} /\ rendered = {}
-----------------------------------------------------------------------------
Running == proc \in alive                     \* our child has no return code

(* stop(), up to the await that reaps the child.                           *)
Kill(next) ==
    /\ proc' = NoChild /\ rendered' = {}
    /\ alive' = alive \ {proc}
    /\ viewers' = IF Running THEN {} ELSE viewers
    /\ sidePc' = next

(* reconcile(), given the verdicts: stop a child nothing needs, leave one  *)
(* that serves what it should, replace one that does not, start one where  *)
(* there is none.                                                          *)
Reconcile(streams) ==
    \/ /\ streams = {}
       /\ Kill(IF Running THEN "reap" ELSE "sleep")
       /\ UNCHANGED planned
    \/ /\ streams # {} /\ Running /\ rendered = streams
       /\ sidePc' = "sleep"
       /\ UNCHANGED <<viewers, proc, planned, rendered, alive>>
    \/ /\ streams # {} /\ Running /\ rendered # streams
       /\ planned' = streams
       /\ Kill("swap")
    \/ /\ streams # {} /\ ~Running
       /\ planned' = streams /\ sidePc' = "write"
       /\ UNCHANGED <<viewers, proc, rendered, alive>>

(* What refresh_probes and reconcile do without waiting: ask the next      *)
(* camera whose verdict is due, or else act on the verdicts.               *)
GoOn(due, streams) ==
    \/ \E c \in due :
          /\ sidePc' = "probe" /\ asked' = c /\ todo' = due \ {c}
          /\ UNCHANGED <<viewers, proc, planned, rendered, alive>>
    \/ /\ due = {} /\ asked' = NoCamera /\ todo' = {}
       /\ Reconcile(streams)

(* The sleep is over: with a child running, go2rtc is asked who watches.   *)
SweepBegins ==
    /\ sidePc = "sleep"
    /\ IF Running THEN /\ sidePc' = "asking"
                       /\ UNCHANGED <<viewers, todo, asked, proc, planned, rendered, alive>>
                  ELSE GoOn(Cameras \ fresh, verdict)
    /\ UNCHANGED <<serving, changes, verdict, fresh>>

(* Faulty variant: a stream of a running child counts as watched.          *)
WatchersKnownByChild ==
    /\ sidePc = "asking"
    /\ GoOn((Cameras \ rendered) \ fresh, verdict)
    /\ UNCHANGED <<serving, changes, verdict, fresh>>

(* _watched_streams: those cameras are left alone.                         *)
WatchersKnown ==
    /\ sidePc = "asking"
    /\ GoOn((Cameras \ viewers) \ fresh, verdict)
    /\ UNCHANGED <<serving, changes, verdict, fresh>>

(* go2rtc does not say: every stream it has counts as watched.             *)
WatchersUnknown ==
    /\ sidePc = "asking" /\ changes < MaxChanges
    /\ changes' = changes + 1
    /\ GoOn((Cameras \ verdict) \ fresh, verdict)
    /\ UNCHANGED <<serving, verdict, fresh>>

(* probe_stream answers whether the stream's signature came back; on a     *)
(* connection that a viewer holds it does not.                             *)
ProbeEnds ==
    LET now == IF asked \in serving \ viewers THEN verdict \cup {asked} ELSE verdict \ {asked}
    IN /\ sidePc = "probe"
       /\ verdict' = now
       /\ fresh' = fresh \cup {asked}
       /\ GoOn(todo, now)
       /\ UNCHANGED <<serving, changes>>

(* The killed child was reaped (or ten seconds passed) and the change is   *)
(* announced; then the configuration is written where one is planned.      *)
Reaped ==
    /\ sidePc \in {"reap", "swap"}
    /\ sidePc' = IF sidePc = "reap" THEN "sleep" ELSE "write"
    /\ UNCHANGED <<sideEnv, verdict, fresh, todo, asked, proc, planned, rendered, alive>>

Written ==
    /\ sidePc = "write"
    /\ rendered' = planned /\ sidePc' = "spawn"
    /\ UNCHANGED <<sideEnv, verdict, fresh, todo, asked, proc, planned, alive>>

(* _start(): the child runs, or the binary could not be started.           *)
Spawned ==
    /\ sidePc = "spawn"
    /\ \E k \in Children \ (alive \cup {proc}) : alive' = alive \cup {k} /\ proc' = k
    /\ sidePc' = "sleep"
    /\ UNCHANGED <<sideEnv, verdict, fresh, todo, asked, planned, rendered>>

SpawnFailed ==
    /\ sidePc = "spawn" /\ changes < MaxChanges
    /\ proc' = NoChild /\ changes' = changes + 1
    /\ sidePc' = "sleep"
    /\ UNCHANGED <<serving, viewers, verdict, fresh, todo, asked, planned, rendered, alive>>

(* supervise() is cancelled: its handler takes the child down.  A child    *)
(* being spawned is closed by the subprocess transport.                    *)
SideCancel ==
    /\ sidePc # "ended"
    /\ Kill("ended")
    /\ asked' = NoCamera
    /\ UNCHANGED <<serving, changes, verdict, fresh, todo, planned>>
-----------------------------------------------------------------------------
(* The world: cameras, viewers, the clock and the child.                   *)

CameraChanges(c) ==
    /\ changes < MaxChanges /\ changes' = changes + 1
    /\ serving' = IF c \in serving THEN serving \ {c} ELSE serving \cup {c}
    /\ UNCHANGED <<viewers, sideTask, alive>>

ViewerComes(c) ==
    /\ changes < MaxChanges /\ changes' = changes + 1
    /\ Running /\ c \in rendered /\ c \in serving
    /\ c # asked                         \* tserver has one connection
    /\ viewers' = viewers \cup {c}
    /\ UNCHANGED <<serving, sideTask, alive>>

ViewerLeaves(c) ==
    /\ c \in viewers
    /\ viewers' = viewers \ {c}
    /\ UNCHANGED <<serving, changes, sideTask, alive>>

VerdictExpires(c) ==
    /\ c \in fresh
    /\ fresh' = fresh \ {c}
    /\ UNCHANGED <<sideEnv, verdict, sidePc, todo, asked, proc, planned, rendered, alive>>

ChildExits ==
    /\ changes < MaxChanges /\ changes' = changes + 1
    /\ Running /\ alive' = alive \ {proc} /\ viewers' = {}
    /\ UNCHANGED <<serving, sideTask>>

SideStep == SweepBegins \/ WatchersKnown \/ ProbeEnds \/ Reaped \/ Written \/ Spawned

SideNext ==
    \/ SideStep \/ WatchersUnknown \/ SpawnFailed \/ ChildExits \/ SideCancel
    \/ \E c \in Cameras : CameraChanges(c) \/ ViewerComes(c) \/ ViewerLeaves(c) \/ VerdictExpires(c)

SideSpec == SideInit /\ [][SideNext]_sideVars

(* The loop always gets on, and a verdict's time to live passes.           *)
SideFairness ==
    /\ WF_sideVars(SideStep)
    /\ \A c \in Cameras : WF_sideVars(VerdictExpires(c))
-----------------------------------------------------------------------------
(* Properties.                                                             *)

(* At most one child runs and it is the one _proc names, so that whoever   *)
(* stops the supervisor stops it; none outlives supervise(); and nobody is *)
(* left watching a child that is gone (stop, reconcile, _start).           *)
ChildOwned ==
    /\ alive \subseteq {proc}
    /\ sidePc = "ended" => alive = {}
    /\ viewers # {} => Running /\ viewers \subseteq rendered

(* While the loop is between two sweeps, a child that runs offers exactly  *)
(* the cameras whose last probe answered (reconcile, desired_streams).     *)
OffersWhatAnswered == sidePc \in {"sleep", "asking"} /\ Running => rendered = verdict

(* What is advertised follows what cameras serve, both ways: a running     *)
(* child does not keep its cameras from being probed, and one that exited  *)
(* is replaced (_watched_streams, reconcile).                              *)
VerdictCatchesUp ==
    \A c \in Cameras : <>[](c \notin viewers) =>
        /\ <>[](c \notin serving) => <>[](c \notin verdict \/ sidePc = "ended")
        /\ <>[](c \in serving)    => <>[]((Running /\ c \in rendered) \/ sidePc = "ended")
=============================================================================

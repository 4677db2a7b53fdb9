------------------------------ MODULE Timeline ------------------------------
(***************************************************************************)
(* From reports to the cards of the Timeline: events/normalize.py turns a  *)
(* report into a row, events/store.py keeps one row per episode and code   *)
(* (a repeated report takes the row's place, with a new time), and         *)
(* events/sessions.py groups a day's rows into cards whenever the panel    *)
(* asks.                                                                   *)
(***************************************************************************)
EXTENDS Naturals, FiniteSets, Sequences, Codes

CONSTANTS
    Stories,        \* sets of reports, [dev, category, code, rel, parent]
    NoEpisode,      \* a report without an event id, or without a parent
    VisitWindow,    \* SUB_EVENT_WINDOW_SEC
    TailWindow,     \* CYCLE_TAIL_WINDOW_SEC
    MaxTime, MaxRows,
    MaxFilmed       \* episodes with media

(* What the grouping takes for granted of a device: an episode is one      *)
(* device's, follows one other episode at most (_episode_parents: "one     *)
(* member establishes it"), and is a visit or something else.              *)
Told(st) ==
    \A r, s \in st : r.rel = s.rel /\ r.rel # NoEpisode =>
        /\ r.dev = s.dev
        /\ {r.parent, s.parent} \cap {NoEpisode, r.rel} = {} => r.parent = s.parent
        /\ r.code \in VisitSummaryCodes /\ s.code \in AnchorCodes => s.code \in VisitSummaryCodes

ASSUME TimelineAssumption ==
    /\ MaxTime \in Nat /\ MaxRows \in Nat
    /\ \A st \in Stories : Told(st)
    /\ VisitSummaryCodes \subseteq AnchorCodes

VARIABLES
    story,          \* the reports this run may see
    clock,
    rows,           \* the events table: reports with their id, time, kind and detail flag
    filmed          \* episodes with media

timelineVars == <<story, clock, rows, filmed>>

TimelineTypeOK ==
    /\ story \in Stories
    /\ clock \in 0 .. MaxTime
    /\ rows \in SUBSET [dev : {r.dev : r \in story}, category : {r.category : r \in story}, code : {r.code : r \in story},
                        rel : {r.rel : r \in story} \cup {NoEpisode}, parent : {r.parent : r \in story},
                        id : 1 .. MaxRows, ts : 0 .. MaxTime]
    /\ filmed \subseteq {r.rel : r \in story}

TimelineInit ==
    /\ story \in Stories
    /\ clock = 0 /\ rows = {} /\ filmed = {}
-----------------------------------------------------------------------------
CodeOf(r) == Lookup(r.code, r.category)

(* The row an earlier report of the same episode and code left.            *)
SameReport(r, row) == r.rel # NoEpisode /\ row.rel = r.rel /\ row.code = r.code

RowStored(r) ==
    LET id(n) == [dev |-> r.dev, category |-> r.category, code |-> r.code, rel |-> r.rel,
                  parent |-> r.parent, id |-> n, ts |-> clock]
    IN \/ \E row \in rows :
            /\ SameReport(r, row)
            /\ rows' = (rows \ {row}) \cup {id(row.id)}
       \/ /\ ~\E row \in rows : SameReport(r, row)
          /\ \E n \in 1 .. MaxRows :
                /\ {row.id : row \in rows} \subseteq 1 .. n - 1 /\ (n > 1 => \E row \in rows : row.id = n - 1)
                /\ rows' = rows \cup {id(n)}

(* dev_event_report and thing/event: the row, then what follows from it.   *)
Reported(r) ==
    /\ r.code \notin TransportTopics
    /\ RowStored(r)
    /\ UNCHANGED <<story, clock, filmed>>

TimePasses == clock < MaxTime /\ clock' = clock + 1 /\ UNCHANGED <<story, rows, filmed>>

MediaReady(ep) ==
    /\ ep # NoEpisode /\ filmed' = filmed \cup {ep} /\ Cardinality(filmed') <= MaxFilmed
    /\ UNCHANGED <<story, clock, rows>>

(* The retention sweep.                                                    *)
Pruned(before) ==
    /\ rows' = {row \in rows : row.ts >= before}
    /\ UNCHANGED <<story, clock, filmed>>

TimelineNext ==
    \/ \E r \in story : Reported(r) \/ MediaReady(r.rel)
    \/ TimePasses
    \/ \E before \in 1 .. MaxTime : Pruned(before)

TimelineSpec == TimelineInit /\ [][TimelineNext]_timelineVars
-----------------------------------------------------------------------------
(* A page is what the query returns: the rows of a day (or of a device),  *)
(* newest first.  Rows are named by their place.                           *)
Sorted(some, Before(_, _)) ==
    [i \in 1 .. Cardinality(some) |->
        CHOOSE r \in some : Cardinality({s \in some : Before(s, r)}) = i - 1]

Newest(r, s) == r.ts > s.ts \/ (r.ts = s.ts /\ r.id < s.id)
Oldest(r, s) == r.ts < s.ts \/ (r.ts = s.ts /\ r.id > s.id)
AsStored(r, s) == r.id < s.id

Page == Sorted(rows, Newest)

Kind(p, i) == CodeOf(p[i]).kind
Sooner(p, i, j) == p[i].ts < p[j].ts \/ (p[i].ts = p[j].ts /\ i < j)
Soonest(p, S) == CHOOSE i \in S : \A j \in S \ {i} : Sooner(p, i, j)
Latest(p, S) == CHOOSE i \in S : \A j \in S \ {i} : Sooner(p, j, i)
First(S) == CHOOSE i \in S : \A j \in S : i <= j

(* The first of a sorted group that has one of the codes, or else other.   *)
FirstWith(p, S, codes, other) ==
    LET having == {i \in S : p[i].code \in codes}
    IN IF having # {} THEN Soonest(p, having) ELSE other

Anchors(p) ==
    {i \in DOMAIN p : \/ Kind(p, i) \in {"toilet_visit", "feeding", "drinking"}
                      \/ Kind(p, i) \in {"pet", "motion", "error"} /\ ~CodeOf(p[i]).detail}

Episode(p, rel) == {i \in Anchors(p) : p[i].rel = rel}

HeadByArrival(p, rel) == Latest(p, Episode(p, rel))
HeadOf(p, rel) == FirstWith(p, Episode(p, rel), AnchorCodes, Latest(p, Episode(p, rel)))

IsVisit(p, h) ==
    IF p[h].rel = NoEpisode THEN Kind(p, h) = "toilet_visit"
    ELSE \E i \in Episode(p, p[h].rel) : Kind(p, i) = "toilet_visit"

(* The rows of two maps, the first of which has the say.                   *)
Joined(f, g) == [i \in DOMAIN f \cup DOMAIN g |-> IF i \in DOMAIN f THEN f[i] ELSE g[i]]

(* of says on which card a row is, by the card's head.  Every pass adds to *)
(* it for rows that are on none yet.                                       *)
EpisodeCards(p) ==
    [i \in {j \in Anchors(p) : p[j].rel # NoEpisode \/ Kind(p, j) = "toilet_visit"} |->
        IF p[i].rel = NoEpisode THEN i ELSE HeadOf(p, p[i].rel)]

Left(p, of, kinds) == {i \in DOMAIN p \ DOMAIN of : Kind(p, i) \in kinds}
Heads(of) == {h \in DOMAIN of : of[h] = h}

(* One row that names its parent does so for its whole episode.            *)
ParentByRow(p, i) == p[i].parent
ParentOf(p, i) ==
    LET named == {j \in DOMAIN p : /\ p[j].rel = p[i].rel /\ p[i].rel # NoEpisode
                                   /\ p[j].parent \notin {NoEpisode, p[j].rel}}
    IN IF named # {} THEN p[First(named)].parent ELSE p[i].parent

Linked(p, of) ==
    LET cards(i) == {h \in Heads(of) : /\ ParentOf(p, i) # NoEpisode
                                       /\ p[h].rel = ParentOf(p, i) /\ p[h].dev = p[i].dev}
    IN Joined([i \in {j \in Left(p, of, {"cleaning", "pet", "motion", "error"}) : cards(j) # {}} |->
                  First(cards(i))], of)

(* Where a card stands among the cards: as its first row was found, the    *)
(* visits without an episode last.                                         *)
Place(p, h) == IF p[h].rel = NoEpisode THEN Len(p) + h ELSE First({i \in DOMAIN p : p[i].rel = p[h].rel})
Gap(p, i, h) == IF p[i].ts > p[h].ts THEN p[i].ts - p[h].ts ELSE p[h].ts - p[i].ts
Nearest(p, i, cards) ==
    CHOOSE h \in cards : \A g \in cards :
        Gap(p, i, h) < Gap(p, i, g) \/ (Gap(p, i, h) = Gap(p, i, g) /\ Place(p, h) <= Place(p, g))

Nearby(p, of) ==
    LET cards(i) == {h \in Heads(of) : /\ IsVisit(p, h) /\ p[h].dev = p[i].dev
                                       /\ p[h].ts <= p[i].ts /\ Gap(p, i, h) <= VisitWindow}
    IN Joined([i \in {j \in Left(p, of, {"cleaning"}) : cards(j) # {}} |-> Nearest(p, i, cards(i))], of)

(* A cycle no visit claimed: a card if its completion is among what is left. *)
Orphans(p, of) ==
    LET cycle(i) == {j \in Left(p, of, {"cleaning"}) : p[j].rel = p[i].rel}
        done(i) == {j \in cycle(i) : p[j].code \in PrimaryDoneCodes}
    IN Joined([i \in {j \in Left(p, of, {"cleaning"}) : p[j].rel # NoEpisode /\ done(j) # {}} |->
                  Soonest(p, done(i))], of)

TailCards(p, of, i) ==
    {h \in Heads(of) : /\ Kind(p, h) = "cleaning" /\ p[h].dev = p[i].dev
                       /\ p[h].rel # p[i].rel /\ Gap(p, i, h) <= TailWindow}
Tails(p, of) ==
    LET tails == {j \in Left(p, of, {"cleaning"}) : TailCards(p, of, j) # {}}
    IN Joined([i \in tails |-> Nearest(p, i, TailCards(p, of, i))], of)

(* What is on no card is one by itself.                                    *)
Standalone(p, of) == Joined(of, [i \in DOMAIN p |-> i])

Claimed(p) == Orphans(p, Nearby(p, Linked(p, EpisodeCards(p))))
Grouped(p) == Standalone(p, Tails(p, Claimed(p)))


(* Which rows show their episode's media: heads their own, and one line of *)
(* every other episode on the card, the completion if it is there.         *)
Carrier(p, lines) == FirstWith(p, lines, PrimaryDoneCodes, Latest(p, lines))

LinesOf(p, of, h, rel) == {i \in DOMAIN p : of[i] = h /\ i # h /\ p[i].rel = rel}
Showing(p, of) ==
    Heads(of) \cup
    {Carrier(p, LinesOf(p, of, of[i], p[i].rel)) :
        i \in {j \in DOMAIN p : p[j].rel \notin {NoEpisode, p[of[j]].rel}}}
-----------------------------------------------------------------------------
(* A follow-up the device linked is on the card of the episode it named,   *)
(* whatever order the two came in and however often either was repeated,   *)
(* and so are the other steps of its cycle.  A visit's card is headed by   *)
(* the visit's summary once that is known, and no completion that has a    *)
(* card of its own is folded under another's.                              *)
FollowUpsFound ==
    LET p == Page
        of == Grouped(p)
        linked(i) == /\ Kind(p, i) \in {"cleaning", "pet", "motion", "error"}
                     /\ i \notin Anchors(p) /\ p[i].rel # NoEpisode
    IN \A i, j \in DOMAIN p :
        /\ linked(i) /\ j \in Anchors(p) /\ p[j].rel # NoEpisode /\ p[i].dev = p[j].dev
           /\ (\E k \in DOMAIN p : p[k].rel = p[i].rel /\ p[k].parent = p[j].rel /\ p[k].parent # p[k].rel)
           => of[i] = of[j]
        /\ p[j].code \in VisitSummaryCodes /\ p[i].rel = p[j].rel /\ {i, j} \subseteq Anchors(p) /\ p[i].rel # NoEpisode
           => p[of[i]].code \in VisitSummaryCodes

(* What was recorded is never out of reach, nor shown twice on a card: a   *)
(* card that has rows of an episode with media shows it on one of them.    *)
MediaShown ==
    LET p == Page
        of == Grouped(p)
        showing == Showing(p, of)
    IN \A i \in DOMAIN p :
        p[i].rel \in filmed =>
            Cardinality({s \in showing : p[s].rel = p[i].rel /\ of[s] = of[i]}) = 1

(* The cards do not depend on the order the rows are read in, as long as   *)
(* no two came at one time and no tail is as far from one cycle as from    *)
(* another.                                                                *)
ById(p) == LET of == Grouped(p) IN {<<p[i].id, p[of[i]].id>> : i \in DOMAIN p}

Undecided(p) ==
    LET of == Claimed(p)
    IN \E i \in Left(p, of, {"cleaning"}) : \E g, h \in TailCards(p, of, i) : g # h /\ Gap(p, i, g) = Gap(p, i, h)

OrderFree ==
    (\A r, s \in rows : r.ts = s.ts => r = s) /\ ~Undecided(Page) =>
        /\ ById(Page) = ById(Sorted(rows, Oldest))
        /\ ById(Page) = ById(Sorted(rows, AsStored))

(* What a person finds on the Timeline (group_sessions).                   *)
CardsRight == FollowUpsFound /\ MediaShown /\ OrderFree
=============================================================================

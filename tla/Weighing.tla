------------------------------ MODULE Weighing ------------------------------
(***************************************************************************)
(* Whose visit was it?  A litter box weighs its visitor; an optional tool  *)
(* on the box sends a settled weight minutes later (ai/weigh_recalc.py);   *)
(* face recognition names some visits; and Insights and the Timeline guess *)
(* the others from the weights the owner entered (ai/weight.py).  Weights  *)
(* are grams, multiples of 100, so that a median halves exactly.           *)
(***************************************************************************)
EXTENDS Integers, FiniteSets

CONSTANTS
    Animals,            \* pets: ids, positive integers
    Plans,              \* what may come to pass: see PlanOK
    AbsFloor, RelTolerance, MinCorroborating,   \* ABS_FLOOR_G, REL_TOLERANCE in %, MIN_CORROBORATING_SAMPLES
    OutlierMultiple, OutlierFloor, MinToTrim,   \* OUTLIER_MAD_MULTIPLE, OUTLIER_FLOOR_G, MIN_SAMPLES_TO_TRIM
    MatchWindow, MaxValueDelta,                 \* MATCH_WINDOW_SEC in ticks, MAX_VALUE_DELTA_G
    MaxPushLag,         \* POST_MAX_WAIT_SEC of the tool, in ticks
    MaxWeighTime

ASSUME WeighingAssumption ==
    /\ IsFiniteSet(Animals) /\ Animals \subseteq Nat \ {0}
    /\ AbsFloor \in Nat /\ RelTolerance \in Nat /\ MinCorroborating \in Nat /\ MinCorroborating >= 3
    /\ MaxValueDelta \in Nat /\ MaxWeighTime \in Nat

VARIABLES
    plan,       \* the visits, and the household
    weighClock,
    leftAt,     \* visit -> when the pet left, 0 before
    visitRow,   \* visit -> its closing report in the events table (the pet that row names
                \* included), and the pet that a step of its episode names (seen)
    pushed,     \* visits the tool has sent its weight of
    entered     \* pet -> the weight in its row, 0 for none

weighingVars == <<plan, weighClock, leftAt, visitRow, pushed, entered>>

NoRow == [ts |-> 0, weight |-> 0, recalc |-> 0, pet |-> 0, seen |-> 0]

(* A plan has the visits of a while, with what the box and the tool make   *)
(* of each; the boxes a pet is assigned to; and the weights of each pet's  *)
(* earlier visits that a face confirmed, by visit.                         *)
PlanOK(p) ==
    /\ IsFiniteSet(DOMAIN p.visits)
    /\ \A v \in DOMAIN p.visits : p.visits[v] \in [cat : Animals, box : Nat, box_g : Nat, settled_g : Nat]
    /\ DOMAIN p.boxes = Animals /\ DOMAIN p.earlier = Animals /\ DOMAIN p.weights = Animals
    /\ \A a \in Animals : /\ p.weights[a] \subseteq Nat
                          /\ IsFiniteSet(DOMAIN p.earlier[a]) /\ DOMAIN p.earlier[a] \cap DOMAIN p.visits = {}
                          /\ \A v \in DOMAIN p.earlier[a] : p.earlier[a][v] \in Nat

Visits == DOMAIN plan.visits

WeighingTypeOK ==
    /\ plan \in Plans /\ PlanOK(plan)
    /\ weighClock \in 1 .. MaxWeighTime
    /\ leftAt \in [Visits -> 0 .. MaxWeighTime]
    /\ visitRow \in [Visits -> [ts : 0 .. MaxWeighTime, weight : Nat, recalc : Nat,
                                pet : Animals \cup {0}, seen : Animals \cup {0}]]
    /\ pushed \subseteq Visits
    /\ entered \in [Animals -> Nat]

WeighingInit ==
    /\ plan \in Plans /\ PlanOK(plan)
    /\ weighClock = 1
    /\ leftAt = [v \in Visits |-> 0]
    /\ visitRow = [v \in Visits |-> NoRow]
    /\ pushed = {}
    /\ entered = [p \in Animals |-> 0]
-----------------------------------------------------------------------------
(* The pure part: bands, medians, profiles, guesses.                       *)

Larger(a, b) == IF a > b THEN a ELSE b
Distance(a, b) == IF a > b THEN a - b ELSE b - a

InBand(x, w) == Distance(x, w) <= Larger(AbsFloor, (RelTolerance * w) \div 100)

(* The k-th smallest of the values at D: fewer than k are below it, and no *)
(* more than the others above.                                             *)
Nth(s, D, k) ==
    CHOOSE x \in {s[i] : i \in D} :
        Cardinality({i \in D : s[i] < x}) < k /\ k <= Cardinality({i \in D : s[i] <= x})

Median(s, D) ==
    LET half == Cardinality(D) \div 2
    IN IF Cardinality(D) % 2 = 1 THEN Nth(s, D, half + 1)
       ELSE (Nth(s, D, half) + Nth(s, D, half + 1)) \div 2

(* Median of the sample without what lies far outside it, unless that is   *)
(* most of it.                                                             *)
WeightStats(s) ==
    LET all    == DOMAIN s
        middle == Median(s, all)
        mad    == Median([i \in all |-> Distance(s[i], middle)], all)
        near   == {i \in all : Distance(s[i], middle) <= Larger(OutlierFloor, OutlierMultiple * mad)}
    IN IF Cardinality(all) >= MinToTrim /\ Cardinality(near) >= Larger(3, Cardinality(all) \div 2)
       THEN Median(s, near) ELSE middle

Corroborated(w, s) == Cardinality(DOMAIN s) >= MinCorroborating /\ InBand(WeightStats(s), w)

VisitWeight(row) == IF row.recalc # 0 THEN row.recalc ELSE row.weight

(* The confirmed weights of a pet, of the visits of a query (vs) and of    *)
(* the earlier ones if it reaches that far, by visit.                      *)
ConfirmedWeights(p, vs, earlier) ==
    LET named == {v \in vs : visitRow[v].ts # 0 /\ visitRow[v].pet = p}
        past  == IF earlier THEN DOMAIN plan.earlier[p] ELSE {}
    IN [v \in named \cup past |-> IF v \in named THEN VisitWeight(visitRow[v]) ELSE plan.earlier[p][v]]

BuildProfiles(vs, earlier) ==
    {[pet |-> p, weight |-> entered[p], boxes |-> plan.boxes[p],
      corroborated |-> Corroborated(entered[p], ConfirmedWeights(p, vs, earlier))] :
        p \in {q \in Animals : entered[q] # 0}}

(* The pets assigned to a box, or all of them when none is.                *)
ScopedProfiles(profiles, box) ==
    LET scoped == {f \in profiles : f.boxes = {} \/ box \in f.boxes}
    IN IF scoped = {} THEN profiles ELSE scoped

NoGuess == [pet |-> 0, basis |-> "none", grade |-> "none", rivals |-> {}]

\* A faulty variant: the closest weight wins.
AttributeNearest(x, profiles, box) ==
    LET candidates == {f \in ScopedProfiles(profiles, box) : InBand(x, f.weight)}
        nearest == CHOOSE f \in candidates : \A g \in candidates : Distance(x, f.weight) <= Distance(x, g.weight)
    IN IF candidates = {} THEN NoGuess
       ELSE [pet |-> nearest.pet, basis |-> "weight",
             grade |-> IF nearest.corroborated THEN "INFERRED" ELSE "UNVERIFIED", rivals |-> {}]

Attribute(x, profiles, box) ==
    LET candidates == {f \in ScopedProfiles(profiles, box) : InBand(x, f.weight)}
    IN IF x = 0 \/ candidates = {} THEN NoGuess
       ELSE IF Cardinality(candidates) > 1
            THEN [NoGuess EXCEPT !.grade = "CONFLICTED", !.rivals = {f.pet : f \in candidates}]
            ELSE LET winner == CHOOSE f \in candidates : TRUE
                 IN [pet |-> winner.pet, basis |-> "weight",
                     grade |-> IF winner.corroborated THEN "INFERRED" ELSE "UNVERIFIED", rivals |-> {}]

AttributeVisit(row, profiles, box) ==
    IF row.pet # 0 THEN [pet |-> row.pet, basis |-> "face", grade |-> "CONFIRMED", rivals |-> {}]
    ELSE Attribute(VisitWeight(row), profiles, box)
-----------------------------------------------------------------------------
Leave(v) ==
    /\ leftAt[v] = 0
    /\ leftAt' = [leftAt EXCEPT ![v] = weighClock]
    /\ UNCHANGED <<plan, weighClock, visitRow, pushed, entered>>

(* The box reports the visit, or repeats its report (store.upsert_event):  *)
(* the row's time and content are the report's again, so a weight merged   *)
(* into it is gone; a pet already linked stays.                            *)
ReportVisit(v) ==
    /\ leftAt[v] # 0
    /\ visitRow' = [visitRow EXCEPT ![v] = [@ EXCEPT !.ts = weighClock, !.weight = plan.visits[v].box_g, !.recalc = 0]]
    /\ UNCHANGED <<plan, weighClock, leftAt, pushed, entered>>

(* Recognition, here or by binding the device's name for the pet: of the   *)
(* closing report, or of a step of the visit's episode.                    *)
LinkFace(v) ==
    /\ \/ visitRow[v].ts # 0 /\ visitRow[v].pet = 0
          /\ visitRow' = [visitRow EXCEPT ![v].pet = plan.visits[v].cat]
       \/ visitRow[v].seen = 0
          /\ visitRow' = [visitRow EXCEPT ![v].seen = plan.visits[v].cat]
    /\ UNCHANGED <<plan, weighClock, leftAt, pushed, entered>>

(* The visits a settled weight may belong to: reported by the same box,    *)
(* close in time; of these the closest in weight, unless that is far.      *)
InWindow(v) ==
    {u \in Visits : /\ visitRow[u].ts # 0 /\ plan.visits[u].box = plan.visits[v].box
                    /\ visitRow[u].weight # 0 /\ Distance(visitRow[u].ts, weighClock) <= MatchWindow}

MatchVisit(v) ==
    LET off(u) == Distance(visitRow[u].weight, plan.visits[v].settled_g)
    IN {u \in InWindow(v) : off(u) <= MaxValueDelta /\ \A t \in InWindow(v) : off(u) <= off(t)}

MergeContent(u, grams) == visitRow' = [visitRow EXCEPT ![u].recalc = grams]

(* The tool sends a visit's settled weight, up to MaxPushLag after it; a   *)
(* weight that matches no visit is dropped.                                *)
PushRecalc(v) ==
    /\ leftAt[v] # 0 /\ plan.visits[v].settled_g # 0 /\ v \notin pushed
    /\ weighClock - leftAt[v] <= MaxPushLag
    /\ pushed' = pushed \cup {v}
    /\ \/ MatchVisit(v) = {} /\ UNCHANGED visitRow
       \/ \E u \in MatchVisit(v) : MergeContent(u, plan.visits[v].settled_g)
    /\ UNCHANGED <<plan, weighClock, leftAt, entered>>

EnterWeight(p) ==
    /\ \E w \in plan.weights[p] \cup {0} : entered' = [entered EXCEPT ![p] = w]
    /\ UNCHANGED <<plan, weighClock, leftAt, visitRow, pushed>>

WeighTick ==
    /\ weighClock < MaxWeighTime /\ weighClock' = weighClock + 1
    /\ UNCHANGED <<plan, leftAt, visitRow, pushed, entered>>

WeighingNext ==
    \/ \E v \in Visits : Leave(v) \/ ReportVisit(v) \/ LinkFace(v) \/ PushRecalc(v)
    \/ \E p \in Animals : EnterWeight(p)
    \/ WeighTick

WeighingSpec == WeighingInit /\ [][WeighingNext]_weighingVars
-----------------------------------------------------------------------------
Seen(v) == visitRow[v].ts # 0

(* What Insights says of a visit, from its closing report, trained on the  *)
(* range it shows (vs).                                                    *)
Insight(v, vs) == AttributeVisit(visitRow[v], BuildProfiles(vs, FALSE), plan.visits[v].box)

(* The pet of the Timeline's card: the closing report's, or a step's.      *)
CardPet(v) == IF visitRow[v].pet # 0 THEN visitRow[v].pet ELSE visitRow[v].seen

(* What the Timeline's badge says, trained on the last weeks.              *)
Badge(v) ==
    IF CardPet(v) # 0 THEN NoGuess
    ELSE Attribute(VisitWeight(visitRow[v]), BuildProfiles(Visits, TRUE), plan.visits[v].box)

(* A visit whose weight is one of its pet's, at a box that pet may use, is *)
(* not given to another pet by weight, on the Timeline or in Insights,     *)
(* which guess of a visit that only a step names too (weight.attribute:    *)
(* bands, and not the nearest profile).                                    *)
NamedRight ==
    \A v \in Visits :
        LET cat == plan.visits[v].cat
            x   == VisitWeight(visitRow[v])
        IN /\ Seen(v) /\ visitRow[v].pet = 0 /\ entered[cat] # 0 /\ InBand(x, entered[cat])
           /\ plan.boxes[cat] = {} \/ plan.visits[v].box \in plan.boxes[cat]
           => Badge(v).pet \in {0, cat} /\ \A vs \in {{v}, Visits} : Insight(v, vs).pet \in {0, cat}

(* Whatever each was trained on, Insights and the Timeline name the same   *)
(* pet, or the same rivals, for a visit, and the Timeline puts no guess    *)
(* beside a face.  The exception is a visit that only a step of its        *)
(* episode names: the card has that pet, and Insights guess (_attach).     *)
ViewsAgree ==
    \A v \in Visits : Seen(v) =>
        /\ CardPet(v) # 0 => Badge(v) = NoGuess
        /\ \A vs \in {{v}, Visits} :
              \/ visitRow[v].pet # 0 /\ Insight(v, vs).pet = CardPet(v)
              \/ CardPet(v) = 0 /\ Insight(v, vs).pet = Badge(v).pet /\ Insight(v, vs).rivals = Badge(v).rivals
              \/ visitRow[v].pet = 0 /\ visitRow[v].seen # 0

(* "One outlier ... must not drag a whole profile's grade down": with      *)
(* enough confirmed visits of which one at most is not in the band of the  *)
(* entered weight, the profile counts as corroborated (weight_stats).      *)
OneOddWeightHarmless ==
    \A p \in Animals :
        LET s == ConfirmedWeights(p, Visits, TRUE)
        IN /\ entered[p] # 0 /\ Cardinality(DOMAIN s) >= MinCorroborating
           /\ Cardinality({i \in DOMAIN s : ~InBand(s[i], entered[p])}) <= 1
           => Corroborated(entered[p], s)

(* A settled weight lands on a visit of the pet it was taken of, where no  *)
(* two pets weigh alike (match_visit: nearest in weight, not in time).     *)
SettledOnItsOwn ==
    (\A u, v \in Visits : plan.visits[u].cat # plan.visits[v].cat =>
        Distance(plan.visits[u].box_g, plan.visits[v].settled_g) > MaxValueDelta)
    => \A v \in Visits : visitRow[v].recalc # 0 =>
          \E u \in pushed : /\ plan.visits[u].settled_g = visitRow[v].recalc
                            /\ plan.visits[u].cat = plan.visits[v].cat /\ plan.visits[u].box = plan.visits[v].box

(* The weights serve: the four above.                                      *)
WeighedRight == NamedRight /\ ViewsAgree /\ OneOddWeightHarmless /\ SettledOnItsOwn

=============================================================================

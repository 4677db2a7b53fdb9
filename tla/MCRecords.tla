------------------------------ MODULE MCRecords ------------------------------
(* What the add-on keeps and acts on: the registry's file (Registry), the  *)
(* store's rows (Pets, Timeline), whose visits were whose (Weighing), a    *)
(* device's patches (Patching) and meals (MCFeeding).  A run follows one   *)
(* subject, and leaves the others where they start.                        *)
EXTENDS Pets, Timeline, Registry, Patching, Weighing, MCFeeding

CONSTANTS e1, q1, q2, none, d1, d2, j1, j2, cloud, camera

VARIABLE focus

registryVars == vars
mcVars == <<petsVars, timelineVars, registryVars, patchingVars, feedingVars, weighingVars, focus>>

(* A day of a litter box with its visits and cleanings, and of a camera    *)
(* with a recognised pet and a meal.                                       *)
Box(code, rel, parent) == [dev |-> 1, category |-> "litter", code |-> code, rel |-> rel, parent |-> parent]
Meal(code, rel) == [dev |-> 2, category |-> "feeder", code |-> code, rel |-> rel, parent |-> none]

SomeStories ==
    {{Box("9", "v", none), Box("10", "v", none), Box("8", "c", "v"), Box("5", "c", none)},
     {Box("pet_out", none, none), Box("5", "c", none), Box("3", "c", none), Box("17", "l", none)},
     {Box("20", "a", none), Box("24", "a", none), Box("pet_discern", "b", "a"), Box("1", "e", none),
      Box("2", "e", none)},
     {Meal("3", "f"), Meal("2", "f"), Meal("2", "g"), Box("9", "v", none)}}

(* Households and their visits to the litter box, weights in grams.        *)
Household(visits, boxes, earlier, weights) ==
    [visits |-> visits, boxes |-> boxes, earlier |-> earlier, weights |-> weights]
Visit(cat, box, b, s) == [cat |-> cat, box |-> box, box_g |-> b, settled_g |-> s]
Earlier(ws) == [i \in 11 .. 10 + Len(ws) |-> ws[i - 10]]
SomePlans ==
    {\* two pets that weigh apart, in and out within minutes, with the tool
     Household(<<Visit(1,1,3400,3300), Visit(2,1,5100,5000)>>, <<{},{}>>, <<<<>>,<<>>>>, <<{3400},{5000}>>),
     \* two that weigh alike, one of them at a box of its own
     Household(<<Visit(1,1,4300,0), Visit(2,1,4500,0)>>, <<{},{1}>>, <<Earlier(<<4000,4000,4000>>),<<>>>>, <<{4000},{4400}>>),
     \* earlier visits, some of them odd
     Household(<<Visit(1,1,5400,5300), Visit(1,1,12000,0)>>, <<{1},{2}>>,
               <<Earlier(<<4600,4600,5000,4700>>),<<>>>>, <<{5000, 4600},{5200}>>)}

Kinds == [p \in Patchers |-> IF p = camera THEN "camera" ELSE "binary"]

MCInit ==
    /\ focus \in {"attribution", "photos", "timeline", "registry", "patches", "meals", "weights"}
    /\ PetsInit /\ (focus # "attribution" => ref = [e \in Reports |-> 1])
    /\ TimelineInit /\ (focus # "timeline" => story = CHOOSE st \in SomeStories : TRUE)
    /\ Init
    /\ PatchingInit /\ active \in {{camera}, Patchers} /\ (focus # "patches" => active = Patchers /\ ~onMqtt)
    /\ FeedingInit /\ (focus # "meals" => meals = {} /\ ~feedOnMqtt)
    /\ WeighingInit /\ (focus # "weights" => plan = CHOOSE p \in SomePlans : TRUE)

Kept(what, its) == focus # what => UNCHANGED its

MCNext ==
    /\ \/ focus = "attribution" /\ AttributionNext
       \/ focus = "photos"      /\ PhotosNext
       \/ focus = "timeline"    /\ TimelineNext
       \/ focus = "registry"    /\ Next
       \/ focus = "patches"     /\ PatchingNext
       \/ focus = "meals"       /\ FeedingNext
       \/ focus = "weights"     /\ WeighingNext
    /\ focus \notin {"attribution", "photos"} => UNCHANGED petsVars
    /\ Kept("timeline", timelineVars) /\ Kept("registry", registryVars)
    /\ Kept("patches", patchingVars) /\ Kept("meals", feedingVars)
    /\ Kept("weights", weighingVars)
    /\ UNCHANGED focus

MCSpec == MCInit /\ [][MCNext]_mcVars
=============================================================================

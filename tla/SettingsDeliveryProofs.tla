----------------------- MODULE SettingsDeliveryProofs -----------------------
(***************************************************************************)
(* How a setting or an action reaches one device, for every set of         *)
(* settings, actions, requests and writes.  In order:                      *)
(*                                                                         *)
(*   1. the lists the queue and the line are sifted with;                  *)
(*   2. mappings and commands;                                             *)
(*   3. ControlHolds: types, and who holds the lock, stands in line and    *)
(*      has a command;                                                     *)
(*   4. OnlyLatest: the steps are those of LatestValue;                    *)
(*   5. Kept: what is owed is pending, in memory and on disk;              *)
(*   6. SettledTruth, OwedStaysPending: what is settled is what the panel  *)
(*      shows, and what the file shows is on its way;                      *)
(*   7. ActionNeverLost, ActionNeverDoubled, ActionPlaced: an action asked *)
(*      for is in one place.                                               *)
(*                                                                         *)
(* The "never lost" of 7 needs that the process is not killed, its "never  *)
(* doubled" that a publish that raises has sent nothing.  The rest needs   *)
(* nothing.                                                                *)
(***************************************************************************)
EXTENDS SettingsDelivery, FunctionTheorems, FiniteSetTheorems, WellFoundedInduction, TLAPS

-----------------------------------------------------------------------------
(* 1. Lists.                                                               *)

(* The positions of a list up to one of them are finitely many.            *)
LEMMA UpToFinite ==
    ASSUME NEW n \in Nat, NEW S \in SUBSET (1..n)
    PROVE  /\ IsFiniteSet(S) /\ Cardinality(S) \in Nat
           /\ \A j \in S : IsFiniteSet({m \in S : m <= j})
                           /\ Cardinality({m \in S : m <= j}) \in 1..Cardinality(S)
<1>1. IsFiniteSet(1..n)
  BY FS_Interval
<1>2. IsFiniteSet(S) /\ Cardinality(S) \in Nat
  BY <1>1, FS_Subset, FS_CardinalityType
<1>3. ASSUME NEW j \in S
      PROVE  IsFiniteSet({m \in S : m <= j})
             /\ Cardinality({m \in S : m <= j}) \in 1..Cardinality(S)
  <2> DEFINE U == {m \in S : m <= j}
  <2>1. U \in SUBSET S /\ j \in U
    OBVIOUS
  <2> HIDE DEF U
  <2>2. IsFiniteSet(U) /\ Cardinality(U) <= Cardinality(S) /\ Cardinality(U) \in Nat
    BY <1>2, <2>1, FS_Subset, FS_CardinalityType
  <2>3. Cardinality(U) # 0
    BY <2>1, <2>2, FS_EmptySet
  <2>4. QED BY <1>2, <2>2, <2>3 DEF U
<1>4. QED BY <1>2, <1>3

(* The rank of a position in S orders S, and fills 1..Cardinality(S).      *)
LEMMA RankFacts ==
    ASSUME NEW n \in Nat, NEW S \in SUBSET (1..n)
    PROVE  LET rank == [j \in S |-> Cardinality({m \in S : m <= j})]
           IN  /\ rank \in Bijection(S, 1..Cardinality(S))
               /\ \A i, j \in S : i < j => rank[i] < rank[j]
<1> DEFINE rank == [j \in S |-> Cardinality({m \in S : m <= j})]
<1>1. rank \in [S -> 1..Cardinality(S)]
  BY UpToFinite
<1>2. ASSUME NEW i \in S, NEW j \in S, i < j PROVE rank[i] < rank[j]
  <2> DEFINE U == {m \in S : m <= i}
             V == {m \in S : m <= j}
  <2>0. \A m \in S : m \in Int
    OBVIOUS
  <2>1. U \in SUBSET V /\ j \in V /\ j \notin U
    <3>1. i \in Int /\ j \in Int /\ i < j
      BY <1>2, <2>0
    <3>2. \A m \in S : m <= i => m <= j
      BY <2>0, <3>1
    <3>3. j <= j /\ ~(j <= i)
      BY <3>1
    <3>4. QED BY <3>2, <3>3
  <2>2. IsFiniteSet(V) /\ Cardinality(V) \in Nat /\ Cardinality(U) \in Nat
    BY UpToFinite
  <2> HIDE DEF U, V
  <2>3. Cardinality(U) <= Cardinality(V) /\ Cardinality(U) # Cardinality(V)
    BY <2>1, <2>2, FS_Subset
  <2>4. Cardinality(U) < Cardinality(V)
    BY <2>2, <2>3
  <2>5. QED BY <2>4 DEF U, V
<1>3. \A i \in S : rank[i] \in Int /\ i \in Int
  BY <1>1
<1> HIDE DEF rank
<1>4. \A i, j \in S : rank[i] = rank[j] => i = j
  BY <1>2, <1>3
<1>5. rank \in Injection(S, 1..Cardinality(S))
  BY <1>1, <1>4 DEF Injection, IsInjective
<1>6. IsFiniteSet(1..Cardinality(S)) /\ Cardinality(1..Cardinality(S)) = Cardinality(S)
  <2>1. Cardinality(S) \in Nat
    BY UpToFinite
  <2> DEFINE c == Cardinality(S)
  <2> HIDE DEF c
  <2>2. c \in Nat => IsFiniteSet(1..c) /\ Cardinality(1..c) = c
    BY FS_Interval
  <2>3. QED BY <2>1, <2>2 DEF c
<1>7. rank \in Surjection(S, 1..Cardinality(S))
  BY <1>5, <1>6, FS_Injection
<1>8. QED BY <1>2, <1>5, <1>7 DEF Bijection, rank

(* Nth lists S in order.                                                   *)
LEMMA NthFacts ==
    ASSUME NEW n \in Nat, NEW S \in SUBSET (1..n)
    PROVE  /\ \A i \in 1..Cardinality(S) : Nth(S, i) \in S
           /\ \A j \in S : \E i \in 1..Cardinality(S) : Nth(S, i) = j
           /\ \A i, j \in 1..Cardinality(S) : i < j => Nth(S, i) < Nth(S, j)
<1> DEFINE rank == [j \in S |-> Cardinality({m \in S : m <= j})]
<1>1. /\ rank \in Bijection(S, 1..Cardinality(S))
      /\ \A i, j \in S : i < j => rank[i] < rank[j]
  BY RankFacts
<1>2. \A i : Nth(S, i) = CHOOSE j \in S : rank[j] = i
  BY DEF Nth
<1>3. \A j \in S : j \in Int
  OBVIOUS
<1> HIDE DEF rank
<1>4. \A i \in 1..Cardinality(S) : \E j \in S : rank[j] = i
  BY <1>1 DEF Bijection, Surjection
<1>5. \A i \in 1..Cardinality(S) : Nth(S, i) \in S /\ rank[Nth(S, i)] = i
  BY <1>2, <1>4
<1>6. \A j \in S : rank[j] \in 1..Cardinality(S)
  BY <1>1 DEF Bijection, Injection, IsInjective
<1>7. \A j \in S : Nth(S, rank[j]) = j
  BY <1>1, <1>5, <1>6 DEF Bijection, Injection, IsInjective
<1>8. ASSUME NEW i \in 1..Cardinality(S), NEW j \in 1..Cardinality(S), i < j
      PROVE  Nth(S, i) < Nth(S, j)
  <2> DEFINE a == Nth(S, i)
             b == Nth(S, j)
  <2>1. a \in S /\ b \in S /\ rank[a] = i /\ rank[b] = j
    BY <1>5
  <2> HIDE DEF a, b
  <2>2. a \in Int /\ b \in Int /\ ~(b < a) /\ a # b
    <3>1. i \in Int /\ j \in Int
      BY UpToFinite
    <3>2. ~(b < a)
      BY <1>1, <1>8, <2>1, <3>1
    <3>3. QED BY <1>3, <1>8, <2>1, <3>1, <3>2
  <2>3. a < b
    BY <2>2
  <2>4. QED BY <2>3 DEF a, b
<1>9. QED BY <1>5, <1>6, <1>7, <1>8

(* A list comprehension with a condition returns elements that satisfied   *)
(* it, all of them, in their order.                                        *)
LEMMA SiftFacts ==
    ASSUME NEW T, NEW q \in Seq(T), NEW S \in SUBSET DOMAIN q
    PROVE  /\ Sift(q, S) \in Seq(T)
           /\ DOMAIN Sift(q, S) = 1..Cardinality(S)
           /\ \A i \in DOMAIN Sift(q, S) : Nth(S, i) \in S /\ Sift(q, S)[i] = q[Nth(S, i)]
           /\ \A j \in S : \E i \in DOMAIN Sift(q, S) : Nth(S, i) = j
           /\ \A i, j \in DOMAIN Sift(q, S) : i < j => Nth(S, i) < Nth(S, j)
<1>1. Len(q) \in Nat /\ DOMAIN q = 1..Len(q)
  OBVIOUS
<1>2. /\ \A i \in 1..Cardinality(S) : Nth(S, i) \in S
      /\ \A j \in S : \E i \in 1..Cardinality(S) : Nth(S, i) = j
      /\ \A i, j \in 1..Cardinality(S) : i < j => Nth(S, i) < Nth(S, j)
      /\ Cardinality(S) \in Nat
  BY <1>1, NthFacts, UpToFinite
<1>3. DOMAIN Sift(q, S) = 1..Cardinality(S)
      /\ \A i \in 1..Cardinality(S) : Sift(q, S)[i] = q[Nth(S, i)]
  BY DEF Sift
<1>4. Sift(q, S) \in [1..Cardinality(S) -> T]
  BY <1>1, <1>2 DEF Sift
<1>5. Sift(q, S) \in Seq(T)
  BY <1>2, <1>4
<1>6. QED BY <1>2, <1>3, <1>5

(* How often x stands at the positions S of a list.                        *)
Times(q, S, x) == Cardinality({j \in S : q[j] = x})

(* A sifted list holds an element as often as the kept positions do.       *)
LEMMA SiftCount ==
    ASSUME NEW T, NEW q \in Seq(T), NEW S \in SUBSET DOMAIN q, NEW x
    PROVE  Times(Sift(q, S), DOMAIN Sift(q, S), x) = Times(q, S, x)
<1> DEFINE r == Sift(q, S)
           U == {i \in DOMAIN r : r[i] = x}
           V == {j \in S : q[j] = x}
           f == [i \in U |-> Nth(S, i)]
<1>1. /\ DOMAIN r = 1..Cardinality(S) /\ Cardinality(S) \in Nat
      /\ \A i \in DOMAIN r : Nth(S, i) \in S /\ r[i] = q[Nth(S, i)]
      /\ \A j \in S : \E i \in DOMAIN r : Nth(S, i) = j
      /\ \A i, j \in DOMAIN r : i < j => Nth(S, i) < Nth(S, j)
  <2>1. DOMAIN q = 1..Len(q) /\ Len(q) \in Nat
    OBVIOUS
  <2>2. Cardinality(S) \in Nat
    BY <2>1, UpToFinite
  <2>3. QED BY <2>2, SiftFacts
<1>2. \A j \in S : j \in Int
  OBVIOUS
<1> HIDE DEF r
<1>3. f \in [U -> V]
  BY <1>1
<1>4. \A i, j \in U : f[i] = f[j] => i = j
  BY <1>1, <1>2
<1>5. \A j \in V : \E i \in U : f[i] = j
  BY <1>1
<1>6. f \in Bijection(U, V)
  BY <1>3, <1>4, <1>5 DEF Bijection, Injection, IsInjective, Surjection
<1>7. IsFiniteSet(U)
  <2>1. IsFiniteSet(DOMAIN r)
    BY <1>1, FS_Interval
  <2>2. U \in SUBSET DOMAIN r
    OBVIOUS
  <2>3. QED BY <2>1, <2>2, FS_Subset
<1>8. Cardinality(U) = Cardinality(V)
  BY <1>6, <1>7, FS_Bijection DEF ExistsBijection
<1>9. QED BY <1>8 DEF r, Times

-----------------------------------------------------------------------------
(* 2. Mappings and commands.                                               *)

AllCommands == Commands \cup {Set(Empty)}

(* What an assignment is: a mapping of some of the settings to values.     *)
LEMMA AssignmentFacts ==
    /\ \A f \in Assignments :
         /\ DOMAIN f \subseteq Keys /\ f = [k \in DOMAIN f |-> f[k]]
         /\ \A k \in DOMAIN f : f[k] \in Values
    /\ \A S \in SUBSET Keys : [S -> Values] \subseteq Assignments
    /\ Empty \in Assignments
    /\ \A f \in Assignments : DOMAIN f = {} <=> f = Empty
<1>1. \A f \in Assignments : \E S \in SUBSET Keys : f \in [S -> Values]
  BY DEF Assignments
<1>2. \A S \in SUBSET Keys : [S -> Values] \subseteq Assignments
  BY DEF Assignments
<1>3. \A f \in Assignments :
         /\ DOMAIN f \subseteq Keys /\ f = [k \in DOMAIN f |-> f[k]]
         /\ \A k \in DOMAIN f : f[k] \in Values
  BY <1>1
<1>4. Empty \in [{} -> Values]
  BY DEF Empty
<1>5. Empty \in Assignments
  BY <1>2, <1>4
<1>6. ASSUME NEW f \in Assignments PROVE DOMAIN f = {} <=> f = Empty
  <2>1. f = [k \in DOMAIN f |-> f[k]]
    BY <1>3
  <2>2. DOMAIN Empty = {}
    BY DEF Empty
  <2>3. ASSUME DOMAIN f = {} PROVE f = Empty
    <3>1. f = [k \in {} |-> f[k]]
      BY <2>1, <2>3
    <3>2. [k \in {} |-> f[k]] = [k \in {} |-> 0]
      OBVIOUS
    <3>3. QED BY <3>1, <3>2 DEF Empty
  <2>4. QED BY <2>2, <2>3
<1>7. QED BY <1>2, <1>3, <1>5, <1>6

(* Mappings stay mappings of settings to values.                           *)
LEMMA OverrideTyped ==
    ASSUME NEW g \in Assignments
    PROVE  /\ \A f \in Assignments : Override(f, g) \in Assignments
           /\ \A f \in [Keys -> Values] : Override(f, g) \in [Keys -> Values]
<1>1. DOMAIN g \subseteq Keys /\ \A k \in DOMAIN g : g[k] \in Values
  BY AssignmentFacts
<1>2. ASSUME NEW f \in Assignments PROVE Override(f, g) \in Assignments
  <2>1. DOMAIN f \subseteq Keys /\ \A k \in DOMAIN f : f[k] \in Values
    BY AssignmentFacts
  <2>2. Override(f, g) \in [DOMAIN f \cup DOMAIN g -> Values]
    BY <1>1, <2>1 DEF Override
  <2>3. DOMAIN f \cup DOMAIN g \in SUBSET Keys
    BY <1>1, <2>1
  <2>4. QED BY <2>2, <2>3, AssignmentFacts
<1>3. ASSUME NEW f \in [Keys -> Values] PROVE Override(f, g) \in [Keys -> Values]
  <2>1. DOMAIN f \cup DOMAIN g = Keys
    BY <1>1
  <2>2. Override(f, g) \in [DOMAIN f \cup DOMAIN g -> Values]
    BY <1>1 DEF Override
  <2>3. QED BY <2>1, <2>2
<1>4. QED BY <1>2, <1>3

(* Dropping settings from an assignment leaves one.                        *)
LEMMA WithoutTyped ==
    ASSUME NEW f \in Assignments, NEW S
    PROVE  Without(f, S) \in Assignments
<1>1. DOMAIN f \subseteq Keys /\ \A k \in DOMAIN f : f[k] \in Values
  BY AssignmentFacts
<1>2. Without(f, S) \in [DOMAIN f \ S -> Values]
  BY <1>1 DEF Without
<1>3. DOMAIN f \ S \in SUBSET Keys
  BY <1>1
<1>4. QED BY <1>2, <1>3, AssignmentFacts

(* A command writes settings or is an action, never both.                  *)
LEMMA CommandFacts ==
    /\ \A f \in Assignments : f # Empty => Set(f) \in Commands
    /\ \A f : IsSet(Set(f)) /\ Params(Set(f)) = f /\ Set(f).params = f
    /\ \A a : ~IsSet(Act(a)) /\ Params(Act(a)) = Empty /\ Act(a).name = a
    /\ \A a \in Actions : Act(a) \in Commands
    /\ \A cmd \in AllCommands :
         /\ Params(cmd) \in Assignments
         /\ \/ IsSet(cmd) /\ cmd = Set(Params(cmd)) /\ cmd.params = Params(cmd)
            \/ ~IsSet(cmd) /\ cmd.name \in Actions /\ cmd = Act(cmd.name) /\ cmd \in Commands
    /\ \A cmd \in Commands : IsSet(cmd) => Params(cmd) # Empty
<1>1. \A f : IsSet(Set(f)) /\ Params(Set(f)) = f /\ Set(f).params = f
  BY DEF IsSet, Params, Set
<1>2. \A a : ~IsSet(Act(a)) /\ Params(Act(a)) = Empty /\ Act(a).name = a
  BY DEF IsSet, Params, Act
<1>3. \A cmd \in Commands :
        \/ \E f \in Assignments : f # Empty /\ cmd = Set(f)
        \/ \E a \in Actions : cmd = Act(a)
  BY DEF Commands
<1>4. /\ \A f \in Assignments : f # Empty => Set(f) \in Commands
      /\ \A a \in Actions : Act(a) \in Commands
  BY DEF Commands
<1>5. ASSUME NEW cmd \in AllCommands
      PROVE  /\ Params(cmd) \in Assignments
             /\ \/ IsSet(cmd) /\ cmd = Set(Params(cmd)) /\ cmd.params = Params(cmd)
                \/ ~IsSet(cmd) /\ cmd.name \in Actions /\ cmd = Act(cmd.name) /\ cmd \in Commands
  <2>1. CASE \E f \in Assignments : cmd = Set(f)
    BY <1>1, <2>1
  <2>2. CASE \E a \in Actions : cmd = Act(a)
    BY <1>2, <1>4, <2>2, AssignmentFacts
  <2>3. QED BY <1>3, <2>1, <2>2, AssignmentFacts DEF AllCommands
<1>6. \A cmd \in Commands : IsSet(cmd) => Params(cmd) # Empty
  BY <1>1, <1>2, <1>3
<1>7. QED BY <1>1, <1>2, <1>4, <1>5, <1>6

(* What remember leaves in the queue: every command as it was, a write     *)
(* without the settings rewritten.                                         *)
LEMMA RememberFacts ==
    ASSUME NEW q \in Seq(Commands), NEW params \in Assignments
    PROVE  LET r == QueueAfterRemember(q, params)
           IN  /\ r \in Seq(Commands)
               /\ \A i \in DOMAIN r : \E j \in DOMAIN q :
                    \A k \in DOMAIN Params(r[i]) :
                      /\ k \in DOMAIN Params(q[j]) \ DOMAIN params
                      /\ Params(r[i])[k] = Params(q[j])[k]
               /\ \A a : Times(r, DOMAIN r, Act(a)) = Times(q, DOMAIN q, Act(a))
<1> DEFINE strip(c) == IF IsSet(c) THEN Set(Without(c.params, DOMAIN params)) ELSE c
           s == [i \in DOMAIN q |-> strip(q[i])]
           S == {i \in DOMAIN q : ~IsSet(s[i]) \/ s[i].params # Empty}
           r == Sift(s, S)
<1>1. r = QueueAfterRemember(q, params)
  BY DEF QueueAfterRemember
<1>2. \A i \in DOMAIN q : q[i] \in Commands /\ q[i] \in AllCommands
  BY DEF AllCommands
<1>3. \A i \in DOMAIN q :
        IF IsSet(q[i])
          THEN s[i] = Set(Without(Params(q[i]), DOMAIN params)) /\ s[i] \in AllCommands
          ELSE s[i] = q[i] /\ s[i] \in Commands
  <2> SUFFICES ASSUME NEW i \in DOMAIN q
               PROVE  IF IsSet(q[i])
                        THEN s[i] = Set(Without(Params(q[i]), DOMAIN params)) /\ s[i] \in AllCommands
                        ELSE s[i] = q[i] /\ s[i] \in Commands
    OBVIOUS
  <2>1. CASE IsSet(q[i])
    <3>1. q[i].params = Params(q[i]) /\ Params(q[i]) \in Assignments
      BY <1>2, <2>1, CommandFacts
    <3>2. s[i] = Set(Without(Params(q[i]), DOMAIN params))
      BY <2>1, <3>1
    <3>3. Without(Params(q[i]), DOMAIN params) \in Assignments
      BY <3>1, WithoutTyped
    <3>4. s[i] \in AllCommands
      BY <3>2, <3>3, CommandFacts DEF AllCommands
    <3>5. QED BY <2>1, <3>2, <3>4
  <2>2. CASE ~IsSet(q[i])
    BY <1>2, <2>2
  <2>3. QED BY <2>1, <2>2
<1>4. s \in Seq(AllCommands) /\ DOMAIN s = DOMAIN q /\ S \in SUBSET DOMAIN s
  <2>1. Len(q) \in Nat /\ DOMAIN q = 1..Len(q)
    OBVIOUS
  <2>2. s \in [1..Len(q) -> AllCommands]
    BY <1>3, <2>1 DEF AllCommands
  <2>3. QED BY <2>1, <2>2
<1>5. \A i \in S : s[i] \in Commands
  <2> SUFFICES ASSUME NEW i \in S PROVE s[i] \in Commands
    OBVIOUS
  <2>1. CASE IsSet(q[i])
    <3>1. s[i] \in AllCommands /\ IsSet(s[i]) /\ s[i].params # Empty
      BY <1>3, <2>1, CommandFacts
    <3>2. QED BY <3>1, CommandFacts DEF AllCommands
  <2>2. CASE ~IsSet(q[i])
    BY <1>3, <2>2
  <2>3. QED BY <2>1, <2>2
<1> HIDE DEF s, S
<1>6. /\ r \in Seq(AllCommands) /\ DOMAIN r = 1..Cardinality(S)
      /\ \A i \in DOMAIN r : Nth(S, i) \in S /\ r[i] = s[Nth(S, i)]
  BY <1>4, SiftFacts
<1>7. \A a : Times(r, DOMAIN r, Act(a)) = Times(s, S, Act(a))
  BY <1>4, SiftCount
<1> HIDE DEF r
<1>8. r \in Seq(Commands)
  <2>1. \A i \in DOMAIN r : r[i] \in Commands
    BY <1>5, <1>6
  <2>2. r \in Seq(AllCommands)
    BY <1>6
  <2>3. DOMAIN r = 1..Len(r) /\ Len(r) \in Nat /\ r = [i \in 1..Len(r) |-> r[i]]
    BY <2>2
  <2>4. QED BY <2>1, <2>3
<1>9. ASSUME NEW i \in DOMAIN r
      PROVE  \E j \in DOMAIN q : \A k \in DOMAIN Params(r[i]) :
               /\ k \in DOMAIN Params(q[j]) \ DOMAIN params
               /\ Params(r[i])[k] = Params(q[j])[k]
  <2>1. PICK j \in DOMAIN q : r[i] = s[j]
    BY <1>4, <1>6
  <2>2. \A k \in DOMAIN Params(s[j]) :
           /\ k \in DOMAIN Params(q[j]) \ DOMAIN params
           /\ Params(s[j])[k] = Params(q[j])[k]
    <3>1. CASE IsSet(q[j])
      <4>1. Params(s[j]) = Without(Params(q[j]), DOMAIN params)
        BY <1>3, <3>1, CommandFacts
      <4>2. QED BY <4>1 DEF Without
    <3>2. CASE ~IsSet(q[j])
      BY <1>3, <3>2 DEF Params, Empty
    <3>3. QED BY <3>1, <3>2
  <2>3. QED BY <2>1, <2>2
<1>10. ASSUME NEW a
       PROVE  {i \in S : s[i] = Act(a)} = {i \in DOMAIN q : q[i] = Act(a)}
  <2>1. \A i \in DOMAIN q : s[i] = Act(a) <=> q[i] = Act(a)
    BY <1>3, CommandFacts
  <2>2. \A i \in DOMAIN q : s[i] = Act(a) => i \in S
    BY CommandFacts DEF S
  <2>3. QED BY <1>4, <2>1, <2>2
<1>11. \A a : Times(s, S, Act(a)) = Times(q, DOMAIN q, Act(a))
  BY <1>10 DEF Times
<1>12. QED BY <1>1, <1>7, <1>8, <1>9, <1>11

(* What completed leaves in the queue: some commands, as they were, and    *)
(* every action.                                                           *)
LEMMA CompletedQueueFacts ==
    ASSUME NEW q \in Seq(Commands), NEW sent
    PROVE  LET r == QueueAfterCompleted(q, sent)
           IN  /\ r \in Seq(Commands)
               /\ \A i \in DOMAIN r : \E j \in DOMAIN q : r[i] = q[j]
               /\ \A a : Times(r, DOMAIN r, Act(a)) = Times(q, DOMAIN q, Act(a))
<1> DEFINE S == {i \in DOMAIN q : ~IsSet(q[i]) \/ q[i].params = Empty \/ Unsent(q[i].params, sent)}
           r == Sift(q, S)
<1>1. r = QueueAfterCompleted(q, sent)
  BY DEF QueueAfterCompleted
<1>2. \A a : \A i \in DOMAIN q : q[i] = Act(a) => i \in S
  BY CommandFacts
<1>3. S \in SUBSET DOMAIN q
  OBVIOUS
<1> HIDE DEF S
<1>4. /\ r \in Seq(Commands)
      /\ \A i \in DOMAIN r : Nth(S, i) \in S /\ r[i] = q[Nth(S, i)]
  BY <1>3, SiftFacts
<1>a. \A a : Times(r, DOMAIN r, Act(a)) = Times(q, S, Act(a))
  BY <1>3, SiftCount
<1> HIDE DEF r
<1>5. \A a : {i \in S : q[i] = Act(a)} = {i \in DOMAIN q : q[i] = Act(a)}
  BY <1>2, <1>3
<1>6. \A a : Times(q, S, Act(a)) = Times(q, DOMAIN q, Act(a))
  BY <1>5 DEF Times
<1>7. QED BY <1>1, <1>3, <1>4, <1>6, <1>a

-----------------------------------------------------------------------------
(* 3. The lock, the line for it, and the jobs: TypeOK.                     *)

HolderPublishes == \A p \in Procs : phase[p] = "publishing" <=> lock = p

(* Whoever waits or publishes has its command with it, recovery once it    *)
(* publishes; nobody else has one.                                         *)
JobsOK ==
    /\ \A p \in Procs :
         IF phase[p] = "publishing" \/ (p # Recovery /\ phase[p] = "waiting")
           THEN job[p][1] \in Commands
           ELSE job[p] = NoJob
    /\ \A p \in Procs : left[p] => phase[p] = "publishing"
    /\ IF haPhase = "idle" THEN haJob = Set(Empty) /\ haLeft = FALSE ELSE haJob \in Commands

(* Those that wait stand in line once.                                     *)
LineOK ==
    /\ \A i \in DOMAIN waiters : phase[waiters[i]] = "waiting"
    /\ \A i, j \in DOMAIN waiters : waiters[i] = waiters[j] => i = j

(* A line of waiting processes without p.                                  *)
LineFor(p, line) ==
    /\ line \in Seq(Procs)
    /\ \A i \in DOMAIN line : phase[line[i]] = "waiting" /\ line[i] # p
    /\ \A i, n \in DOMAIN line : line[i] = line[n] => i = n

Control == TypeOK /\ HolderPublishes /\ JobsOK /\ LineOK

(* The recovery loop is no panel request, and nobody is no process.        *)
LEMMA ProcFacts == Recovery \in Procs /\ Nobody \notin Procs /\ Panels \subseteq Procs
                   /\ \A p \in Panels : p # Recovery
BY ProcAssumption DEF Procs

(* Without a job there is nothing to write.                                *)
LEMMA NoJobFacts ==
    /\ NoJob[1] = Set(Empty) /\ NoJob[2] = FALSE
    /\ NoJob \in (Commands \cup {Set(Empty)}) \X BOOLEAN
    /\ Params(NoJob[1]) = Empty /\ DOMAIN Empty = {}
BY CommandFacts DEF NoJob, Empty

(* A hand-over keeps the history well typed.                               *)
LEMMA HandOverTyped ==
    ASSUME NEW cmd \in AllCommands, NEW wanted, NEW owing \in SUBSET Keys,
           NEW gone \in BOOLEAN, HandOverIf(gone, cmd, wanted, owing),
           told \in [Keys -> Values], runs \in [Actions -> Nat]
    PROVE  told' \in [Keys -> Values] /\ owed' \subseteq Keys /\ runs' \in [Actions -> Nat]
<1>1. Params(cmd) \in Assignments /\ (IsSet(cmd) \/ cmd.name \in Actions)
  BY CommandFacts
<1>2. CASE gone
  <2>1. HandOver(cmd, wanted, owing)
    BY <1>2 DEF HandOverIf
  <2>2. told' \in [Keys -> Values]
    BY <1>1, <2>1, OverrideTyped DEF HandOver
  <2>3. owed' \subseteq Keys
    BY <2>1 DEF HandOver
  <2>4. runs' \in [Actions -> Nat]
    BY <1>1, <2>1 DEF HandOver
  <2>5. QED BY <2>2, <2>3, <2>4
<1>3. CASE ~gone
  BY <1>3 DEF HandOverIf, Hold
<1>4. QED BY <1>2, <1>3

(* A process p, which does not stand in line any more, takes the lock or   *)
(* leaves it.                                                              *)
LEMMA PublishingControl ==
    ASSUME TypeOK, HolderPublishes, NEW p \in Procs, lock = Nobody, NEW j \in Commands \X BOOLEAN,
           NEW gone \in BOOLEAN, JobsOK, Publishing(p, j, gone), UNCHANGED ha,
           LineFor(p, waiters')
    PROVE  /\ lock' \in Procs \cup {Nobody}
           /\ phase' \in [Procs -> {"idle", "waiting", "publishing"}]
           /\ job' \in [Procs -> (Commands \cup {Set(Empty)}) \X BOOLEAN]
           /\ left' \in [Procs -> BOOLEAN]
           /\ HolderPublishes' /\ JobsOK' /\ LineOK'
<1>1. /\ lock' \in Procs \cup {Nobody}
      /\ phase' \in [Procs -> {"idle", "waiting", "publishing"}]
      /\ job' \in [Procs -> (Commands \cup {Set(Empty)}) \X BOOLEAN]
      /\ left' \in [Procs -> BOOLEAN]
  BY DEF TypeOK, Publishing
<1>2. HolderPublishes'
  BY ProcFacts DEF TypeOK, HolderPublishes, Publishing
<1>3. JobsOK'
  <2>1. \A q \in Procs : q # p => phase'[q] = phase[q] /\ job'[q] = job[q] /\ left'[q] = left[q]
    BY DEF TypeOK, Publishing
  <2>2. phase'[p] = "publishing" /\ job'[p] = j
    BY DEF TypeOK, Publishing
  <2>3. QED BY <2>1, <2>2 DEF JobsOK, ha
<1>4. LineOK'
  <2>1. \A q \in Procs : q # p => phase'[q] = phase[q]
    BY DEF TypeOK, Publishing
  <2>2. \A i \in DOMAIN waiters' : waiters'[i] \in Procs
    BY DEF LineFor
  <2>3. QED BY <2>1, <2>2 DEF LineOK, LineFor
<1>5. QED BY <1>1, <1>2, <1>3, <1>4

(* A process p that holds the lock, or left the line for it, is done.      *)
LEMMA ReleaseControl ==
    ASSUME TypeOK, HolderPublishes, NEW p \in Procs, lock \in {p, Nobody},
           JobsOK, Release(p), UNCHANGED ha,
           LineFor(p, waiters')
    PROVE  /\ lock' \in Procs \cup {Nobody}
           /\ phase' \in [Procs -> {"idle", "waiting", "publishing"}]
           /\ job' \in [Procs -> (Commands \cup {Set(Empty)}) \X BOOLEAN]
           /\ left' \in [Procs -> BOOLEAN]
           /\ HolderPublishes' /\ JobsOK' /\ LineOK'
<1>1. /\ lock' \in Procs \cup {Nobody}
      /\ phase' \in [Procs -> {"idle", "waiting", "publishing"}]
      /\ job' \in [Procs -> (Commands \cup {Set(Empty)}) \X BOOLEAN]
      /\ left' \in [Procs -> BOOLEAN]
  BY NoJobFacts DEF TypeOK, Release
<1>2. HolderPublishes'
  BY ProcFacts DEF TypeOK, HolderPublishes, Release
<1>3. JobsOK'
  <2>1. \A q \in Procs : q # p => phase'[q] = phase[q] /\ job'[q] = job[q] /\ left'[q] = left[q]
    BY DEF TypeOK, Release
  <2>2. phase'[p] = "idle" /\ job'[p] = NoJob /\ left'[p] = FALSE
    BY DEF TypeOK, Release
  <2>3. QED BY <2>1, <2>2 DEF JobsOK, ha
<1>4. LineOK'
  <2>1. \A q \in Procs : q # p => phase'[q] = phase[q]
    BY DEF TypeOK, Release
  <2>2. \A i \in DOMAIN waiters' : waiters'[i] \in Procs
    BY DEF LineFor
  <2>3. QED BY <2>1, <2>2 DEF LineOK, LineFor
<1>5. QED BY <1>1, <1>2, <1>3, <1>4

(* The line, when its first leaves it.                                     *)
LEMMA LineMoves ==
    ASSUME TypeOK, LineOK, NEW p, NextWaiter(p)
    PROVE  /\ p \in Procs /\ phase[p] = "waiting" /\ lock = Nobody
           /\ waiters # <<>> /\ 1 \in DOMAIN waiters /\ waiters[1] = p
           /\ Tail(waiters) \in Seq(Procs)
           /\ \A i \in DOMAIN Tail(waiters) :
                i + 1 \in DOMAIN waiters /\ Tail(waiters)[i] = waiters[i + 1]
           /\ \A i \in DOMAIN waiters : i # 1 =>
                i - 1 \in DOMAIN Tail(waiters) /\ Tail(waiters)[i - 1] = waiters[i]
           /\ LineFor(p, Tail(waiters))
<1> DEFINE t == Tail(waiters)
<1>1. waiters \in Seq(Procs) /\ waiters # <<>> /\ lock = Nobody /\ p = Head(waiters)
  BY DEF TypeOK, NextWaiter
<1>2. /\ DOMAIN waiters = 1..Len(waiters) /\ Len(waiters) \in Nat /\ Len(waiters) # 0
      /\ t \in Seq(Procs) /\ DOMAIN t = 1..(Len(waiters) - 1)
      /\ \A i \in DOMAIN t : t[i] = waiters[i + 1]
      /\ Head(waiters) = waiters[1]
  BY <1>1
<1> HIDE DEF t
<1>3. 1 \in DOMAIN waiters /\ waiters[1] = p /\ p \in Procs
  BY <1>1, <1>2
<1>4. \A i \in DOMAIN t : i + 1 \in DOMAIN waiters /\ i + 1 # 1 /\ i \in Int
  BY <1>2
<1>5. \A i \in DOMAIN waiters : i # 1 => i - 1 \in DOMAIN t /\ t[i - 1] = waiters[i]
  BY <1>2
<1>6. \A i \in DOMAIN t : phase[t[i]] = "waiting" /\ t[i] # p
  BY <1>2, <1>3, <1>4 DEF LineOK
<1>7. \A i, n \in DOMAIN t : t[i] = t[n] => i = n
  <2> SUFFICES ASSUME NEW i \in DOMAIN t, NEW n \in DOMAIN t, t[i] = t[n] PROVE i = n
    OBVIOUS
  <2>1. i + 1 = n + 1
    BY <1>2, <1>4 DEF LineOK
  <2>2. QED BY <1>4, <2>1
<1>8. LineFor(p, t)
  BY <1>2, <1>6, <1>7 DEF LineFor
<1>9. phase[p] = "waiting"
  BY <1>3 DEF LineOK
<1>10. QED BY <1>1, <1>2, <1>3, <1>4, <1>5, <1>8, <1>9 DEF t

(* What is on disk is of the types of what is in memory.                   *)
LEMMA SavedTyped ==
    ASSUME TypeOK, settings' \in [Keys -> Values], pending' \in Assignments,
           Saved \/ UNCHANGED stored
    PROVE  disk' \in [settings : [Keys -> Values], pending : Assignments] /\ dirty' \in BOOLEAN
<1>1. CASE Saved
  <2>1. disk' = [settings |-> settings', pending |-> pending'] /\ dirty' = FALSE
    BY <1>1 DEF Saved
  <2>2. QED BY <2>1
<1>2. CASE UNCHANGED stored
  BY <1>2 DEF TypeOK, stored
<1>3. QED BY <1>1, <1>2

(* A command is remembered, and published or queued.                       *)
LEMMA DeliverControl ==
    ASSUME Control, NEW p \in Procs, lock = Nobody, NEW j \in Commands \X BOOLEAN, NEW transport,
           DeliverLocked(p, j, transport), UNCHANGED ha, settings' \in [Keys -> Values],
           Saved \/ UNCHANGED stored,
           LineFor(p, waiters'),
           UNCHANGED link, asked' \subseteq Actions
    PROVE  Control'
<1> DEFINE params == Params(j[1])
           rest   == QueueAfterRemember(queue, params)
           owing  == owed \cup DOMAIN params
           wanted == Override(want, params)
<1>1. j[1] \in Commands /\ j[1] \in AllCommands /\ params \in Assignments
  BY CommandFacts DEF AllCommands
<1>2. DOMAIN params \subseteq Keys /\ owing \in SUBSET Keys
  BY <1>1, AssignmentFacts DEF Control, TypeOK
<1>3. pending' \in Assignments /\ want' \in [Keys -> Values]
  BY <1>1, OverrideTyped DEF Control, TypeOK, DeliverLocked
<1>4. queue' \in Seq(Commands)
  <2>1. rest \in Seq(Commands)
    BY <1>1, RememberFacts DEF Control, TypeOK
  <2>2. queue' = rest \/ queue' = Append(rest, j[1])
    BY DEF DeliverLocked
  <2> HIDE DEF rest
  <2>3. QED BY <1>1, <2>1, <2>2
<1>5. disk' \in [settings : [Keys -> Values], pending : Assignments] /\ dirty' \in BOOLEAN
  BY <1>3, SavedTyped DEF Control
<1>6. told' \in [Keys -> Values] /\ owed' \subseteq Keys /\ runs' \in [Actions -> Nat]
  <2>1. \E gone \in BOOLEAN : HandOverIf(gone, j[1], wanted, owing)
    BY DEF DeliverLocked, HandOverIf
  <2>2. told \in [Keys -> Values] /\ runs \in [Actions -> Nat]
    BY DEF Control, TypeOK
  <2> HIDE DEF owing, wanted, params, rest
  <2>3. PICK gone \in BOOLEAN : HandOverIf(gone, j[1], wanted, owing)
    BY <2>1
  <2>4. QED BY <1>1, <1>2, <2>2, <2>3, HandOverTyped
<1>7. /\ lock' \in Procs \cup {Nobody}
      /\ phase' \in [Procs -> {"idle", "waiting", "publishing"}]
      /\ job' \in [Procs -> (Commands \cup {Set(Empty)}) \X BOOLEAN]
      /\ left' \in [Procs -> BOOLEAN]
      /\ HolderPublishes' /\ JobsOK' /\ LineOK'
  <2>1. (\E gone \in BOOLEAN : Publishing(p, j, gone)) \/ Release(p)
    BY DEF DeliverLocked
  <2>2. QED BY <2>1, PublishingControl, ReleaseControl DEF Control
<1>8. cut' \subseteq Keys
  <2>1. cut' = cut \ DOMAIN params
    BY DEF DeliverLocked
  <2>2. QED BY <2>1 DEF Control, TypeOK
<1>9. TypeOK'
  BY <1>3, <1>4, <1>5, <1>6, <1>7, <1>8 DEF Control, TypeOK, LineFor, ha, link
<1>10. QED BY <1>7, <1>9 DEF Control

(* The jobs a panel request may bring.                                     *)
LEMMA PanelJobFacts ==
    ASSUME NEW j \in PanelJobs
    PROVE  /\ j \in Commands \X BOOLEAN
           /\ ~j[2] => \E f \in BareWrites : j[1] = Set(f)
           /\ IsSet(j[1]) => \/ \E f \in PanelWrites : j[1] = Set(f)
                             \/ ~j[2]
           /\ AskedFor(j[1]) \subseteq Actions
           /\ ~IsSet(j[1]) => j[2] /\ \E a \in Actions \ asked : j[1] = Act(a)
<1>1. \/ \E f \in PanelWrites : j = <<Set(f), TRUE>>
      \/ \E f \in BareWrites : j = <<Set(f), FALSE>>
      \/ \E a \in Actions \ asked : j = <<Act(a), TRUE>>
  BY DEF PanelJobs
<1>2. ASSUME NEW f, NEW b \in BOOLEAN, j = <<Set(f), b>>, f \in PanelWrites \/ f \in BareWrites
      PROVE  j \in Commands \X BOOLEAN /\ j[1] = Set(f) /\ j[2] = b /\ IsSet(j[1])
  <2>1. f \in Assignments /\ f # Empty
    BY <1>2, WriteAssumption
  <2>2. Set(f) \in Commands /\ IsSet(Set(f))
    BY <2>1, CommandFacts
  <2>3. QED BY <1>2, <2>2
<1>3. ASSUME NEW a \in Actions, j = <<Act(a), TRUE>>
      PROVE  j \in Commands \X BOOLEAN /\ j[1] = Act(a) /\ j[2] = TRUE /\ ~IsSet(j[1])
  <2>1. Act(a) \in Commands /\ ~IsSet(Act(a))
    BY CommandFacts
  <2>2. QED BY <1>3, <2>1
<1>4. j \in Commands \X BOOLEAN
  BY <1>1, <1>2, <1>3
<1>5. ~j[2] => \E f \in BareWrites : j[1] = Set(f)
  BY <1>1, <1>2, <1>3
<1>6. IsSet(j[1]) => (\E f \in PanelWrites : j[1] = Set(f)) \/ ~j[2]
  BY <1>1, <1>2, <1>3
<1>7. ~IsSet(j[1]) => j[2] /\ \E a \in Actions \ asked : j[1] = Act(a)
  BY <1>1, <1>2, <1>3
<1>8. AskedFor(j[1]) \subseteq Actions
  BY <1>4, CommandFacts DEF AskedFor, AllCommands
<1>9. QED BY <1>4, <1>5, <1>6, <1>7, <1>8

(* A request that finds the lock taken stands in line.                     *)
LEMMA WaitControl ==
    ASSUME Control, NEW p \in Procs, phase[p] = "idle",
           NEW j \in (Commands \cup {Set(Empty)}) \X BOOLEAN,
           IF p = Recovery THEN j = NoJob ELSE j[1] \in Commands,
           waiters' = Append(waiters, p), phase' = [phase EXCEPT ![p] = "waiting"],
           job' = [job EXCEPT ![p] = j], UNCHANGED <<lock, left, ha>>
    PROVE  /\ waiters' \in Seq(Procs)
           /\ phase' \in [Procs -> {"idle", "waiting", "publishing"}]
           /\ job' \in [Procs -> (Commands \cup {Set(Empty)}) \X BOOLEAN]
           /\ HolderPublishes' /\ JobsOK' /\ LineOK'
<1>1. /\ waiters' \in Seq(Procs)
      /\ phase' \in [Procs -> {"idle", "waiting", "publishing"}]
      /\ job' \in [Procs -> (Commands \cup {Set(Empty)}) \X BOOLEAN]
  BY DEF Control, TypeOK
<1>2. HolderPublishes'
  BY ProcFacts DEF Control, TypeOK, HolderPublishes
<1>3. JobsOK'
  <2>1. \A q \in Procs : q # p => phase'[q] = phase[q] /\ job'[q] = job[q] /\ left'[q] = left[q]
    BY DEF Control, TypeOK
  <2>2. phase'[p] = "waiting" /\ job'[p] = j /\ left'[p] = FALSE
    BY DEF Control, TypeOK, JobsOK
  <2>3. QED BY <2>1, <2>2 DEF Control, JobsOK, ha
<1>4. LineOK'
  <2>1. /\ DOMAIN waiters' = 1..(Len(waiters) + 1) /\ Len(waiters) \in Nat
        /\ DOMAIN waiters = 1..Len(waiters)
        /\ \A i \in DOMAIN waiters : waiters'[i] = waiters[i] /\ waiters[i] \in Procs
        /\ waiters'[Len(waiters) + 1] = p
    BY DEF Control, TypeOK
  <2>2. \A i \in DOMAIN waiters' : i \in DOMAIN waiters \/ i = Len(waiters) + 1
    BY <2>1
  <2>3. \A i \in DOMAIN waiters : waiters[i] # p /\ phase'[waiters[i]] = "waiting"
    BY <2>1 DEF Control, TypeOK, LineOK
  <2>4. phase'[p] = "waiting"
    BY DEF Control, TypeOK
  <2>5. QED BY <2>1, <2>2, <2>3, <2>4 DEF Control, LineOK
<1>5. QED BY <1>1, <1>2, <1>3, <1>4

(* The publishing process stands in no line.                               *)
LEMMA PublisherOutOfLine ==
    ASSUME Control, NEW p \in Procs, phase[p] # "waiting"
    PROVE  LineFor(p, waiters)
BY DEF LineFor, Control, TypeOK, LineOK

(* A panel request, its lock free or not, keeps Control.                   *)
LEMMA RequestControl ==
    ASSUME Control, NEW p \in Panels, PanelRequest(p)
    PROVE  Control'
<1>1. PICK j \in PanelJobs, transport \in Transports :
        /\ settings' = Override(settings, Params(j[1]))
        /\ asked' = asked \cup AskedFor(j[1])
        /\ IF LockFree
             THEN DeliverLocked(p, j, transport) /\ UNCHANGED waiters
             ELSE /\ waiters' = Append(waiters, p)
                  /\ phase' = [phase EXCEPT ![p] = "waiting"]
                  /\ job' = [job EXCEPT ![p] = j]
                  /\ UNCHANGED <<pending, queue, lock, left, told, want, owed, runs, cut>>
        /\ IF j[2] THEN Saved ELSE UNCHANGED stored
  BY DEF PanelRequest
<1>2. p \in Procs /\ p # Recovery /\ j \in Commands \X BOOLEAN
  BY ProcFacts, PanelJobFacts
<1>3. asked' \subseteq Actions
  BY <1>1, PanelJobFacts DEF Control, TypeOK
<1>4. settings' \in [Keys -> Values]
  BY <1>1, <1>2, CommandFacts, OverrideTyped DEF Control, TypeOK, AllCommands
<1>5. UNCHANGED <<ha, link>> /\ phase[p] = "idle"
  BY DEF PanelRequest
<1>6. CASE LockFree
  <2>1. lock = Nobody /\ waiters' = waiters /\ DeliverLocked(p, j, transport)
    BY <1>1, <1>6 DEF LockFree
  <2>2. LineFor(p, waiters')
    BY <1>2, <1>5, <2>1, PublisherOutOfLine
  <2>3. Saved \/ UNCHANGED stored
    BY <1>1
  <2>4. QED BY <1>2, <1>3, <1>4, <1>5, <2>1, <2>2, <2>3, DeliverControl
<1>7. CASE ~LockFree
  <2>1. /\ waiters' \in Seq(Procs)
        /\ phase' \in [Procs -> {"idle", "waiting", "publishing"}]
        /\ job' \in [Procs -> (Commands \cup {Set(Empty)}) \X BOOLEAN]
        /\ HolderPublishes' /\ JobsOK' /\ LineOK'
    BY <1>1, <1>2, <1>5, <1>7, WaitControl
  <2>2. disk' \in [settings : [Keys -> Values], pending : Assignments] /\ dirty' \in BOOLEAN
    <3>1. (Saved \/ UNCHANGED stored) /\ pending' \in Assignments
      BY <1>1, <1>7 DEF Control, TypeOK
    <3>2. QED BY <1>4, <3>1, SavedTyped DEF Control
  <2>3. TypeOK'
    BY <1>1, <1>3, <1>4, <1>5, <1>7, <2>1, <2>2 DEF Control, TypeOK, ha, link
  <2>4. QED BY <2>1, <2>3 DEF Control
<1>8. QED BY <1>6, <1>7

(* So does the turn of the first in line,                                  *)
LEMMA TurnControl ==
    ASSUME Control, NEW p \in Panels, PanelGetsLock(p)
    PROVE  Control'
<1>1. PICK transport \in Transports : DeliverLocked(p, job[p], transport)
  BY DEF PanelGetsLock
<1>2. p \in Procs /\ p # Recovery /\ NextWaiter(p) /\ waiters' = Tail(waiters)
  BY ProcFacts DEF PanelGetsLock
<1>3. phase[p] = "waiting" /\ job[p] \in Commands \X BOOLEAN /\ lock = Nobody
  <2>1. phase[p] = "waiting" /\ lock = Nobody
    BY <1>2, LineMoves DEF Control
  <2>2. job[p] \in (Commands \cup {Set(Empty)}) \X BOOLEAN /\ job[p][1] \in Commands
    BY <1>2, <2>1 DEF Control, TypeOK, JobsOK
  <2>3. QED BY <2>1, <2>2
<1>4. LineFor(p, waiters')
  BY <1>2, LineMoves DEF Control
<1>5. /\ UNCHANGED <<ha, link, asked, settings>> /\ settings' \in [Keys -> Values]
      /\ asked' \subseteq Actions
      /\ Saved \/ UNCHANGED stored
  BY DEF PanelGetsLock, Control, TypeOK
<1>6. QED BY <1>1, <1>2, <1>3, <1>4, <1>5, DeliverControl

(* a publish that returns,                                                 *)
LEMMA ReturnControl ==
    ASSUME Control, NEW p \in Procs, PublishReturns(p)
    PROVE  Control'
<1> DEFINE sent == Params(job[p][1])
<1>1. /\ lock = p /\ phase[p] = "publishing" /\ Release(p)
      /\ UNCHANGED <<waiters, ha, link, history, settings>>
      /\ pending' = PendingAfterCompleted(pending, sent)
      /\ queue' = QueueAfterCompleted(queue, sent)
      /\ Saved \/ UNCHANGED stored
  BY DEF PublishReturns, Complete, Control, HolderPublishes
<1>2. pending' \in Assignments
  BY <1>1, WithoutTyped DEF Control, TypeOK, PendingAfterCompleted
<1>3. queue' \in Seq(Commands)
  BY <1>1, CompletedQueueFacts DEF Control, TypeOK
<1>4. disk' \in [settings : [Keys -> Values], pending : Assignments] /\ dirty' \in BOOLEAN
  BY <1>1, <1>2, SavedTyped DEF Control, TypeOK
<1>5. /\ lock' \in Procs \cup {Nobody}
      /\ phase' \in [Procs -> {"idle", "waiting", "publishing"}]
      /\ job' \in [Procs -> (Commands \cup {Set(Empty)}) \X BOOLEAN]
      /\ left' \in [Procs -> BOOLEAN]
      /\ HolderPublishes' /\ JobsOK' /\ LineOK'
  <2>1. LineFor(p, waiters')
    BY <1>1, PublisherOutOfLine
  <2>2. QED BY <1>1, <2>1, ReleaseControl DEF Control
<1>6. TypeOK'
  BY <1>1, <1>2, <1>3, <1>4, <1>5 DEF Control, TypeOK, ha, link, history
<1>7. QED BY <1>5, <1>6 DEF Control

(* a publish that raises,                                                  *)
LEMMA RaiseControl ==
    ASSUME Control, NEW p \in Procs, PublishRaises(p)
    PROVE  Control'
<1>1. /\ lock = p /\ phase[p] = "publishing" /\ Release(p) /\ job[p][1] \in Commands
      /\ UNCHANGED <<waiters, ha, link, history, settings, pending, stored>>
      /\ queue' = queue \/ queue' = Append(queue, job[p][1])
  BY DEF PublishRaises, Control, HolderPublishes, JobsOK
<1>2. queue' \in Seq(Commands)
  <2>1. queue \in Seq(Commands)
    BY DEF Control, TypeOK
  <2>2. QED BY <1>1, <2>1
<1>3. /\ lock' \in Procs \cup {Nobody}
      /\ phase' \in [Procs -> {"idle", "waiting", "publishing"}]
      /\ job' \in [Procs -> (Commands \cup {Set(Empty)}) \X BOOLEAN]
      /\ left' \in [Procs -> BOOLEAN]
      /\ HolderPublishes' /\ JobsOK' /\ LineOK'
  <2>1. LineFor(p, waiters')
    BY <1>1, PublisherOutOfLine
  <2>2. QED BY <1>1, <2>1, ReleaseControl DEF Control
<1>4. TypeOK'
  BY <1>1, <1>2, <1>3 DEF Control, TypeOK, ha, link, history, stored
<1>5. QED BY <1>3, <1>4 DEF Control

(* a publish of the recovery loop,                                         *)
LEMMA RecoveryControl ==
    ASSUME Control, NEW gone \in BOOLEAN, lock = Nobody, RecoveryPublishes(gone),
           UNCHANGED <<memory, stored, ha, link, want, asked, cut>>,
           LineFor(Recovery, waiters')
    PROVE  Control'
<1> DEFINE j == <<Set(pending), TRUE>>
<1>1. Publishing(Recovery, j, gone) /\ HandOverIf(gone, j[1], want, owed) /\ pending # Empty
  BY DEF RecoveryPublishes
<1>2. j \in Commands \X BOOLEAN /\ j[1] \in AllCommands
  BY <1>1, CommandFacts DEF Control, TypeOK, AllCommands
<1> HIDE DEF j
<1>3. told' \in [Keys -> Values] /\ owed' \subseteq Keys /\ runs' \in [Actions -> Nat]
  <2>1. owed \in SUBSET Keys /\ told \in [Keys -> Values] /\ runs \in [Actions -> Nat]
    BY DEF Control, TypeOK
  <2>2. QED BY <1>1, <1>2, <2>1, HandOverTyped
<1>4. /\ lock' \in Procs \cup {Nobody}
      /\ phase' \in [Procs -> {"idle", "waiting", "publishing"}]
      /\ job' \in [Procs -> (Commands \cup {Set(Empty)}) \X BOOLEAN]
      /\ left' \in [Procs -> BOOLEAN]
      /\ HolderPublishes' /\ JobsOK' /\ LineOK'
  BY <1>1, <1>2, ProcFacts, PublishingControl DEF Control
<1>5. TypeOK'
  BY <1>3, <1>4 DEF Control, TypeOK, LineFor, ha, link, memory, stored
<1>6. QED BY <1>4, <1>5 DEF Control

(* The connection is lost: recovery is taken out of the line, or its lock  *)
(* from it.                                                                *)
LEMMA LineWithoutRecovery ==
    ASSUME Control, BridgeDisconnects
    PROVE  LineFor(Recovery, waiters')
<1> DEFINE S == {i \in DOMAIN waiters : waiters[i] # Recovery}
<1>1. waiters' = Sift(waiters, S) /\ S \in SUBSET DOMAIN waiters /\ waiters \in Seq(Procs)
  BY DEF BridgeDisconnects, Control, TypeOK
<1> HIDE DEF S
<1>2. /\ waiters' \in Seq(Procs) /\ DOMAIN waiters' = 1..Cardinality(S)
      /\ \A i \in DOMAIN waiters' : Nth(S, i) \in S /\ waiters'[i] = waiters[Nth(S, i)]
      /\ \A i, j \in DOMAIN waiters' : i < j => Nth(S, i) < Nth(S, j)
  BY <1>1, SiftFacts
<1>3. \A i \in DOMAIN waiters' : phase[waiters'[i]] = "waiting" /\ waiters'[i] # Recovery
  <2>1. \A i \in S : phase[waiters[i]] = "waiting" /\ waiters[i] # Recovery
    BY DEF S, Control, LineOK
  <2>2. QED BY <1>2, <2>1
<1>4. \A i, n \in DOMAIN waiters' : waiters'[i] = waiters'[n] => i = n
  <2> SUFFICES ASSUME NEW i \in DOMAIN waiters', NEW n \in DOMAIN waiters',
                      waiters'[i] = waiters'[n]
               PROVE  i = n
    OBVIOUS
  <2>1. Nth(S, i) \in DOMAIN waiters /\ Nth(S, n) \in DOMAIN waiters /\ Nth(S, i) = Nth(S, n)
    BY <1>1, <1>2 DEF Control, LineOK
  <2>2. Nth(S, i) \in Int /\ i \in Int /\ n \in Int
    BY <1>1, <1>2, <2>1
  <2>3. ~(i < n) /\ ~(n < i)
    BY <1>2, <2>1, <2>2
  <2>4. QED BY <2>2, <2>3
<1>5. QED BY <1>2, <1>3, <1>4 DEF LineFor

(* a bridge that loses the broker,                                         *)
LEMMA DisconnectControl ==
    ASSUME Control, BridgeDisconnects
    PROVE  Control'
<1>1. LineFor(Recovery, waiters')
  BY LineWithoutRecovery
<1>2. /\ UNCHANGED <<memory, stored, ha, mqtt_connected, history>> /\ client' = FALSE
      /\ lock' = IF lock = Recovery THEN Nobody ELSE lock
      /\ phase' = [phase EXCEPT ![Recovery] = "idle"]
      /\ job' = [job EXCEPT ![Recovery] = NoJob]
      /\ left' = [left EXCEPT ![Recovery] = FALSE]
  BY DEF BridgeDisconnects
<1>3. /\ lock' \in Procs \cup {Nobody}
      /\ phase' \in [Procs -> {"idle", "waiting", "publishing"}]
      /\ job' \in [Procs -> (Commands \cup {Set(Empty)}) \X BOOLEAN]
      /\ left' \in [Procs -> BOOLEAN]
  BY <1>2, NoJobFacts DEF Control, TypeOK
<1>4. HolderPublishes'
  BY <1>2, ProcFacts DEF Control, TypeOK, HolderPublishes
<1>5. JobsOK' /\ LineOK'
  <2>1. \A q \in Procs : q # Recovery =>
          phase'[q] = phase[q] /\ job'[q] = job[q] /\ left'[q] = left[q]
    BY <1>2 DEF Control, TypeOK
  <2>2. phase'[Recovery] = "idle" /\ job'[Recovery] = NoJob /\ left'[Recovery] = FALSE
    BY <1>2, ProcFacts DEF Control, TypeOK
  <2>3. JobsOK'
    BY <1>2, <2>1, <2>2 DEF Control, JobsOK, ha
  <2>4. \A i \in DOMAIN waiters' : waiters'[i] \in Procs
    BY <1>1 DEF LineFor
  <2>5. QED BY <1>1, <2>1, <2>3, <2>4 DEF LineOK, LineFor
<1>6. TypeOK'
  BY <1>1, <1>2, <1>3 DEF Control, TypeOK, LineFor, memory, stored, ha, history
<1>7. QED BY <1>4, <1>5, <1>6 DEF Control

(* A non-empty set of naturals has a least element.                        *)
LEMMA LeastNat ==
    ASSUME NEW T \in SUBSET Nat, T # {}
    PROVE  \E n \in T : \A m \in T : n <= m
<1> DEFINE R == {ss \in Nat \X Nat : ss[1] < ss[2]}
<1>1. IsWellFoundedOn(R, Nat)
  BY NatLessThanWellFounded DEF OpToRel
<1>2. PICK n \in T : \A m \in T : ~(<<m, n>> \in R)
  BY <1>1, WFMin
<1>3. \A a, b \in Nat : a < b => <<a, b>> \in R
  OBVIOUS
<1> HIDE DEF R
<1>4. \A m \in T : ~(m < n)
  BY <1>2, <1>3
<1>5. \A m \in T : n <= m
  BY <1>4
<1>6. QED BY <1>5

(* A non-empty set of positions has a last one.                            *)
LEMMA LastIn ==
    ASSUME NEW n \in Nat, NEW S \in SUBSET (1..n), S # {}
    PROVE  LastOf(S) \in S /\ \A i \in S : i <= LastOf(S)
<1> DEFINE T == {n - i : i \in S}
<1>1. T \in SUBSET Nat /\ T # {}
  <2>1. \A i \in S : n - i \in Nat
    OBVIOUS
  <2>2. QED BY <2>1
<1>2. PICK t \in T : \A m \in T : t <= m
  BY <1>1, LeastNat
<1>3. PICK i \in S : t = n - i
  OBVIOUS
<1>4. \A j \in S : n - i <= n - j /\ j \in Int
  BY <1>2, <1>3
<1>5. \A j \in S : j <= i
  BY <1>4
<1>6. QED BY <1>5 DEF LastOf

(* A poll keeps Control,                                                   *)
LEMMA PollControl ==
    ASSUME Control, Heartbeat
    PROVE  Control'
<1>1. HolderPublishes' /\ JobsOK' /\ LineOK'
  BY DEF Control, HolderPublishes, JobsOK, LineOK, Heartbeat, locking, ha
<1>2. queue' \in Seq(Commands) /\ pending' \in Assignments
  BY AssignmentFacts DEF Heartbeat
<1>3. told' \in [Keys -> Values]
  <2> SUFFICES ASSUME NEW k \in Keys PROVE told'[k] \in Values
    BY DEF Heartbeat
  <2>1. CASE k \in DOMAIN pending
    <3>1. told'[k] = pending[k]
      BY <2>1 DEF Heartbeat
    <3>2. QED BY <2>1, <3>1, AssignmentFacts DEF Control, TypeOK
  <2>2. CASE k \notin DOMAIN pending /\ KeptFor(k) # {}
    <3> DEFINE i == LastOf(KeptFor(k))
    <3>1. told'[k] = queue[i].params[k]
      BY <2>2 DEF Heartbeat
    <3>2. i \in KeptFor(k)
      <4>1. DOMAIN queue = 1..Len(queue) /\ Len(queue) \in Nat
        BY DEF Control, TypeOK
      <4>2. KeptFor(k) \in SUBSET (1..Len(queue))
        BY <4>1 DEF KeptFor, CarriersOf
      <4>3. QED BY <2>2, <4>1, <4>2, LastIn
    <3> HIDE DEF i
    <3>3. queue[i] \in AllCommands /\ k \in DOMAIN Params(queue[i])
      BY <3>2 DEF KeptFor, CarriersOf, Control, TypeOK, AllCommands
    <3>4. queue[i].params = Params(queue[i]) /\ Params(queue[i]) \in Assignments
      BY <3>3, CommandFacts, NoJobFacts
    <3>5. QED BY <3>1, <3>3, <3>4, AssignmentFacts
  <2>3. CASE k \notin DOMAIN pending /\ KeptFor(k) = {}
    BY <2>3 DEF Heartbeat, Control, TypeOK
  <2>4. QED BY <2>1, <2>2, <2>3
<1>4. owed' \subseteq Keys
  BY DEF Heartbeat, Control, TypeOK
<1>5. runs' \in [Actions -> Nat]
  <2>1. \A a : Cardinality({i \in DOMAIN queue : queue[i] = Act(a)}) \in Nat
    <3>1. DOMAIN queue = 1..Len(queue) /\ Len(queue) \in Nat
      BY DEF Control, TypeOK
    <3>2. \A a : {i \in DOMAIN queue : queue[i] = Act(a)} \in SUBSET (1..Len(queue))
      BY <3>1
    <3>3. QED BY <3>1, <3>2, UpToFinite
  <2>2. runs \in [Actions -> Nat] /\ runs' = [a \in Actions |->
                  runs[a] + Cardinality({i \in DOMAIN queue : queue[i] = Act(a)})]
    BY DEF Heartbeat, Control, TypeOK
  <2>3. \A a \in Actions :
          runs[a] + Cardinality({i \in DOMAIN queue : queue[i] = Act(a)}) \in Nat
    BY <2>1, <2>2
  <2>4. QED BY <2>2, <2>3
<1>6. dirty' \in BOOLEAN
  BY DEF Heartbeat
<1>7. TypeOK'
  BY <1>2, <1>3, <1>4, <1>5, <1>6 DEF Heartbeat, Control, TypeOK, locking, ha, link
<1>8. QED BY <1>1, <1>7 DEF Control

(* as do a command of Home Assistant,                                      *)
LEMMA HACommandControl ==
    ASSUME Control, HACommand
    PROVE  Control'
<1>1. PICK cmd \in {Set(f) : f \in HAWrites} \cup {Act(a) : a \in HAActions \ asked} :
         /\ settings' = Override(settings, Params(cmd))
         /\ asked' = asked \cup AskedFor(cmd)
         /\ IF mqtt_connected /\ client
              THEN \E gone \in BOOLEAN :
                     /\ haPhase' = "publishing" /\ haJob' = cmd /\ haLeft' = gone
                     /\ HandOverIf(gone, cmd, want, owed)
                     /\ UNCHANGED <<queue, dirty>>
              ELSE /\ queue' = Append(queue, cmd)
                   /\ dirty' = TRUE
                   /\ Hold(owed)
                   /\ UNCHANGED ha
  BY DEF HACommand
<1>2. cmd \in Commands /\ cmd \in AllCommands
  <2>1. ASSUME NEW f \in HAWrites PROVE Set(f) \in Commands
    BY WriteAssumption, CommandFacts
  <2>2. ASSUME NEW a \in HAActions PROVE Act(a) \in Commands
    BY WriteAssumption, CommandFacts
  <2>3. QED BY <2>1, <2>2 DEF AllCommands
<1>3. settings' \in [Keys -> Values] /\ asked' \subseteq Actions
  <2>1. Params(cmd) \in Assignments /\ AskedFor(cmd) \subseteq Actions
    BY <1>2, CommandFacts DEF AskedFor
  <2>2. QED BY <1>1, <2>1, OverrideTyped DEF Control, TypeOK
<1>4. HolderPublishes' /\ LineOK' /\ UNCHANGED <<pending, disk, locking, link, want, cut>>
  BY DEF HACommand, Control, HolderPublishes, LineOK, locking
<1>5. CASE mqtt_connected /\ client
  <2>1. PICK gone \in BOOLEAN :
          /\ haPhase' = "publishing" /\ haJob' = cmd /\ haLeft' = gone
          /\ HandOverIf(gone, cmd, want, owed)
          /\ UNCHANGED <<queue, dirty>>
    BY <1>1, <1>5
  <2>2. owed \in SUBSET Keys /\ told \in [Keys -> Values] /\ runs \in [Actions -> Nat]
    BY DEF Control, TypeOK
  <2>3. told' \in [Keys -> Values] /\ owed' \subseteq Keys /\ runs' \in [Actions -> Nat]
    BY <1>2, <2>1, <2>2, HandOverTyped
  <2>4. JobsOK'
    BY <1>2, <1>4, <2>1 DEF Control, JobsOK, locking
  <2>5. TypeOK'
    BY <1>2, <1>3, <1>4, <2>1, <2>3 DEF Control, TypeOK, locking, link
  <2>6. QED BY <1>4, <2>4, <2>5 DEF Control
<1>6. CASE ~(mqtt_connected /\ client)
  <2>1. queue' = Append(queue, cmd) /\ dirty' = TRUE /\ Hold(owed) /\ UNCHANGED ha
    BY <1>1, <1>6
  <2>2. queue' \in Seq(Commands)
    <3>1. queue \in Seq(Commands)
      BY DEF Control, TypeOK
    <3>2. QED BY <1>2, <2>1, <3>1
  <2>3. JobsOK'
    BY <1>4, <2>1 DEF Control, JobsOK, locking, ha
  <2>4. TypeOK'
    BY <1>3, <1>4, <2>1, <2>2 DEF Control, TypeOK, Hold, locking, link, ha
  <2>5. QED BY <1>4, <2>3, <2>4 DEF Control
<1>7. QED BY <1>5, <1>6

(* the end of its publish,                                                 *)
LEMMA HAEndsControl ==
    ASSUME Control, HAPublishEnds
    PROVE  Control'
<1>1. /\ haJob \in Commands
      /\ queue' = queue \/ queue' = Append(queue, haJob)
      /\ dirty' = TRUE /\ haPhase' = "idle" /\ haJob' = Set(Empty) /\ haLeft' = FALSE
      /\ UNCHANGED <<settings, pending, disk, locking, link, history>>
  BY DEF HAPublishEnds, Control, JobsOK
<1>2. queue' \in Seq(Commands)
  <2>1. queue \in Seq(Commands)
    BY DEF Control, TypeOK
  <2>2. QED BY <1>1, <2>1
<1>3. HolderPublishes' /\ JobsOK' /\ LineOK'
  BY <1>1 DEF Control, HolderPublishes, JobsOK, LineOK, locking
<1>4. TypeOK'
  BY <1>1, <1>2 DEF Control, TypeOK, locking, link, history
<1>5. QED BY <1>3, <1>4 DEF Control

(* a kill, whatever the file then holds,                                   *)
LEMMA StartControl ==
    ASSUME Control, NEW saved \in [settings : [Keys -> Values], pending : Assignments],
           NEW lost \in SUBSET Keys, StartsFrom(saved, lost)
    PROVE  Control'
<1>1. /\ lock' = Nobody /\ waiters' = <<>> /\ queue' = <<>>
      /\ phase' = [p \in Procs |-> "idle"] /\ job' = [p \in Procs |-> NoJob]
      /\ left' = [p \in Procs |-> FALSE]
      /\ haPhase' = "idle" /\ haJob' = Set(Empty) /\ haLeft' = FALSE
      /\ settings' = saved.settings /\ pending' = saved.pending
      /\ dirty' = FALSE /\ disk' = saved /\ client' = FALSE /\ mqtt_connected' = FALSE
      /\ cut' = cut \cup lost
      /\ UNCHANGED <<told, want, owed, runs, asked>>
  BY DEF StartsFrom
<1>2. HolderPublishes' /\ JobsOK' /\ LineOK'
  BY <1>1, ProcFacts DEF HolderPublishes, JobsOK, LineOK
<1>3. TypeOK'
  <2>1. queue' \in Seq(Commands) /\ waiters' \in Seq(Procs)
    BY <1>1
  <2>2. settings' \in [Keys -> Values] /\ pending' \in Assignments /\ cut' \subseteq Keys
    BY <1>1 DEF Control, TypeOK
  <2>3. /\ phase' \in [Procs -> {"idle", "waiting", "publishing"}]
        /\ job' \in [Procs -> (Commands \cup {Set(Empty)}) \X BOOLEAN]
        /\ left' \in [Procs -> BOOLEAN]
    BY <1>1, NoJobFacts
  <2>4. QED BY <1>1, <2>1, <2>2, <2>3 DEF Control, TypeOK
<1>4. QED BY <1>2, <1>3 DEF Control

(* What waits is of settings the device knows.                             *)
LEMMA UnrememberedTyped ==
    ASSUME Control
    PROVE  Unremembered \in SUBSET Keys
<1>1. ASSUME NEW p \in Panels PROVE DOMAIN Params(job[p][1]) \subseteq Keys
  <2>1. job[p][1] \in AllCommands
    BY ProcFacts DEF Control, TypeOK, AllCommands
  <2>2. Params(job[p][1]) \in Assignments
    BY <2>1, CommandFacts
  <2>3. QED BY <2>2, AssignmentFacts
<1>2. QED BY <1>1 DEF Unremembered

(* between the two saves of a request or elsewhere,                        *)
LEMMA KillStarts ==
    ASSUME Control, Restart \/ KilledBetweenSaves
    PROVE  \E saved \in [settings : [Keys -> Values], pending : Assignments],
              lost \in SUBSET Keys :
             StartsFrom(saved, lost) /\ saved.pending \in {disk.pending, pending}
<1>1. CASE Restart
  <2>1. disk \in [settings : [Keys -> Values], pending : Assignments]
    BY DEF Control, TypeOK
  <2>2. QED BY <1>1, <2>1, UnrememberedTyped DEF Restart
<1>2. CASE KilledBetweenSaves
  <2>1. PICK f \in PanelWrites :
          StartsFrom([settings |-> Override(settings, f), pending |-> pending], DOMAIN f)
    BY <1>2 DEF KilledBetweenSaves
  <2>2. f \in Assignments
    BY WriteAssumption
  <2>3. Override(settings, f) \in [Keys -> Values] /\ pending \in Assignments
        /\ DOMAIN f \in SUBSET Keys
    BY <2>2, OverrideTyped, AssignmentFacts DEF Control, TypeOK
  <2>4. [settings |-> Override(settings, f), pending |-> pending]
          \in [settings : [Keys -> Values], pending : Assignments]
    BY <2>3
  <2>5. [settings |-> Override(settings, f), pending |-> pending].pending = pending
    OBVIOUS
  <2>6. QED BY <2>1, <2>3, <2>4, <2>5
<1>3. QED BY <1>1, <1>2

(* the registry's writer,                                                  *)
LEMMA FlushControl ==
    ASSUME Control, Flush
    PROVE  Control'
<1>1. UNCHANGED <<memory, locking, ha, link, history>> /\ Saved
  BY DEF Flush
<1>2. disk' \in [settings : [Keys -> Values], pending : Assignments] /\ dirty' \in BOOLEAN
  BY <1>1, SavedTyped DEF Control, TypeOK, memory
<1>3. HolderPublishes' /\ JobsOK' /\ LineOK'
  BY <1>1 DEF Control, HolderPublishes, JobsOK, LineOK, locking, ha
<1>4. TypeOK'
  BY <1>1, <1>2 DEF Control, TypeOK, memory, locking, ha, link, history
<1>5. QED BY <1>3, <1>4 DEF Control

(* and the coming and going of bridge and routing.                         *)
LEMMA LinkControl ==
    ASSUME Control, client' \in BOOLEAN, mqtt_connected' \in BOOLEAN,
           UNCHANGED <<memory, stored, locking, ha, history>>
    PROVE  Control'
<1>1. HolderPublishes' /\ JobsOK' /\ LineOK'
  BY DEF Control, HolderPublishes, JobsOK, LineOK, locking, ha
<1>2. TypeOK'
  BY DEF Control, TypeOK, memory, stored, locking, ha, history
<1>3. QED BY <1>1, <1>2 DEF Control

(* Control is inductive.                                                   *)
LEMMA ControlInit == Init => Control
<1> SUFFICES ASSUME Init PROVE Control
  OBVIOUS
<1>1. TypeOK
  <2>1. queue \in Seq(Commands) /\ waiters \in Seq(Procs)
    BY DEF Init
  <2>2. /\ phase \in [Procs -> {"idle", "waiting", "publishing"}]
        /\ job \in [Procs -> (Commands \cup {Set(Empty)}) \X BOOLEAN]
        /\ left \in [Procs -> BOOLEAN] /\ runs \in [Actions -> Nat]
    BY NoJobFacts DEF Init
  <2>3. disk \in [settings : [Keys -> Values], pending : Assignments] /\ pending \in Assignments
    BY AssignmentFacts DEF Init
  <2>4. QED BY <2>1, <2>2, <2>3 DEF Init, TypeOK
<1>2. HolderPublishes /\ JobsOK /\ LineOK
  BY ProcFacts DEF Init, HolderPublishes, JobsOK, LineOK
<1>3. QED BY <1>1, <1>2 DEF Control

(* Every step keeps Control.                                               *)
LEMMA ControlStep == Control /\ [Next]_vars => Control'
<1> SUFFICES ASSUME Control, [Next]_vars PROVE Control'
  OBVIOUS
<1>1. ASSUME NEW p \in Panels, PanelRequest(p) PROVE Control'
  BY <1>1, RequestControl
<1>2. ASSUME NEW p \in Panels, PanelGetsLock(p) PROVE Control'
  BY <1>2, TurnControl
<1>3. ASSUME NEW p \in Procs, PublishReturns(p) PROVE Control'
  BY <1>3, ReturnControl
<1>4. ASSUME NEW p \in Procs, PublishRaises(p) PROVE Control'
  BY <1>4, RaiseControl
<1>5. ASSUME NEW gone \in BOOLEAN, RecoveryTurn(gone) PROVE Control'
  <2>1. lock = Nobody /\ phase[Recovery] = "idle" /\ waiters' = waiters
    BY <1>5 DEF RecoveryTurn, LockFree
  <2>2. LineFor(Recovery, waiters')
    BY <2>1, ProcFacts, PublisherOutOfLine
  <2>3. QED BY <1>5, <2>1, <2>2, RecoveryControl DEF RecoveryTurn
<1>6. ASSUME NEW gone \in BOOLEAN, RecoveryGetsLock(gone) PROVE Control'
  <2>1. /\ LineFor(Recovery, waiters') /\ lock = Nobody
        /\ UNCHANGED <<memory, stored, ha, link, want, asked, cut>>
    BY <1>6, LineMoves DEF Control, RecoveryGetsLock
  <2>2. CASE RecoveryPublishes(gone)
    BY <2>1, <2>2, RecoveryControl
  <2>3. CASE Release(Recovery) /\ Hold(owed)
    <3>1. /\ lock' \in Procs \cup {Nobody}
          /\ phase' \in [Procs -> {"idle", "waiting", "publishing"}]
          /\ job' \in [Procs -> (Commands \cup {Set(Empty)}) \X BOOLEAN]
          /\ left' \in [Procs -> BOOLEAN]
          /\ HolderPublishes' /\ JobsOK' /\ LineOK'
      BY <2>1, <2>3, ProcFacts, ReleaseControl DEF Control
    <3>2. TypeOK'
      BY <2>1, <2>3, <3>1 DEF Control, TypeOK, LineFor, Hold, memory, stored, ha, link
    <3>3. QED BY <3>1, <3>2 DEF Control
  <2>4. QED BY <1>6, <2>2, <2>3 DEF RecoveryGetsLock
<1>7. CASE RecoveryWaits
  <2>1. /\ phase[Recovery] = "idle" /\ waiters' = Append(waiters, Recovery)
        /\ phase' = [phase EXCEPT ![Recovery] = "waiting"]
        /\ UNCHANGED <<memory, stored, lock, job, left, ha, link, history>>
    BY <1>7 DEF RecoveryWaits
  <2>2. job' = [job EXCEPT ![Recovery] = NoJob]
    BY <2>1, ProcFacts DEF Control, TypeOK, JobsOK
  <2>3. /\ waiters' \in Seq(Procs)
        /\ phase' \in [Procs -> {"idle", "waiting", "publishing"}]
        /\ HolderPublishes' /\ JobsOK' /\ LineOK'
    BY <2>1, <2>2, ProcFacts, NoJobFacts, WaitControl
  <2>4. TypeOK'
    BY <2>1, <2>3 DEF Control, TypeOK, memory, stored, ha, link, history
  <2>5. QED BY <2>3, <2>4 DEF Control
<1>8. CASE BridgeConnects \/ RoutingChanges \/ UNCHANGED vars
  <2>1. client \in BOOLEAN /\ mqtt_connected \in BOOLEAN
    BY DEF Control, TypeOK
  <2>2. /\ client' \in BOOLEAN /\ mqtt_connected' \in BOOLEAN
        /\ UNCHANGED <<memory, stored, locking, ha, history>>
    BY <1>8, <2>1 DEF BridgeConnects, RoutingChanges, vars, link
  <2>3. QED BY <2>2, LinkControl
<1>9. CASE BridgeDisconnects
  BY <1>9, DisconnectControl
<1>10. CASE Heartbeat
  BY <1>10, PollControl
<1>11. CASE HACommand
  BY <1>11, HACommandControl
<1>12. CASE HAPublishEnds
  BY <1>12, HAEndsControl
<1>13. CASE Flush
  BY <1>13, FlushControl
<1>14. CASE Restart \/ KilledBetweenSaves
  BY <1>14, KillStarts, StartControl
<1>15. QED
  BY <1>1, <1>2, <1>3, <1>4, <1>5, <1>6, <1>7, <1>8, <1>9, <1>10, <1>11, <1>12, <1>13, <1>14
     DEF Next

(* The state is well typed, only the lock's holder publishes, whoever      *)
(* waits or publishes has its command with it, and everyone stands in line *)
(* once.                                                                   *)
THEOREM ControlHolds == Spec => []Control
<1>1. Init => Control
  BY ControlInit
<1>2. Control /\ [Next]_vars => Control'
  BY ControlStep
<1>3. QED BY <1>1, <1>2, PTL DEF Spec

-----------------------------------------------------------------------------
(* 4. Only the latest value reaches the device.                            *)

(* What dict.update does to a mapping.                                     *)
LEMMA OverrideFacts ==
    ASSUME NEW f, NEW g
    PROVE  /\ DOMAIN Override(f, g) = DOMAIN f \cup DOMAIN g
           /\ \A k \in DOMAIN g : Override(f, g)[k] = g[k]
           /\ \A k \in DOMAIN f \ DOMAIN g : Override(f, g)[k] = f[k]
BY DEF Override

Carries(cmd, k) == k \in DOMAIN Params(cmd)

(* Whatever could still carry a setting to the device carries the value    *)
(* last asked for, and comes from a request that saves.                    *)
CarriesLatest(k) ==
    /\ k \in DOMAIN pending => pending[k] = want[k]
    /\ k \in DOMAIN disk.pending => disk.pending[k] = want[k]
    /\ \A i \in DOMAIN queue : Carries(queue[i], k) => Params(queue[i])[k] = want[k]
    /\ \A p \in Procs : Carries(job[p][1], k) =>
         job[p][2] /\ (phase[p] = "publishing" => Params(job[p][1])[k] = want[k])
    /\ ~Carries(haJob, k)

AllLatest == \A k \in PanelOnly : CarriesLatest(k)

(* Home Assistant and bare requests do not write such a setting.           *)
LEMMA PanelOnlyFacts ==
    ASSUME NEW k \in PanelOnly
    PROVE  k \in Keys /\ \A f \in HAWrites \cup BareWrites : k \notin DOMAIN f
BY DEF PanelOnly

(* No job and no action carries a setting.                                 *)
LEMMA NoneCarried == \A k : ~Carries(NoJob[1], k) /\ ~Carries(Set(Empty), k) /\ \A a : ~Carries(Act(a), k)
BY NoJobFacts, CommandFacts DEF Carries

(* One more command at the end of the queue.                               *)
LEMMA QueuedLatest ==
    ASSUME NEW q \in Seq(Commands), NEW cmd \in Commands, NEW k, NEW v,
           \A i \in DOMAIN q : Carries(q[i], k) => Params(q[i])[k] = v,
           Carries(cmd, k) => Params(cmd)[k] = v
    PROVE  LET r == Append(q, cmd)
           IN  \A i \in DOMAIN r : Carries(r[i], k) => Params(r[i])[k] = v
<1> DEFINE r == Append(q, cmd)
<1>1. /\ DOMAIN r = 1..(Len(q) + 1) /\ Len(q) \in Nat /\ DOMAIN q = 1..Len(q)
      /\ r[Len(q) + 1] = cmd /\ \A i \in DOMAIN q : r[i] = q[i]
  OBVIOUS
<1> HIDE DEF r
<1>2. \A i \in DOMAIN r : i \in DOMAIN q \/ i = Len(q) + 1
  BY <1>1
<1>3. QED BY <1>1, <1>2 DEF r

(* The jobs, when p's changes and what is wanted does not, or nobody       *)
(* publishes.                                                              *)
LEMMA JobsLatest ==
    ASSUME Control, NEW k, CarriesLatest(k), NEW p \in Procs, NEW j,
           job' = [job EXCEPT ![p] = j],
           \A q \in Procs : q # p => phase'[q] = phase[q],
           lock = Nobody \/ want'[k] = want[k],
           Carries(j[1], k) => j[2] /\ (phase'[p] = "publishing" => Params(j[1])[k] = want'[k])
    PROVE  \A q \in Procs : Carries(job'[q][1], k) =>
             job'[q][2] /\ (phase'[q] = "publishing" => Params(job'[q][1])[k] = want'[k])
<1> SUFFICES ASSUME NEW q \in Procs, Carries(job'[q][1], k)
             PROVE  job'[q][2] /\ (phase'[q] = "publishing" => Params(job'[q][1])[k] = want'[k])
  BY DEF Carries, Params, IsSet
<1>1. CASE q = p
  <2>1. job'[q] = j
    BY <1>1 DEF Control, TypeOK
  <2>2. QED BY <1>1, <2>1
<1>2. CASE q # p
  <2>1. job'[q] = job[q] /\ phase'[q] = phase[q]
    BY <1>2 DEF Control, TypeOK
  <2>2. phase[q] = "publishing" => lock # Nobody
    BY ProcFacts DEF Control, HolderPublishes
  <2>3. QED BY <2>1, <2>2 DEF CarriesLatest
<1>3. QED BY <1>1, <1>2

(* A delivery makes what it carries the latest value, and takes older      *)
(* values of it from the queue.                                            *)
LEMMA DeliverLatest ==
    ASSUME Control, NEW k \in PanelOnly, CarriesLatest(k), NEW p \in Procs, lock = Nobody,
           NEW j \in Commands \X BOOLEAN, NEW transport, DeliverLocked(p, j, transport),
           Saved \/ UNCHANGED stored, Carries(j[1], k) => Saved /\ j[2], haJob' = haJob
    PROVE  CarriesLatest(k)'
<1> DEFINE params == Params(j[1])
           rest   == QueueAfterRemember(queue, params)
<1>1. j[1] \in Commands /\ params \in Assignments /\ k \in DOMAIN want /\ queue \in Seq(Commands)
  BY CommandFacts, PanelOnlyFacts DEF AllCommands, Control, TypeOK
<1>2. pending' = Override(pending, params) /\ want' = Override(want, params)
  BY DEF DeliverLocked
<1>3. IF Carries(j[1], k) THEN k \in DOMAIN pending' /\ pending'[k] = params[k] /\ want'[k] = params[k]
      ELSE want'[k] = want[k] /\ (k \in DOMAIN pending' => k \in DOMAIN pending /\ pending'[k] = pending[k])
  <2>1. /\ DOMAIN pending' = DOMAIN pending \cup DOMAIN params
        /\ \A x \in DOMAIN params : pending'[x] = params[x] /\ want'[x] = params[x]
        /\ \A x \in DOMAIN pending \ DOMAIN params : pending'[x] = pending[x]
        /\ \A x \in DOMAIN want \ DOMAIN params : want'[x] = want[x]
    BY <1>2 DEF Override
  <2>2. QED BY <1>1, <2>1 DEF Carries
<1>4. k \in DOMAIN pending' => pending'[k] = want'[k]
  BY <1>3 DEF CarriesLatest
<1>5. k \in DOMAIN disk'.pending => disk'.pending[k] = want'[k]
  <2>1. CASE Saved
    <3>1. disk'.pending = pending'
      BY <2>1 DEF Saved
    <3>2. QED BY <1>4, <3>1
  <2>2. CASE ~Saved
    BY <1>3, <2>2 DEF CarriesLatest, stored
  <2>3. QED BY <2>1, <2>2
<1>6. \A i \in DOMAIN queue' : Carries(queue'[i], k) => Params(queue'[i])[k] = want'[k]
  <2>1. rest \in Seq(Commands)
        /\ \A i \in DOMAIN rest : Carries(rest[i], k) => Params(rest[i])[k] = want'[k]
    <3>1. /\ rest \in Seq(Commands)
          /\ \A i \in DOMAIN rest : \E n \in DOMAIN queue : \A x \in DOMAIN Params(rest[i]) :
               x \in DOMAIN Params(queue[n]) \ DOMAIN params /\ Params(rest[i])[x] = Params(queue[n])[x]
      BY <1>1, RememberFacts
    <3> HIDE DEF rest, params
    <3>2. ASSUME NEW i \in DOMAIN rest, Carries(rest[i], k)
          PROVE  Params(rest[i])[k] = want'[k]
      <4>1. PICK n \in DOMAIN queue :
              k \in DOMAIN Params(queue[n]) \ DOMAIN params /\ Params(rest[i])[k] = Params(queue[n])[k]
        BY <3>1, <3>2 DEF Carries
      <4>2. Carries(queue[n], k) /\ ~Carries(j[1], k)
        BY <4>1 DEF Carries, params
      <4>3. QED BY <1>3, <4>1, <4>2 DEF CarriesLatest
    <3>3. QED BY <3>1, <3>2
  <2>2. Carries(j[1], k) => Params(j[1])[k] = want'[k]
    BY <1>3
  <2>3. queue' = rest \/ queue' = Append(rest, j[1])
    BY DEF DeliverLocked
  <2> HIDE DEF rest
  <2>4. QED BY <1>1, <2>1, <2>2, <2>3, QueuedLatest
<1>7. \A q \in Procs : Carries(job'[q][1], k) =>
        job'[q][2] /\ (phase'[q] = "publishing" => Params(job'[q][1])[k] = want'[k])
  <2>1. \/ job' = [job EXCEPT ![p] = j]
        \/ job' = [job EXCEPT ![p] = NoJob]
    BY DEF DeliverLocked, Publishing, Release
  <2>2. \A q \in Procs : q # p => phase'[q] = phase[q]
    BY DEF DeliverLocked, Publishing, Release, Control, TypeOK
  <2>3. CASE job' = [job EXCEPT ![p] = j]
    BY <1>3, <2>2, <2>3, JobsLatest
  <2>4. CASE job' = [job EXCEPT ![p] = NoJob]
    BY <2>2, <2>4, NoneCarried, JobsLatest
  <2>5. QED BY <2>1, <2>3, <2>4
<1>8. ~Carries(haJob', k)
  BY DEF CarriesLatest
<1>9. QED BY <1>4, <1>5, <1>6, <1>7, <1>8 DEF CarriesLatest, Carries, Params, IsSet

(* The rest of the steps leave what is wanted alone.                       *)
LEMMA ReturnLatest ==
    ASSUME Control, NEW k, CarriesLatest(k), NEW p \in Procs, PublishReturns(p)
    PROVE  CarriesLatest(k)'
<1> DEFINE sent == Params(job[p][1])
<1>1. /\ pending' = PendingAfterCompleted(pending, sent)
      /\ queue' = QueueAfterCompleted(queue, sent)
      /\ Saved \/ UNCHANGED stored
      /\ Release(p) /\ want' = want /\ haJob' = haJob
  BY DEF PublishReturns, Complete, ha, history
<1>2. k \in DOMAIN pending' => pending'[k] = want'[k]
  <2>1. k \in DOMAIN pending' => k \in DOMAIN pending /\ pending'[k] = pending[k]
    BY <1>1 DEF PendingAfterCompleted, Without
  <2>2. QED BY <1>1, <2>1 DEF CarriesLatest
<1>3. k \in DOMAIN disk'.pending => disk'.pending[k] = want'[k]
  <2>1. CASE Saved
    <3>1. disk'.pending = pending'
      BY <2>1 DEF Saved
    <3>2. QED BY <1>2, <3>1
  <2>2. CASE UNCHANGED stored
    BY <1>1, <2>2 DEF CarriesLatest, stored
  <2>3. QED BY <1>1, <2>1, <2>2
<1>4. \A i \in DOMAIN queue' : Carries(queue'[i], k) => Params(queue'[i])[k] = want'[k]
  <2>1. \A i \in DOMAIN queue' : \E n \in DOMAIN queue : queue'[i] = queue[n]
    BY <1>1, CompletedQueueFacts DEF Control, TypeOK
  <2>2. QED BY <1>1, <2>1 DEF CarriesLatest
<1>5. \A q \in Procs : Carries(job'[q][1], k) =>
        job'[q][2] /\ (phase'[q] = "publishing" => Params(job'[q][1])[k] = want'[k])
  <2>1. job' = [job EXCEPT ![p] = NoJob] /\ \A q \in Procs : q # p => phase'[q] = phase[q]
    BY <1>1 DEF Release, Control, TypeOK
  <2>2. QED BY <1>1, <2>1, NoneCarried, JobsLatest
<1>6. ~Carries(haJob', k)
  BY <1>1 DEF CarriesLatest
<1>7. QED BY <1>2, <1>3, <1>4, <1>5, <1>6 DEF CarriesLatest, Carries, Params, IsSet

(* A failed publish queues what it carried, which still is the latest: the *)
(* lock was held.                                                          *)
LEMMA RaiseLatest ==
    ASSUME Control, NEW k, CarriesLatest(k), NEW p \in Procs, PublishRaises(p)
    PROVE  CarriesLatest(k)'
<1>1. /\ queue' = queue \/ queue' = Append(queue, job[p][1])
      /\ Release(p) /\ UNCHANGED <<pending, disk, want, haJob>>
  BY DEF PublishRaises, stored, ha, history
<1>2. phase[p] = "publishing" /\ job[p][1] \in Commands
  BY DEF PublishRaises, Control, JobsOK
<1>3. \A i \in DOMAIN queue' : Carries(queue'[i], k) => Params(queue'[i])[k] = want'[k]
  <2>1. queue \in Seq(Commands)
        /\ (Carries(job[p][1], k) => Params(job[p][1])[k] = want'[k])
        /\ \A i \in DOMAIN queue : Carries(queue[i], k) => Params(queue[i])[k] = want'[k]
    BY <1>1, <1>2 DEF Control, TypeOK, CarriesLatest
  <2>2. QED BY <1>1, <1>2, <2>1, QueuedLatest
<1>4. \A q \in Procs : Carries(job'[q][1], k) =>
        job'[q][2] /\ (phase'[q] = "publishing" => Params(job'[q][1])[k] = want'[k])
  <2>1. job' = [job EXCEPT ![p] = NoJob] /\ \A q \in Procs : q # p => phase'[q] = phase[q]
    BY <1>1 DEF Release, Control, TypeOK
  <2>2. QED BY <1>1, <2>1, NoneCarried, JobsLatest
<1>5. QED BY <1>1, <1>3, <1>4 DEF CarriesLatest, Carries, Params, IsSet

(* The recovery loop carries what is pending.                              *)
LEMMA RecoveryLatest ==
    ASSUME Control, NEW k, CarriesLatest(k), NEW gone, RecoveryPublishes(gone),
           UNCHANGED <<pending, queue, disk, want, haJob>>
    PROVE  CarriesLatest(k)'
<1> DEFINE j == <<Set(pending), TRUE>>
<1>1. job' = [job EXCEPT ![Recovery] = j] /\ \A q \in Procs : q # Recovery => phase'[q] = phase[q]
  BY DEF RecoveryPublishes, Publishing, Control, TypeOK
<1>2. Params(j[1]) = pending /\ j[2]
  BY CommandFacts
<1>3. Carries(j[1], k) => j[2] /\ Params(j[1])[k] = want'[k]
  BY <1>2 DEF Carries, CarriesLatest
<1> HIDE DEF j
<1>4. \A q \in Procs : Carries(job'[q][1], k) =>
        job'[q][2] /\ (phase'[q] = "publishing" => Params(job'[q][1])[k] = want'[k])
  BY <1>1, <1>3, ProcFacts, JobsLatest
<1>5. QED BY <1>4 DEF CarriesLatest, Carries, Params, IsSet

(* A panel request brings its value, its lock free or not.                 *)
LEMMA RequestLatest ==
    ASSUME Control, NEW k \in PanelOnly, CarriesLatest(k), NEW p \in Panels, PanelRequest(p)
    PROVE  CarriesLatest(k)'
<1>1. PICK j \in PanelJobs, transport \in Transports :
        /\ IF LockFree
             THEN DeliverLocked(p, j, transport) /\ UNCHANGED waiters
             ELSE /\ waiters' = Append(waiters, p)
                  /\ phase' = [phase EXCEPT ![p] = "waiting"]
                  /\ job' = [job EXCEPT ![p] = j]
                  /\ UNCHANGED <<pending, queue, lock, left, told, want, owed, runs, cut>>
        /\ IF j[2] THEN Saved ELSE UNCHANGED stored
  BY DEF PanelRequest
<1>2. p \in Procs /\ j \in Commands \X BOOLEAN /\ haJob' = haJob
  BY ProcFacts, PanelJobFacts DEF PanelRequest, ha
<1>3. Carries(j[1], k) => j[2] /\ Saved
  <2>1. ~j[2] => ~Carries(j[1], k)
    BY PanelJobFacts, PanelOnlyFacts, CommandFacts DEF Carries
  <2>2. QED BY <1>1, <2>1
<1>4. Saved \/ UNCHANGED stored
  BY <1>1
<1>5. CASE LockFree
  BY <1>1, <1>2, <1>3, <1>4, <1>5, DeliverLatest DEF LockFree
<1>6. CASE ~LockFree
  <2>1. /\ phase' = [phase EXCEPT ![p] = "waiting"] /\ job' = [job EXCEPT ![p] = j]
        /\ UNCHANGED <<pending, queue, want>>
    BY <1>1, <1>6
  <2>2. (\A q \in Procs : q # p => phase'[q] = phase[q]) /\ phase'[p] = "waiting"
    BY <1>2, <2>1 DEF Control, TypeOK
  <2>3. \A q \in Procs : Carries(job'[q][1], k) =>
          job'[q][2] /\ (phase'[q] = "publishing" => Params(job'[q][1])[k] = want'[k])
    BY <1>2, <1>3, <2>1, <2>2, JobsLatest
  <2>4. k \in DOMAIN disk'.pending => disk'.pending[k] = want'[k]
    <3>1. disk'.pending = pending' \/ disk' = disk
      BY <1>4 DEF Saved, stored
    <3>2. QED BY <2>1, <3>1 DEF CarriesLatest
  <2>5. QED BY <1>2, <2>1, <2>3, <2>4 DEF CarriesLatest, Carries, Params, IsSet
<1>7. QED BY <1>5, <1>6

(* The first in line brings its value.                                     *)
LEMMA TurnLatest ==
    ASSUME Control, NEW k \in PanelOnly, CarriesLatest(k), NEW p \in Panels, PanelGetsLock(p)
    PROVE  CarriesLatest(k)'
<1>1. PICK transport \in Transports : DeliverLocked(p, job[p], transport)
  BY DEF PanelGetsLock
<1>2. p \in Procs /\ p # Recovery /\ NextWaiter(p) /\ haJob' = haJob
  BY ProcFacts DEF PanelGetsLock, ha
<1>3. phase[p] = "waiting" /\ lock = Nobody
  BY <1>2, LineMoves DEF Control
<1>4. job[p] \in Commands \X BOOLEAN
  <2>1. job[p] \in (Commands \cup {Set(Empty)}) \X BOOLEAN /\ job[p][1] \in Commands
    BY <1>2, <1>3 DEF Control, TypeOK, JobsOK
  <2>2. QED BY <2>1
<1>5. Carries(job[p][1], k) => Saved /\ job[p][2]
  <2>1. Carries(job[p][1], k) => IsSet(job[p][1])
    BY DEF Carries, Params, Empty
  <2>2. Carries(job[p][1], k) => job[p][2]
    BY <1>2 DEF CarriesLatest
  <2>3. QED BY <2>1, <2>2 DEF PanelGetsLock
<1>6. Saved \/ UNCHANGED stored
  BY DEF PanelGetsLock
<1>7. QED BY <1>1, <1>2, <1>3, <1>4, <1>5, <1>6, DeliverLatest

(* Home Assistant carries none of these settings.                          *)
LEMMA HACommandLatest ==
    ASSUME Control, NEW k \in PanelOnly, CarriesLatest(k), HACommand
    PROVE  CarriesLatest(k)'
<1>1. PICK cmd \in {Set(f) : f \in HAWrites} \cup {Act(a) : a \in HAActions \ asked} :
         \/ haJob' = cmd /\ UNCHANGED queue
         \/ queue' = Append(queue, cmd) /\ UNCHANGED ha
  BY DEF HACommand
<1>2. UNCHANGED <<pending, disk, locking, want>>
  BY DEF HACommand
<1>3. cmd \in Commands /\ ~Carries(cmd, k)
  <2>1. ASSUME NEW f \in HAWrites PROVE Set(f) \in Commands /\ ~Carries(Set(f), k)
    BY WriteAssumption, CommandFacts, PanelOnlyFacts DEF Carries
  <2>2. ASSUME NEW a \in HAActions PROVE Act(a) \in Commands /\ ~Carries(Act(a), k)
    BY WriteAssumption, CommandFacts, NoneCarried
  <2>3. QED BY <2>1, <2>2
<1>4. \A i \in DOMAIN queue' : Carries(queue'[i], k) => Params(queue'[i])[k] = want'[k]
  <2>1. queue \in Seq(Commands)
        /\ \A i \in DOMAIN queue : Carries(queue[i], k) => Params(queue[i])[k] = want'[k]
    BY <1>2 DEF Control, TypeOK, CarriesLatest
  <2>2. QED BY <1>1, <1>3, <2>1, QueuedLatest
<1>5. ~Carries(haJob', k)
  BY <1>1, <1>3 DEF CarriesLatest, ha
<1>6. QED BY <1>2, <1>4, <1>5 DEF CarriesLatest, Carries, Params, IsSet, locking

(* A publish of Home Assistant that failed queues none of these settings.  *)
LEMMA HAEndsLatest ==
    ASSUME Control, NEW k, CarriesLatest(k), HAPublishEnds
    PROVE  CarriesLatest(k)'
<1>1. /\ queue' = queue \/ queue' = Append(queue, haJob)
      /\ haJob' = Set(Empty) /\ haJob \in Commands
      /\ UNCHANGED <<pending, disk, locking, want>>
  BY DEF HAPublishEnds, Control, JobsOK, history
<1>2. \A i \in DOMAIN queue' : Carries(queue'[i], k) => Params(queue'[i])[k] = want'[k]
  <2>1. queue \in Seq(Commands)
        /\ \A i \in DOMAIN queue : Carries(queue[i], k) => Params(queue[i])[k] = want'[k]
    BY <1>1 DEF Control, TypeOK, CarriesLatest
  <2>2. Carries(haJob, k) => Params(haJob)[k] = want'[k]
    BY DEF CarriesLatest
  <2>3. QED BY <1>1, <2>1, <2>2, QueuedLatest
<1>3. ~Carries(haJob', k)
  BY <1>1, NoneCarried
<1>4. QED BY <1>1, <1>2, <1>3 DEF CarriesLatest, Carries, Params, IsSet, locking

(* Every step leaves only the latest value to be carried.                  *)
LEMMA LatestStep ==
    ASSUME Control, NEW k \in PanelOnly, CarriesLatest(k), [Next]_vars
    PROVE  CarriesLatest(k)'
<1>1. ASSUME NEW p \in Panels, PanelRequest(p) PROVE CarriesLatest(k)'
  BY <1>1, RequestLatest
<1>2. ASSUME NEW p \in Panels, PanelGetsLock(p) PROVE CarriesLatest(k)'
  BY <1>2, TurnLatest
<1>3. ASSUME NEW p \in Procs, PublishReturns(p) PROVE CarriesLatest(k)'
  BY <1>3, ReturnLatest
<1>4. ASSUME NEW p \in Procs, PublishRaises(p) PROVE CarriesLatest(k)'
  BY <1>4, RaiseLatest
<1>5. ASSUME NEW gone \in BOOLEAN, RecoveryTurn(gone) PROVE CarriesLatest(k)'
  BY <1>5, RecoveryLatest DEF RecoveryTurn, memory, stored, ha
<1>6. ASSUME NEW gone \in BOOLEAN, RecoveryGetsLock(gone) PROVE CarriesLatest(k)'
  <2>1. UNCHANGED <<pending, queue, disk, want, haJob>>
    BY <1>6 DEF RecoveryGetsLock, memory, stored, ha
  <2>2. CASE RecoveryPublishes(gone)
    BY <2>1, <2>2, RecoveryLatest
  <2>3. CASE Release(Recovery)
    <3>1. job' = [job EXCEPT ![Recovery] = NoJob]
          /\ \A q \in Procs : q # Recovery => phase'[q] = phase[q]
      BY <2>3 DEF Release, Control, TypeOK
    <3>2. \A q \in Procs : Carries(job'[q][1], k) =>
            job'[q][2] /\ (phase'[q] = "publishing" => Params(job'[q][1])[k] = want'[k])
      BY <2>1, <3>1, ProcFacts, NoneCarried, JobsLatest
    <3>3. QED BY <2>1, <3>2 DEF CarriesLatest, Carries, Params, IsSet
  <2>4. QED BY <1>6, <2>2, <2>3 DEF RecoveryGetsLock
<1>7. CASE RecoveryWaits
  <2>1. /\ UNCHANGED <<pending, queue, disk, want, haJob, job>>
        /\ phase' = [phase EXCEPT ![Recovery] = "waiting"]
    BY <1>7 DEF RecoveryWaits, memory, stored, ha, history
  <2>2. \A q \in Procs : phase'[q] = "publishing" => phase[q] = "publishing"
    BY <2>1 DEF Control, TypeOK
  <2>3. QED BY <2>1, <2>2 DEF CarriesLatest, Carries, Params, IsSet
<1>8. CASE BridgeConnects \/ RoutingChanges \/ UNCHANGED vars
  <2>1. UNCHANGED <<pending, queue, disk, want, haJob, job, phase>>
    BY <1>8 DEF BridgeConnects, RoutingChanges, vars, memory, stored, locking, ha, history
  <2>2. QED BY <2>1 DEF CarriesLatest, Carries, Params, IsSet
<1>9. CASE BridgeDisconnects
  <2>1. /\ UNCHANGED <<pending, queue, disk, want, haJob>>
        /\ job' = [job EXCEPT ![Recovery] = NoJob]
        /\ \A q \in Procs : q # Recovery => phase'[q] = phase[q]
    BY <1>9 DEF BridgeDisconnects, memory, stored, ha, history, Control, TypeOK
  <2>2. \A q \in Procs : Carries(job'[q][1], k) =>
          job'[q][2] /\ (phase'[q] = "publishing" => Params(job'[q][1])[k] = want'[k])
    BY <2>1, ProcFacts, NoneCarried, JobsLatest
  <2>3. QED BY <2>1, <2>2 DEF CarriesLatest, Carries, Params, IsSet
<1>10. CASE Heartbeat
  <2>1. /\ DOMAIN pending' = {} /\ DOMAIN queue' = {}
        /\ UNCHANGED <<disk, want, haJob, job, phase>>
    BY <1>10, NoJobFacts DEF Heartbeat, locking, ha
  <2>2. QED BY <2>1 DEF CarriesLatest, Carries, Params, IsSet
<1>11. CASE HACommand
  BY <1>11, HACommandLatest
<1>12. CASE HAPublishEnds
  BY <1>12, HAEndsLatest
<1>13. CASE Flush
  <2>1. UNCHANGED <<pending, queue, want, haJob, job, phase>> /\ disk'.pending = pending'
    BY <1>13 DEF Flush, Saved, memory, locking, ha, history
  <2>2. QED BY <2>1 DEF CarriesLatest, Carries, Params, IsSet
<1>14. CASE Restart \/ KilledBetweenSaves
  <2>1. PICK saved \in [settings : [Keys -> Values], pending : Assignments],
             lost \in SUBSET Keys :
          StartsFrom(saved, lost) /\ saved.pending \in {disk.pending, pending}
    BY <1>14, KillStarts
  <2>2. /\ pending' = saved.pending /\ disk' = saved /\ want' = want
        /\ DOMAIN queue' = {} /\ haJob' = Set(Empty)
        /\ job' = [p \in Procs |-> NoJob]
    BY <2>1 DEF StartsFrom
  <2>3. QED BY <2>1, <2>2, NoneCarried DEF CarriesLatest, Carries, Params, IsSet
<1>15. QED
  BY <1>1, <1>2, <1>3, <1>4, <1>5, <1>6, <1>7, <1>8, <1>9, <1>10, <1>11, <1>12, <1>13, <1>14
     DEF Next

(* What a step does to the history, on these settings: those of D are      *)
(* asked for anew, those of S are handed over.                             *)
Moves(D, S) == \A k \in PanelOnly :
    /\ k \notin D => want'[k] = want[k]
    /\ told'[k] = IF k \in S THEN want'[k] ELSE told[k]
    /\ k \in owed' <=> (k \in owed \/ k \in D) /\ k \notin S

(* Such a move is a step of LatestValue.                                   *)
LEMMA MovesStep ==
    ASSUME TypeOK', NEW D, NEW S, Moves(D, S)
    PROVE  L!Next
<1> DEFINE d == D \cap PanelOnly
           s == S \cap PanelOnly
<1>1. d \in SUBSET PanelOnly /\ s \in SUBSET PanelOnly
  OBVIOUS
<1>2. L!Step(d, s)
  <2>1. [k \in PanelOnly |-> want'[k]] \in [PanelOnly -> Values]
    BY DEF TypeOK, PanelOnly
  <2>2. \A k \in PanelOnly \ d : [x \in PanelOnly |-> want'[x]][k] = [x \in PanelOnly |-> want[x]][k]
    BY DEF Moves
  <2>3. [k \in PanelOnly |-> told'[k]]
          = [k \in PanelOnly |-> IF k \in s THEN [x \in PanelOnly |-> want'[x]][k]
                                           ELSE [x \in PanelOnly |-> told[x]][k]]
    BY DEF Moves
  <2>4. owed' \cap PanelOnly = ((owed \cap PanelOnly) \cup d) \ s
    BY DEF Moves
  <2>5. QED BY <2>1, <2>2, <2>3, <2>4 DEF L!Step
<1>3. QED BY <1>1, <1>2 DEF L!Next

(* A step that hands nothing over moves nothing.                           *)
LEMMA NothingMoves ==
    ASSUME UNCHANGED <<told, want, owed>>
    PROVE  Moves({}, {})
BY DEF Moves

(* A hand-over of latest values is such a move,                            *)
LEMMA HandOverMoves ==
    ASSUME NEW cmd, NEW wanted, NEW owing, NEW gone \in BOOLEAN,
           HandOverIf(gone, cmd, wanted, owing), told \in [Keys -> Values], NEW D,
           \A k \in PanelOnly : /\ k \in owing <=> k \in owed \/ k \in D
                                /\ wanted[k] = want'[k]
                                /\ k \notin D => want'[k] = want[k]
                                /\ Carries(cmd, k) => Params(cmd)[k] = want'[k]
    PROVE  \E S : Moves(D, S)
<1>1. CASE gone
  <2>1. told' = Override(told, Params(cmd))
        /\ owed' = owing \ {k \in DOMAIN Params(cmd) : Params(cmd)[k] = wanted[k]}
    BY <1>1 DEF HandOverIf, HandOver
  <2>2. ASSUME NEW k \in PanelOnly
        PROVE  told'[k] = IF Carries(cmd, k) THEN want'[k] ELSE told[k]
    <3>1. k \in DOMAIN told
      BY PanelOnlyFacts
    <3>2. told'[k] = IF k \in DOMAIN Params(cmd) THEN Params(cmd)[k] ELSE told[k]
      BY <2>1, <3>1 DEF Override
    <3>3. QED BY <3>2 DEF Carries
  <2>3. \A k \in PanelOnly : k \in owed' <=> (k \in owed \/ k \in D) /\ ~Carries(cmd, k)
    BY <2>1 DEF Carries
  <2>4. Moves(D, DOMAIN Params(cmd))
    BY <2>2, <2>3 DEF Moves, Carries
  <2>5. QED BY <2>4
<1>2. CASE ~gone
  <2>1. owed' = owing /\ told' = told
    BY <1>2 DEF HandOverIf, Hold
  <2>2. Moves(D, {})
    BY <2>1 DEF Moves
  <2>3. QED BY <2>2
<1>3. QED BY <1>1, <1>2

(* as is the delivery of a request,                                        *)
LEMMA DeliverMoves ==
    ASSUME Control, NEW p \in Procs, NEW j \in Commands \X BOOLEAN, NEW transport,
           DeliverLocked(p, j, transport)
    PROVE  \E D, S : Moves(D, S)
<1> DEFINE params == Params(j[1])
           owing  == owed \cup DOMAIN params
           wanted == Override(want, params)
<1>1. PICK gone \in BOOLEAN : HandOverIf(gone, j[1], wanted, owing)
  BY DEF DeliverLocked, HandOverIf
<1>2. want' = wanted
  BY DEF DeliverLocked
<1>3. ASSUME NEW k \in PanelOnly
      PROVE  /\ k \in owing <=> k \in owed \/ k \in DOMAIN params
             /\ wanted[k] = want'[k]
             /\ k \notin DOMAIN params => want'[k] = want[k]
             /\ Carries(j[1], k) => Params(j[1])[k] = want'[k]
  <2>1. k \in DOMAIN want
    BY PanelOnlyFacts DEF Control, TypeOK
  <2>2. want'[k] = IF k \in DOMAIN params THEN params[k] ELSE want[k]
    BY <1>2, <2>1 DEF Override
  <2>3. QED BY <1>2, <2>2 DEF Carries
<1>4. told \in [Keys -> Values]
  BY DEF Control, TypeOK
<1> HIDE DEF owing, wanted
<1>5. \E S : Moves(DOMAIN params, S)
  BY <1>1, <1>3, <1>4, HandOverMoves
<1>6. QED BY <1>5

(* and a poll.                                                             *)
LEMMA PollMoves ==
    ASSUME Control, AllLatest, Heartbeat
    PROVE  \E D, S : Moves(D, S)
<1> DEFINE S == {k \in PanelOnly : k \in DOMAIN pending \/ KeptFor(k) # {}}
<1>1. ASSUME NEW k \in PanelOnly
      PROVE  /\ told'[k] = IF k \in S THEN want'[k] ELSE told[k]
             /\ k \in owed' <=> k \in owed /\ k \notin S
  <2>1. /\ k \in Keys /\ CarriesLatest(k) /\ want' = want
        /\ told'[k] = IF k \in DOMAIN pending THEN pending[k]
                      ELSE IF KeptFor(k) # {} THEN queue[LastOf(KeptFor(k))].params[k]
                      ELSE told[k]
        /\ k \in owed' <=> /\ k \in owed
                           /\ k \in DOMAIN pending => pending[k] # want[k]
                           /\ \A i \in KeptFor(k) : queue[i].params[k] # want[k]
    BY PanelOnlyFacts DEF AllLatest, Heartbeat
  <2>2. ASSUME NEW i \in KeptFor(k) PROVE queue[i].params[k] = want[k]
    <3>1. i \in DOMAIN queue /\ queue[i] \in AllCommands /\ Carries(queue[i], k)
      BY DEF KeptFor, CarriersOf, Carries, Control, TypeOK, AllCommands
    <3>2. queue[i].params = Params(queue[i])
      BY <3>1, CommandFacts, NoJobFacts DEF Carries
    <3>3. QED BY <2>1, <3>1, <3>2 DEF CarriesLatest
  <2>3. KeptFor(k) # {} => LastOf(KeptFor(k)) \in KeptFor(k)
    <3>1. DOMAIN queue = 1..Len(queue) /\ Len(queue) \in Nat
      BY DEF Control, TypeOK
    <3>2. KeptFor(k) \in SUBSET (1..Len(queue))
      BY <3>1 DEF KeptFor, CarriersOf
    <3>3. QED BY <3>1, <3>2, LastIn
  <2>4. QED BY <2>1, <2>2, <2>3 DEF CarriesLatest
<1>2. Moves({}, S)
  BY <1>1 DEF Moves, Heartbeat
<1>3. QED BY <1>2

(* Every step is such a move.                                              *)
LEMMA LatestMoves ==
    ASSUME Control, AllLatest, [Next]_vars
    PROVE  \E D, S : Moves(D, S)
<1> DEFINE Goal == \E D, S : Moves(D, S)
<1>a. ASSUME UNCHANGED <<told, want, owed>> PROVE Goal
  BY <1>a, NothingMoves
<1>b. ASSUME NEW cmd, NEW gone \in BOOLEAN, HandOverIf(gone, cmd, want, owed), want' = want,
             \A k \in PanelOnly : Carries(cmd, k) => Params(cmd)[k] = want[k]
      PROVE  Goal
  <2>1. told \in [Keys -> Values]
    BY DEF Control, TypeOK
  <2>2. \E S : Moves({}, S)
    BY <1>b, <2>1, HandOverMoves
  <2>3. QED BY <2>2
<1>c. ASSUME NEW gone \in BOOLEAN, RecoveryPublishes(gone), want' = want PROVE Goal
  <2>1. HandOverIf(gone, Set(pending), want, owed)
    BY <1>c DEF RecoveryPublishes
  <2>2. \A k \in PanelOnly : Carries(Set(pending), k) => Params(Set(pending))[k] = want[k]
    BY CommandFacts DEF Carries, AllLatest, CarriesLatest
  <2>3. QED BY <1>b, <1>c, <2>1, <2>2
<1> HIDE DEF Goal
<1>1. ASSUME NEW p \in Panels, PanelRequest(p) PROVE Goal
  <2>1. PICK j \in PanelJobs, transport \in Transports :
          IF LockFree THEN DeliverLocked(p, j, transport) ELSE UNCHANGED <<told, want, owed>>
    BY <1>1 DEF PanelRequest
  <2>2. p \in Procs /\ j \in Commands \X BOOLEAN
    BY ProcFacts, PanelJobFacts
  <2>3. QED BY <1>a, <2>1, <2>2, DeliverMoves DEF Goal
<1>2. ASSUME NEW p \in Panels, PanelGetsLock(p) PROVE Goal
  <2>1. PICK transport \in Transports : DeliverLocked(p, job[p], transport)
    BY <1>2 DEF PanelGetsLock
  <2>2. p \in Procs /\ p # Recovery /\ phase[p] = "waiting"
    BY <1>2, ProcFacts, LineMoves DEF PanelGetsLock, Control
  <2>3. job[p] \in Commands \X BOOLEAN
    <3>1. job[p] \in (Commands \cup {Set(Empty)}) \X BOOLEAN /\ job[p][1] \in Commands
      BY <2>2 DEF Control, TypeOK, JobsOK
    <3>2. QED BY <3>1
  <2>4. QED BY <2>1, <2>2, <2>3, DeliverMoves DEF Goal
<1>3. ASSUME NEW p \in Procs, PublishReturns(p) \/ PublishRaises(p) PROVE Goal
  BY <1>3, <1>a DEF PublishReturns, PublishRaises, history
<1>4. ASSUME NEW gone \in BOOLEAN, RecoveryTurn(gone) PROVE Goal
  BY <1>4, <1>c DEF RecoveryTurn
<1>5. ASSUME NEW gone \in BOOLEAN, RecoveryGetsLock(gone) PROVE Goal
  <2>1. want' = want /\ (RecoveryPublishes(gone) \/ Hold(owed))
    BY <1>5 DEF RecoveryGetsLock
  <2>2. QED BY <1>a, <1>c, <2>1 DEF Hold
<1>6. CASE RecoveryWaits \/ BridgeConnects \/ BridgeDisconnects \/ RoutingChanges
  <2>1. UNCHANGED <<told, want, owed>>
    BY <1>6 DEF RecoveryWaits, BridgeConnects, BridgeDisconnects, RoutingChanges, history
  <2>2. QED BY <1>a, <2>1 DEF Goal
<1>7. CASE Heartbeat
  BY <1>7, PollMoves DEF Goal
<1>8. CASE HACommand
  <2>1. PICK cmd \in {Set(f) : f \in HAWrites} \cup {Act(a) : a \in HAActions \ asked} :
           (\E gone \in BOOLEAN : HandOverIf(gone, cmd, want, owed)) \/ Hold(owed)
    BY <1>8 DEF HACommand
  <2>2. \A k \in PanelOnly : ~Carries(cmd, k)
    BY PanelOnlyFacts, CommandFacts, NoneCarried DEF Carries
  <2>3. want' = want
    BY <1>8 DEF HACommand
  <2>4. CASE Hold(owed)
    <3>1. UNCHANGED <<told, want, owed>>
      BY <2>3, <2>4 DEF Hold
    <3>2. QED BY <1>a, <3>1 DEF Goal
  <2>5. CASE \E gone \in BOOLEAN : HandOverIf(gone, cmd, want, owed)
    BY <1>b, <2>2, <2>3, <2>5 DEF Goal
  <2>6. QED BY <2>1, <2>4, <2>5
<1>9. CASE HAPublishEnds \/ Flush \/ Restart \/ KilledBetweenSaves \/ UNCHANGED vars
  <2>1. UNCHANGED <<told, want, owed>>
    BY <1>9 DEF HAPublishEnds, Flush, Restart, KilledBetweenSaves, StartsFrom, vars, history
  <2>2. QED BY <1>a, <2>1 DEF Goal
<1>10. QED
  BY <1>1, <1>2, <1>3, <1>4, <1>5, <1>6, <1>7, <1>8, <1>9 DEF Next, Goal

(* It starts so, and stays so.                                             *)
LEMMA LatestInit == Init => L!Init /\ AllLatest
<1> SUFFICES ASSUME Init PROVE L!Init /\ AllLatest
  OBVIOUS
<1>1. L!Init
  <2>1. [k \in PanelOnly |-> want[k]] \in [PanelOnly -> Values]
    BY DEF Init, PanelOnly
  <2>2. [k \in PanelOnly |-> told[k]] = [k \in PanelOnly |-> want[k]]
    BY DEF Init
  <2>3. owed \cap PanelOnly = {}
    BY DEF Init
  <2>4. QED BY <2>1, <2>2, <2>3 DEF L!Init
<1>2. AllLatest
  BY NoneCarried, NoJobFacts DEF Init, AllLatest, CarriesLatest
<1>3. QED BY <1>1, <1>2

LatestInv == Control /\ AllLatest

(* Control and the latest values are inductive.                            *)
LEMMA LatestInvStep == LatestInv /\ [Next]_vars => LatestInv'
<1> SUFFICES ASSUME LatestInv, [Next]_vars PROVE LatestInv'
  OBVIOUS
<1>1. Control'
  BY ControlStep DEF LatestInv
<1>2. ASSUME NEW k \in PanelOnly PROVE CarriesLatest(k)'
  BY LatestStep DEF LatestInv, AllLatest
<1>3. QED BY <1>1, <1>2 DEF LatestInv, AllLatest

(* For the settings only panel requests with their registry write, the     *)
(* device is only ever handed the value last asked for: each step is one   *)
(* of LatestValue, or none, whatever the queue, the pending writes, the    *)
(* publishes in flight, the recovery loop and restarts do.                 *)
THEOREM OnlyLatest == Spec => OnlyLatestValues
<1>1. Init => L!Init /\ LatestInv
  BY LatestInit, ControlInit DEF LatestInv
<1>2. LatestInv /\ [Next]_vars => LatestInv'
  BY LatestInvStep
<1>3. LatestInv /\ [Next]_vars => [L!Next]_(L!latest)
  <2> SUFFICES ASSUME LatestInv, [Next]_vars PROVE L!Next
    OBVIOUS
  <2>1. TypeOK'
    BY ControlStep DEF LatestInv, Control
  <2>2. \E D, S : Moves(D, S)
    BY LatestMoves DEF LatestInv
  <2>3. QED BY <2>1, <2>2, MovesStep
<1>4. QED BY <1>1, <1>2, <1>3, PTL DEF Spec, OnlyLatestValues, L!Spec

-----------------------------------------------------------------------------
(* 5. What is owed is pending.                                             *)

(* A frame that left paid its debts, and only the lock's holder can run up *)
(* new ones: what completed will drop is not owed.                         *)
SentIsNotOwed ==
    \A p \in Procs : phase[p] = "publishing" /\ left[p] =>
        \A k \in DOMAIN Params(job[p][1]) \cap owed : Params(job[p][1])[k] # want[k]

(* A request that carries settings saves, unless they are of those that    *)
(* api_sounds_select writes.                                               *)
Saves(j) == DOMAIN Params(j[1]) \subseteq BareKeys \/ (IsSet(j[1]) /\ j[2])
SettingsSave == \A p \in Procs : Saves(job[p])

Kept == SentIsNotOwed /\ SettingsSave /\ OwedKept

(* What pending_settings.completed drops: only what was sent as it stands. *)
LEMMA CompletedFacts ==
    ASSUME NEW pend, NEW sent
    PROVE  \A k \in DOMAIN pend :
             (k \in DOMAIN sent => pend[k] # sent[k]) =>
               /\ k \in DOMAIN PendingAfterCompleted(pend, sent)
               /\ PendingAfterCompleted(pend, sent)[k] = pend[k]
BY DEF PendingAfterCompleted, Without

(* A hand-over only settles debts, and settles those it carries.           *)
LEMMA HandOverFacts ==
    ASSUME NEW gone \in BOOLEAN, NEW cmd, NEW wanted, NEW owing,
           HandOverIf(gone, cmd, wanted, owing)
    PROVE  /\ owed' \subseteq owing
           /\ gone => \A k \in DOMAIN Params(cmd) \cap owed' : Params(cmd)[k] # wanted[k]
BY DEF HandOverIf, HandOver, Hold

(* Without a job no setting is written.                                    *)
LEMMA NoParams == DOMAIN Params(Set(Empty)) = {} /\ Saves(NoJob)
BY DEF Params, Set, Empty, IsSet, Saves, NoJob

(* A request brings a job that saves its settings, or none.                *)
LEMMA JobStep ==
    ASSUME DOMAIN job = Procs, SettingsSave, NEW p \in Procs, NEW j, Saves(j),
           job' = [job EXCEPT ![p] = j] \/ job' = [job EXCEPT ![p] = NoJob]
    PROVE  SettingsSave'
<1> SUFFICES ASSUME NEW q \in Procs PROVE Saves(job'[q])
  BY DEF SettingsSave, Saves, Params, IsSet
<1>1. CASE q = p
  BY <1>1, NoParams
<1>2. CASE q # p
  BY <1>2 DEF SettingsSave
<1>3. QED BY <1>1, <1>2

(* A lock holder delivers a command: what it asks anew is remembered and   *)
(* saved before anything can fail.                                         *)
LEMMA DeliverStep ==
    ASSUME Control, Kept, NEW p \in Procs, NEW j, NEW transport, lock = Nobody,
           DeliverLocked(p, j, transport), Saves(j),
           disk'.pending = pending' \/ (disk' = disk /\ DOMAIN Params(j[1]) \subseteq BareKeys)
    PROVE  Kept'
<1> DEFINE params == Params(j[1])
           wanted == Override(want, params)
           owing  == owed \cup DOMAIN params
<1>1. pending' = Override(pending, params) /\ want' = wanted
  BY DEF DeliverLocked
<1>a. /\ DOMAIN want' = DOMAIN want \cup DOMAIN params
      /\ \A k \in DOMAIN params : want'[k] = params[k]
      /\ \A k \in DOMAIN want \ DOMAIN params : want'[k] = want[k]
  BY <1>1 DEF Override
<1>b. /\ DOMAIN pending' = DOMAIN pending \cup DOMAIN params
      /\ \A k \in DOMAIN params : pending'[k] = params[k]
      /\ \A k \in DOMAIN pending \ DOMAIN params : pending'[k] = pending[k]
  BY <1>1 DEF Override
<1>2. owed' \subseteq owing
  BY HandOverFacts DEF DeliverLocked, Hold
<1>3. DOMAIN job = Procs /\ left \in [Procs -> BOOLEAN] /\ owed \subseteq DOMAIN want
      /\ phase \in [Procs -> {"idle", "waiting", "publishing"}]
  BY DEF Control, TypeOK
<1>4. SettingsSave'
  <2>1. job' = [job EXCEPT ![p] = j] \/ job' = [job EXCEPT ![p] = NoJob]
    BY DEF DeliverLocked, Publishing, Release
  <2>2. QED BY <1>3, <2>1, JobStep DEF Kept
<1>5. SentIsNotOwed'
  <2> SUFFICES ASSUME NEW q \in Procs, (phase[q] = "publishing" /\ left[q])'
               PROVE  \A k \in DOMAIN Params(job'[q][1]) \cap owed' :
                        Params(job'[q][1])[k] # want'[k]
    BY DEF SentIsNotOwed, Params, IsSet
  <2>1. q = p
    BY <1>3, ProcFacts DEF Control, HolderPublishes, DeliverLocked, Publishing, Release
  <2>2. /\ ByMqtt(transport)
        /\ job'[p] = j
        /\ HandOverIf(left'[p], j[1], wanted, owing)
        /\ left'[p] \in BOOLEAN
    BY <1>3, <2>1 DEF DeliverLocked, Publishing, Release
  <2>3. \A k \in DOMAIN params \cap owed' : params[k] # wanted[k]
    BY <2>1, <2>2, HandOverFacts
  <2>4. QED BY <1>1, <2>1, <2>2, <2>3
<1>6. OwedKept'
  <2> SUFFICES ASSUME NEW k \in owed' \ BareKeys
               PROVE  /\ k \in DOMAIN pending' /\ pending'[k] = want'[k]
                      /\ k \in DOMAIN disk'.pending /\ disk'.pending[k] = want'[k]
    BY DEF OwedKept, BareKeys
  <2>1. CASE k \in DOMAIN params
    <3>1. pending'[k] = want'[k] /\ k \in DOMAIN pending'
      BY <1>a, <1>b, <2>1
    <3>2. disk'.pending = pending'
      BY <2>1
    <3>3. QED BY <3>1, <3>2
  <2>2. CASE k \notin DOMAIN params
    <3>1. k \in owed \ BareKeys /\ k \in DOMAIN want
      BY <1>2, <1>3, <2>2
    <3>2. /\ k \in DOMAIN pending /\ pending[k] = want[k]
          /\ k \in DOMAIN disk.pending /\ disk.pending[k] = want[k]
      BY <3>1 DEF Kept, OwedKept
    <3>3. want'[k] = want[k] /\ k \in DOMAIN pending' /\ pending'[k] = pending[k]
      BY <1>a, <1>b, <2>2, <3>1, <3>2
    <3>4. QED BY <2>2, <3>2, <3>3
  <2>3. QED BY <2>1, <2>2
<1>7. QED BY <1>4, <1>5, <1>6 DEF Kept

(* A hand-over while the lock, the requests and what is pending stay as    *)
(* they are: debts can only shrink.                                        *)
LEMMA OwedShrinks ==
    ASSUME Kept, owed' \subseteq owed, UNCHANGED <<pending, disk, want, locking>>
    PROVE  Kept'
<1>1. SettingsSave'
  BY DEF Kept, SettingsSave, Saves, locking, Params, IsSet
<1>2. SentIsNotOwed'
  BY DEF Kept, SentIsNotOwed, locking, Params, IsSet
<1>3. OwedKept'
  BY DEF Kept, OwedKept, BareKeys
<1>4. QED BY <1>1, <1>2, <1>3 DEF Kept

(* A process drops its job, and owes nothing new.                          *)
LEMMA ReleaseStep ==
    ASSUME Control, Kept, NEW p \in Procs,
           phase' = [phase EXCEPT ![p] = "idle"], job' = [job EXCEPT ![p] = NoJob],
           left' = [left EXCEPT ![p] = FALSE],
           owed' \subseteq owed, want' = want, OwedKept'
    PROVE  Kept'
<1>1. SettingsSave'
  BY NoParams, JobStep DEF Kept, Control, TypeOK
<1>2. SentIsNotOwed'
  <2> SUFFICES ASSUME NEW q \in Procs, phase'[q] = "publishing", left'[q]
               PROVE  \A k \in DOMAIN Params(job'[q][1]) \cap owed' :
                        Params(job'[q][1])[k] # want'[k]
    BY DEF SentIsNotOwed, Params, IsSet
  <2>1. q # p /\ phase[q] = "publishing" /\ left[q] /\ job'[q] = job[q]
    BY DEF Control, TypeOK
  <2>2. QED BY <2>1 DEF Kept, SentIsNotOwed
<1>3. QED BY <1>1, <1>2 DEF Kept

(* Recovery publishes what is pending and owes nothing new.                *)
LEMMA RecoveryStep ==
    ASSUME Control, Kept, NEW gone \in BOOLEAN, lock = Nobody, RecoveryPublishes(gone),
           UNCHANGED <<pending, disk, want>>
    PROVE  Kept'
<1> DEFINE j == <<Set(pending), TRUE>>
<1>1. Recovery \in Procs /\ Recovery # Nobody
  BY ProcFacts
<1>2. owed' \subseteq owed
  BY HandOverFacts DEF RecoveryPublishes
<1>3. SettingsSave'
  <2>1. job' = [job EXCEPT ![Recovery] = j] /\ DOMAIN job = Procs
    BY DEF RecoveryPublishes, Publishing, Control, TypeOK
  <2>2. Saves(j)
    BY DEF Saves, IsSet, Set
  <2>3. QED BY <1>1, <2>1, <2>2, JobStep DEF Kept
<1>4. SentIsNotOwed'
  <2> SUFFICES ASSUME NEW q \in Procs, phase'[q] = "publishing", left'[q]
               PROVE  \A k \in DOMAIN Params(job'[q][1]) \cap owed' :
                        Params(job'[q][1])[k] # want'[k]
    BY DEF SentIsNotOwed, Params, IsSet
  <2>1. q = Recovery /\ job'[q] = j /\ gone
    BY <1>1, ProcFacts DEF Control, TypeOK, HolderPublishes, RecoveryPublishes, Publishing
  <2>2. \A k \in DOMAIN Params(Set(pending)) \cap owed' : Params(Set(pending))[k] # want[k]
    BY <2>1, HandOverFacts DEF RecoveryPublishes
  <2>3. QED BY <2>1, <2>2
<1>5. OwedKept'
  BY <1>2 DEF Kept, OwedKept, BareKeys
<1>6. QED BY <1>3, <1>4, <1>5 DEF Kept

(* A publish that returned drops from what is pending only what it sent,   *)
(* none of which is owed.                                                  *)
LEMMA CompleteStep ==
    ASSUME Control, Kept, NEW p \in Procs, PublishReturns(p)
    PROVE  Kept'
<1> DEFINE sent == Params(job[p][1])
<1>1. pending' = PendingAfterCompleted(pending, sent) /\ want' = want /\ owed' = owed
  BY DEF PublishReturns, Complete, history
<1>2. OwedKept'
  <2> SUFFICES ASSUME NEW k \in owed \ BareKeys
               PROVE  /\ k \in DOMAIN pending' /\ pending'[k] = want[k]
                      /\ k \in DOMAIN disk'.pending /\ disk'.pending[k] = want[k]
    BY <1>1 DEF OwedKept, BareKeys
  <2>1. /\ k \in DOMAIN pending /\ pending[k] = want[k]
        /\ k \in DOMAIN disk.pending /\ disk.pending[k] = want[k]
    BY DEF Kept, OwedKept
  <2>2. k \in DOMAIN sent => pending[k] # sent[k]
    BY <2>1 DEF Kept, SentIsNotOwed, PublishReturns
  <2>3. k \in DOMAIN pending' /\ pending'[k] = want[k]
    BY <1>1, <2>1, <2>2, CompletedFacts
  <2>4. disk' = disk \/ disk'.pending = pending'
    BY DEF PublishReturns, Complete, Saved, stored
  <2>5. QED BY <2>1, <2>3, <2>4
<1>3. QED BY <1>1, <1>2, ReleaseStep DEF PublishReturns, Release

(* All is kept at the start.                                               *)
LEMMA KeptInit == Init => Kept
<1> SUFFICES ASSUME Init PROVE Kept
  OBVIOUS
<1>1. SettingsSave
  BY NoParams DEF Init, SettingsSave
<1>2. SentIsNotOwed /\ OwedKept
  BY DEF Init, SentIsNotOwed, OwedKept
<1>3. QED BY <1>1, <1>2 DEF Kept

(* A panel request, its lock free or not.                                  *)
LEMMA RequestStep ==
    ASSUME Control, Kept, NEW p \in Panels, PanelRequest(p)
    PROVE  Kept'
<1>1. PICK j \in PanelJobs, transport \in Transports :
        /\ IF LockFree
             THEN DeliverLocked(p, j, transport) /\ UNCHANGED waiters
             ELSE /\ waiters' = Append(waiters, p)
                  /\ phase' = [phase EXCEPT ![p] = "waiting"]
                  /\ job' = [job EXCEPT ![p] = j]
                  /\ UNCHANGED <<pending, queue, lock, left, told, want, owed, runs, cut>>
        /\ IF j[2] THEN Saved ELSE UNCHANGED stored
  BY DEF PanelRequest
<1>2. p \in Procs
  BY ProcFacts
<1>3. ~j[2] => DOMAIN Params(j[1]) \subseteq BareKeys
  <2>1. ~j[2] => \E f \in BareWrites : Params(j[1]) = f
    BY PanelJobFacts, CommandFacts
  <2>2. \A f \in BareWrites : DOMAIN f \subseteq BareKeys
    BY DEF BareKeys
  <2>3. QED BY <2>1, <2>2
<1>4. Saves(j)
  <2>1. IsSet(j[1]) \/ DOMAIN Params(j[1]) = {}
    BY DEF Params, Empty
  <2>2. QED BY <1>3, <2>1 DEF Saves
<1>5. disk'.pending = pending' \/ (disk' = disk /\ DOMAIN Params(j[1]) \subseteq BareKeys)
  <2>1. CASE j[2]
    BY <1>1, <2>1 DEF Saved
  <2>2. CASE ~j[2]
    BY <1>1, <1>3, <2>2 DEF stored
  <2>3. QED BY <2>1, <2>2
<1>6. CASE LockFree
  <2>1. lock = Nobody /\ DeliverLocked(p, j, transport)
    BY <1>1, <1>6 DEF LockFree
  <2>2. QED BY <1>2, <1>4, <1>5, <2>1, DeliverStep
<1>7. CASE ~LockFree
  <2>1. /\ phase' = [phase EXCEPT ![p] = "waiting"]
        /\ job' = [job EXCEPT ![p] = j]
        /\ UNCHANGED <<pending, lock, left, want, owed>>
    BY <1>1, <1>7
  <2>2. SettingsSave'
    BY <1>2, <1>4, <2>1, JobStep DEF Kept, Control, TypeOK
  <2>3. SentIsNotOwed'
    <3> SUFFICES ASSUME NEW q \in Procs, phase'[q] = "publishing", left'[q]
                 PROVE  \A k \in DOMAIN Params(job'[q][1]) \cap owed' :
                          Params(job'[q][1])[k] # want'[k]
      BY DEF SentIsNotOwed, Params, IsSet
    <3>1. phase[q] = "publishing" /\ left[q] /\ job'[q] = job[q]
      BY <1>2, <2>1 DEF Control, TypeOK
    <3>2. QED BY <2>1, <3>1 DEF Kept, SentIsNotOwed
  <2>4. OwedKept'
    <3>1. disk'.pending = pending' \/ disk' = disk
      BY <1>5
    <3>2. QED BY <2>1, <3>1 DEF Kept, OwedKept, BareKeys
  <2>5. QED BY <2>2, <2>3, <2>4 DEF Kept
<1>8. QED BY <1>6, <1>7

(* The first in line, likewise.                                            *)
LEMMA TurnStep ==
    ASSUME Control, Kept, NEW p \in Panels, PanelGetsLock(p)
    PROVE  Kept'
<1>1. p \in Procs
  BY ProcFacts
<1>2. PICK transport \in Transports : DeliverLocked(p, job[p], transport)
  BY DEF PanelGetsLock
<1>3. Saves(job[p])
  BY <1>1 DEF Kept, SettingsSave
<1>4. disk'.pending = pending' \/ (disk' = disk /\ DOMAIN Params(job[p][1]) \subseteq BareKeys)
  <2>1. IF job[p][2] /\ IsSet(job[p][1]) THEN Saved ELSE UNCHANGED stored
    BY DEF PanelGetsLock
  <2>2. QED BY <1>3, <2>1 DEF Saved, stored, Saves
<1>5. lock = Nobody
  BY DEF PanelGetsLock, NextWaiter
<1>6. QED BY <1>1, <1>2, <1>3, <1>4, <1>5, DeliverStep

(* After a poll nothing is owed that is kept: it was pending and went out. *)
LEMMA PollStep ==
    ASSUME Kept, Heartbeat
    PROVE  Kept'
<1>1. owed' \subseteq BareKeys /\ owed' \subseteq owed /\ want' = want
  <2>1. \A k \in owed' : k \in owed /\ (k \in DOMAIN pending => pending[k] # want[k])
    BY DEF Heartbeat
  <2>2. \A k \in owed \ BareKeys : k \in DOMAIN pending /\ pending[k] = want[k]
    BY DEF Kept, OwedKept
  <2>3. QED BY <2>1, <2>2 DEF Heartbeat
<1>2. SettingsSave'
  BY DEF Kept, SettingsSave, Saves, Heartbeat, locking, Params, IsSet
<1>3. SentIsNotOwed'
  BY <1>1 DEF Kept, SentIsNotOwed, Heartbeat, locking, Params, IsSet
<1>4. OwedKept'
  BY <1>1 DEF OwedKept, BareKeys
<1>5. QED BY <1>2, <1>3, <1>4 DEF Kept

(* What a start reads back is what was owed.                               *)
LEMMA KillStep ==
    ASSUME Control, Kept, Restart \/ KilledBetweenSaves
    PROVE  Kept'
<1>1. PICK saved \in [settings : [Keys -> Values], pending : Assignments],
           lost \in SUBSET Keys :
        StartsFrom(saved, lost) /\ saved.pending \in {disk.pending, pending}
  BY KillStarts
<1>2. /\ pending' = saved.pending /\ disk' = saved /\ want' = want /\ owed' = owed
      /\ phase' = [p \in Procs |-> "idle"] /\ job' = [p \in Procs |-> NoJob]
  BY <1>1 DEF StartsFrom
<1>3. SettingsSave'
  <2>1. \A p \in Procs : job'[p] = NoJob
    BY <1>2
  <2>2. QED BY <2>1, NoParams DEF SettingsSave, Saves, Params, IsSet
<1>4. SentIsNotOwed'
  BY <1>2 DEF SentIsNotOwed
<1>5. OwedKept'
  BY <1>1, <1>2 DEF Kept, OwedKept, BareKeys
<1>6. QED BY <1>3, <1>4, <1>5 DEF Kept

(* Every step keeps it.                                                    *)
LEMMA KeptStep == Control /\ Kept /\ [Next]_vars => Kept'
<1> SUFFICES ASSUME Control, Kept, [Next]_vars PROVE Kept'
  OBVIOUS
<1>1. ASSUME NEW p \in Panels, PanelRequest(p) PROVE Kept'
  BY <1>1, RequestStep
<1>2. ASSUME NEW p \in Panels, PanelGetsLock(p) PROVE Kept'
  BY <1>2, TurnStep
<1>3. ASSUME NEW p \in Procs, PublishReturns(p) PROVE Kept'
  BY <1>3, CompleteStep
<1>4. ASSUME NEW p \in Procs, PublishRaises(p) PROVE Kept'
  <2>1. Release(p) /\ UNCHANGED <<pending, disk, want, owed>>
    BY <1>4 DEF PublishRaises, stored, history
  <2>2. OwedKept'
    BY <2>1 DEF Kept, OwedKept, BareKeys
  <2>3. QED BY <2>1, <2>2, ReleaseStep DEF Release
<1>5. ASSUME NEW gone \in BOOLEAN, RecoveryTurn(gone) PROVE Kept'
  BY <1>5, RecoveryStep DEF RecoveryTurn, LockFree, memory, stored
<1>6. ASSUME NEW gone \in BOOLEAN, RecoveryGetsLock(gone) PROVE Kept'
  <2>1. lock = Nobody /\ UNCHANGED <<pending, disk, want>>
    BY <1>6 DEF RecoveryGetsLock, NextWaiter, memory, stored
  <2>2. CASE RecoveryPublishes(gone)
    BY <2>1, <2>2, RecoveryStep
  <2>3. CASE Release(Recovery) /\ Hold(owed)
    <3>1. owed' = owed
      BY <2>3 DEF Hold
    <3>2. OwedKept'
      BY <2>1, <3>1 DEF Kept, OwedKept, BareKeys
    <3>3. QED BY <2>1, <2>3, <3>1, <3>2, ProcFacts, ReleaseStep DEF Release
  <2>4. QED BY <1>6, <2>2, <2>3 DEF RecoveryGetsLock
<1>7. CASE RecoveryWaits
  <2>1. /\ phase' = [phase EXCEPT ![Recovery] = "waiting"]
        /\ UNCHANGED <<pending, disk, job, left, want, owed>>
    BY <1>7 DEF RecoveryWaits, memory, stored, history
  <2>2. SettingsSave'
    BY <2>1 DEF Kept, SettingsSave, Saves, Params, IsSet
  <2>3. SentIsNotOwed'
    BY <2>1 DEF Kept, Control, TypeOK, SentIsNotOwed, Params, IsSet
  <2>4. OwedKept'
    BY <2>1 DEF Kept, OwedKept, BareKeys
  <2>5. QED BY <2>2, <2>3, <2>4 DEF Kept
<1>8. CASE BridgeConnects \/ RoutingChanges \/ HAPublishEnds
  <2>1. owed' = owed /\ UNCHANGED <<pending, disk, want, locking>>
    BY <1>8 DEF BridgeConnects, RoutingChanges, HAPublishEnds, memory, stored, history
  <2>2. QED BY <2>1, OwedShrinks
<1>9. CASE BridgeDisconnects
  <2>1. UNCHANGED <<pending, disk, want, owed>>
    BY <1>9 DEF BridgeDisconnects, memory, stored, history
  <2>2. OwedKept'
    BY <2>1 DEF Kept, OwedKept, BareKeys
  <2>3. QED BY <1>9, <2>1, <2>2, ProcFacts, ReleaseStep DEF BridgeDisconnects
<1>10. CASE Heartbeat
  BY <1>10, PollStep
<1>11. CASE HACommand
  <2>1. UNCHANGED <<pending, disk, want, locking>>
    BY <1>11 DEF HACommand
  <2>2. owed' \subseteq owed
    BY <1>11, HandOverFacts DEF HACommand, Hold
  <2>3. QED BY <2>1, <2>2, OwedShrinks
<1>12. CASE Flush
  <2>1. UNCHANGED <<pending, want, owed, locking>> /\ disk'.pending = pending'
    BY <1>12 DEF Flush, Saved, memory, history
  <2>2. SettingsSave' /\ SentIsNotOwed'
    BY <2>1 DEF Kept, SettingsSave, Saves, SentIsNotOwed, locking, Params, IsSet
  <2>3. OwedKept'
    BY <2>1 DEF Kept, OwedKept, BareKeys
  <2>4. QED BY <2>2, <2>3 DEF Kept
<1>13. CASE Restart \/ KilledBetweenSaves
  BY <1>13, KillStep
<1>14. CASE UNCHANGED vars
  BY <1>14, OwedShrinks DEF vars, memory, stored, history
<1>15. QED
  BY <1>1, <1>2, <1>3, <1>4, <1>5, <1>6, <1>7, <1>8, <1>9, <1>10, <1>11, <1>12, <1>13, <1>14
     DEF Next

-----------------------------------------------------------------------------
(* 6. What is settled shows.                                               *)

(* What is owed is pending, what is not was handed over with the value     *)
(* wanted, and a frame that left owes nothing it carries.                  *)
DebtOK(k) ==
    /\ k \in owed => k \in DOMAIN pending
    /\ k \notin owed => told[k] = want[k]
    /\ \A p \in Procs : left[p] /\ Carries(job[p][1], k) => k \notin owed

(* Of the requests that wait, the last that carries a setting is the one   *)
(* that wrote what is shown; when none does, what is shown is what is      *)
(* wanted, unless a kill cut its request short.                            *)
WaitersFor(k) == {i \in DOMAIN waiters : Carries(job[waiters[i]][1], k)}

LineOrder(k) ==
    \/ WaitersFor(k) = {} /\ (k \in cut \/ settings[k] = want[k])
    \/ \E i \in WaitersFor(k) :
         /\ \A n \in WaitersFor(k) : n <= i
         /\ Params(job[waiters[i]][1])[k] = settings[k]

(* What is shown of such a setting is what the file shows of it.           *)
ShownOnDisk(k) == disk.settings[k] = settings[k]

Settling == \A k \in PanelOnly : DebtOK(k) /\ LineOrder(k) /\ ShownOnDisk(k)

(* A move leaves what is not owed handed over with the value wanted.       *)
LEMMA SettledFromMoves ==
    ASSUME NEW k \in PanelOnly, k \notin owed => told[k] = want[k], \E D, S : Moves(D, S)
    PROVE  k \notin owed' => told'[k] = want'[k]
BY DEF Moves

(* The holder of the lock publishes j: if the frame leaves it pays what it *)
(* carries.                                                                *)
LEMMA PublishingDebt ==
    ASSUME Control, NEW k, NEW p \in Procs, NEW j, NEW gone \in BOOLEAN, lock = Nobody,
           Publishing(p, j, gone), gone /\ Carries(j[1], k) => k \notin owed'
    PROVE  \A q \in Procs : left'[q] /\ Carries(job'[q][1], k) => k \notin owed'
<1> SUFFICES ASSUME NEW q \in Procs, left'[q], Carries(job'[q][1], k) PROVE k \notin owed'
  BY DEF Carries, Params, IsSet
<1>1. CASE q = p
  <2>1. left'[q] = gone /\ job'[q] = j
    BY <1>1 DEF Publishing, Control, TypeOK
  <2>2. QED BY <2>1
<1>2. CASE q # p
  <2>1. left[q]
    BY <1>2 DEF Publishing, Control, TypeOK
  <2>2. lock = q
    BY <2>1 DEF Control, JobsOK, HolderPublishes
  <2>3. QED BY <2>2, ProcFacts
<1>3. QED BY <1>1, <1>2

(* A release, or a process that goes to wait, leaves the frames that left  *)
(* as they were.                                                           *)
LEMMA OtherDebt ==
    ASSUME Control, NEW k, NEW p \in Procs, DebtOK(k), k \in owed' => k \in owed,
           \A q \in Procs : q # p => job'[q] = job[q] /\ left'[q] = left[q],
           left'[p] = FALSE
    PROVE  \A q \in Procs : left'[q] /\ Carries(job'[q][1], k) => k \notin owed'
<1> SUFFICES ASSUME NEW q \in Procs, left'[q], Carries(job'[q][1], k) PROVE k \notin owed'
  BY DEF Carries, Params, IsSet
<1>1. q # p
  OBVIOUS
<1>2. job'[q] = job[q] /\ left[q]
  BY <1>1
<1>3. QED BY <1>2 DEF DebtOK

(* The steps that leave pending, and the jobs, as they are.                *)
LEMMA DebtSame ==
    ASSUME NEW k, DebtOK(k), k \in owed' => k \in owed, k \notin owed' => told'[k] = want'[k],
           UNCHANGED <<pending, left, job>>
    PROVE  DebtOK(k)'
BY DEF DebtOK, Carries, Params, IsSet

(* A delivery remembers what it owes.                                      *)
LEMMA DeliverDebt ==
    ASSUME Control, NEW k \in PanelOnly, DebtOK(k), NEW p \in Procs, lock = Nobody,
           NEW j \in Commands \X BOOLEAN, NEW transport, DeliverLocked(p, j, transport)
    PROVE  DebtOK(k)'
<1> DEFINE params == Params(j[1])
           owing  == owed \cup DOMAIN params
           wanted == Override(want, params)
<1>1. pending' = Override(pending, params) /\ want' = wanted
  BY DEF DeliverLocked
<1>2. \/ \E gone \in BOOLEAN : Publishing(p, j, gone) /\ HandOverIf(gone, j[1], wanted, owing)
      \/ Release(p) /\ Hold(owing)
  BY DEF DeliverLocked
<1>3. k \in owed' => k \in DOMAIN pending'
  <2>1. owed' \subseteq owing
    BY <1>2 DEF HandOverIf, HandOver, Hold
  <2>2. DOMAIN pending' = DOMAIN pending \cup DOMAIN params
    BY <1>1 DEF Override
  <2>3. QED BY <2>1, <2>2 DEF DebtOK
<1>4. k \notin owed' => told'[k] = want'[k]
  BY DeliverMoves, SettledFromMoves DEF DebtOK
<1>5. \A q \in Procs : left'[q] /\ Carries(job'[q][1], k) => k \notin owed'
  <2>1. CASE Release(p)
    <3> SUFFICES ASSUME NEW q \in Procs, left'[q] PROVE FALSE
      OBVIOUS
    <3>1. q # p /\ left[q]
      BY <2>1 DEF Release, Control, TypeOK
    <3>2. QED BY <3>1, ProcFacts DEF Control, JobsOK, HolderPublishes
  <2>2. ASSUME NEW gone \in BOOLEAN, Publishing(p, j, gone), HandOverIf(gone, j[1], wanted, owing)
        PROVE  \A q \in Procs : left'[q] /\ Carries(job'[q][1], k) => k \notin owed'
    <3>1. gone => owed' = owing \ {x \in DOMAIN params : params[x] = wanted[x]}
      BY <2>2 DEF HandOverIf, HandOver
    <3>2. k \in DOMAIN params => params[k] = wanted[k]
      BY DEF Override
    <3>3. gone /\ Carries(j[1], k) => k \notin owed'
      BY <3>1, <3>2 DEF Carries
    <3>4. QED BY <2>2, <3>3, PublishingDebt
  <2>3. QED BY <1>2, <2>1, <2>2
<1>6. QED BY <1>3, <1>4, <1>5 DEF DebtOK, Carries, Params, IsSet

(* The recovery loop pays what is pending.                                 *)
LEMMA RecoveryDebt ==
    ASSUME Control, NEW k \in PanelOnly, CarriesLatest(k), DebtOK(k), lock = Nobody,
           NEW gone \in BOOLEAN, RecoveryPublishes(gone), UNCHANGED <<pending, want>>,
           k \notin owed' => told'[k] = want'[k]
    PROVE  DebtOK(k)'
<1> DEFINE j == <<Set(pending), TRUE>>
<1>1. Publishing(Recovery, j, gone) /\ HandOverIf(gone, Set(pending), want, owed)
  BY DEF RecoveryPublishes
<1>2. Params(Set(pending)) = pending
  BY CommandFacts
<1>3. owed' \subseteq owed /\ (gone => owed' = owed \ {x \in DOMAIN pending : pending[x] = want[x]})
  BY <1>1, <1>2 DEF HandOverIf, HandOver, Hold
<1>4. gone /\ Carries(j[1], k) => k \notin owed'
  BY <1>2, <1>3 DEF Carries, CarriesLatest
<1>5. \A q \in Procs : left'[q] /\ Carries(job'[q][1], k) => k \notin owed'
  BY <1>1, <1>4, ProcFacts, PublishingDebt
<1>6. QED BY <1>3, <1>5 DEF DebtOK, Carries, Params, IsSet

(* A publish that returned drops from pending only what it paid.           *)
LEMMA ReturnDebt ==
    ASSUME Control, NEW k, DebtOK(k), NEW p \in Procs, PublishReturns(p)
    PROVE  DebtOK(k)'
<1> DEFINE sent == Params(job[p][1])
<1>1. /\ left[p] /\ pending' = PendingAfterCompleted(pending, sent)
      /\ Release(p) /\ UNCHANGED <<told, want, owed>>
  BY DEF PublishReturns, Complete, history
<1>2. k \in owed => k \in DOMAIN pending'
  <2>1. k \in owed => k \in DOMAIN pending /\ k \notin DOMAIN sent
    BY <1>1 DEF DebtOK, Carries
  <2>2. QED BY <1>1, <2>1 DEF PendingAfterCompleted, Without
<1>3. \A q \in Procs : left'[q] /\ Carries(job'[q][1], k) => k \notin owed'
  <2>1. /\ \A q \in Procs : q # p => job'[q] = job[q] /\ left'[q] = left[q]
        /\ left'[p] = FALSE
    BY <1>1 DEF Release, Control, TypeOK
  <2>2. QED BY <1>1, <2>1, OtherDebt
<1>4. QED BY <1>1, <1>2, <1>3 DEF DebtOK, Carries, Params, IsSet

(* The other steps that change the jobs, pending as it was.                *)
LEMMA JobDebt ==
    ASSUME Control, NEW k, DebtOK(k), NEW p \in Procs,
           \A q \in Procs : q # p => job'[q] = job[q] /\ left'[q] = left[q],
           left'[p] = FALSE, UNCHANGED <<told, want, owed, pending>>
    PROVE  DebtOK(k)'
<1>1. \A q \in Procs : left'[q] /\ Carries(job'[q][1], k) => k \notin owed'
  BY OtherDebt
<1>2. QED BY <1>1 DEF DebtOK, Carries, Params, IsSet

(* Every step keeps the debts in order.                                    *)
LEMMA DebtStep ==
    ASSUME Control, AllLatest, Kept, NEW k \in PanelOnly, DebtOK(k), [Next]_vars
    PROVE  DebtOK(k)'
<1>a. CarriesLatest(k)
  BY DEF AllLatest
<1>b. k \notin owed' => told'[k] = want'[k]
  BY LatestMoves, SettledFromMoves DEF DebtOK
<1>1. ASSUME NEW p \in Panels, PanelRequest(p) PROVE DebtOK(k)'
  <2>1. PICK j \in PanelJobs, transport \in Transports :
          IF LockFree THEN DeliverLocked(p, j, transport)
          ELSE /\ job' = [job EXCEPT ![p] = j]
               /\ UNCHANGED <<pending, left, told, want, owed>>
    BY <1>1 DEF PanelRequest
  <2>2. p \in Procs /\ j \in Commands \X BOOLEAN /\ phase[p] = "idle"
    BY <1>1, ProcFacts, PanelJobFacts DEF PanelRequest
  <2>3. CASE LockFree
    BY <2>1, <2>2, <2>3, DeliverDebt DEF LockFree
  <2>4. CASE ~LockFree
    <3>1. /\ \A q \in Procs : q # p => job'[q] = job[q] /\ left'[q] = left[q]
          /\ left'[p] = FALSE
      BY <2>1, <2>2, <2>4 DEF Control, TypeOK, JobsOK
    <3>2. QED BY <2>1, <2>2, <2>4, <3>1, JobDebt
  <2>5. QED BY <2>3, <2>4
<1>2. ASSUME NEW p \in Panels, PanelGetsLock(p) PROVE DebtOK(k)'
  <2>1. PICK transport \in Transports : DeliverLocked(p, job[p], transport)
    BY <1>2 DEF PanelGetsLock
  <2>2. p \in Procs /\ p # Recovery /\ phase[p] = "waiting" /\ lock = Nobody
    BY <1>2, ProcFacts, LineMoves DEF PanelGetsLock, Control
  <2>3. job[p] \in Commands \X BOOLEAN
    <3>1. job[p] \in (Commands \cup {Set(Empty)}) \X BOOLEAN /\ job[p][1] \in Commands
      BY <2>2 DEF Control, TypeOK, JobsOK
    <3>2. QED BY <3>1
  <2>4. QED BY <2>1, <2>2, <2>3, DeliverDebt
<1>3. ASSUME NEW p \in Procs, PublishReturns(p) PROVE DebtOK(k)'
  BY <1>3, ReturnDebt
<1>4. ASSUME NEW p \in Procs, PublishRaises(p) PROVE DebtOK(k)'
  <2>1. /\ \A q \in Procs : q # p => job'[q] = job[q] /\ left'[q] = left[q]
        /\ left'[p] = FALSE
    BY <1>4 DEF PublishRaises, Release, Control, TypeOK
  <2>2. UNCHANGED <<told, want, owed, pending>>
    BY <1>4 DEF PublishRaises, history
  <2>3. QED BY <2>1, <2>2, JobDebt
<1>5. ASSUME NEW gone \in BOOLEAN, RecoveryTurn(gone) PROVE DebtOK(k)'
  <2>1. lock = Nobody /\ RecoveryPublishes(gone) /\ UNCHANGED <<pending, want>>
    BY <1>5 DEF RecoveryTurn, LockFree, memory
  <2>2. QED BY <1>a, <1>b, <2>1, RecoveryDebt
<1>6. ASSUME NEW gone \in BOOLEAN, RecoveryGetsLock(gone) PROVE DebtOK(k)'
  <2>1. lock = Nobody /\ UNCHANGED <<pending, want>>
    BY <1>6 DEF RecoveryGetsLock, NextWaiter, memory
  <2>2. CASE RecoveryPublishes(gone)
    BY <1>a, <1>b, <2>1, <2>2, RecoveryDebt
  <2>3. CASE Release(Recovery) /\ Hold(owed)
    <3>1. /\ \A q \in Procs : q # Recovery => job'[q] = job[q] /\ left'[q] = left[q]
          /\ left'[Recovery] = FALSE
      BY <2>3, ProcFacts DEF Release, Control, TypeOK
    <3>2. UNCHANGED <<told, want, owed, pending>>
      BY <2>1, <2>3 DEF Hold
    <3>3. QED BY <3>1, <3>2, ProcFacts, JobDebt
  <2>4. QED BY <1>6, <2>2, <2>3 DEF RecoveryGetsLock
<1>7. CASE RecoveryWaits \/ BridgeConnects \/ RoutingChanges \/ HAPublishEnds \/ Flush \/ UNCHANGED vars
  <2>1. UNCHANGED <<told, want, owed, pending, left, job>>
    BY <1>7 DEF RecoveryWaits, BridgeConnects, RoutingChanges, HAPublishEnds, Flush, vars,
                memory, locking, history
  <2>2. QED BY <1>b, <2>1, DebtSame
<1>8. CASE BridgeDisconnects
  <2>1. /\ \A q \in Procs : q # Recovery => job'[q] = job[q] /\ left'[q] = left[q]
        /\ left'[Recovery] = FALSE
    BY <1>8, ProcFacts DEF BridgeDisconnects, Control, TypeOK
  <2>2. UNCHANGED <<told, want, owed, pending>>
    BY <1>8 DEF BridgeDisconnects, memory, history
  <2>3. QED BY <2>1, <2>2, ProcFacts, JobDebt
<1>9. CASE Heartbeat
  <2>1. k \notin owed'
    BY <1>9, <1>a DEF Heartbeat, DebtOK, CarriesLatest
  <2>2. QED BY <1>b, <2>1 DEF DebtOK, Carries, Params, IsSet
<1>10. CASE HACommand
  <2>1. owed' \subseteq owed
    BY <1>10 DEF HACommand, HandOverIf, HandOver, Hold
  <2>2. UNCHANGED <<pending, left, job>>
    BY <1>10 DEF HACommand, locking
  <2>3. QED BY <1>b, <2>1, <2>2, DebtSame
<1>11. CASE Restart \/ KilledBetweenSaves
  <2>1. PICK saved \in [settings : [Keys -> Values], pending : Assignments],
             lost \in SUBSET Keys :
          StartsFrom(saved, lost) /\ saved.pending \in {disk.pending, pending}
    BY <1>11, KillStarts
  <2>2. pending' = saved.pending /\ owed' = owed /\ \A p \in Procs : left'[p] = FALSE
    BY <2>1 DEF StartsFrom
  <2>3. k \notin BareKeys
    BY PanelOnlyFacts DEF BareKeys
  <2>4. k \in owed' => k \in DOMAIN pending'
    BY <2>1, <2>2, <2>3 DEF Kept, OwedKept
  <2>5. QED BY <1>b, <2>2, <2>4 DEF DebtOK, Carries, Params, IsSet
<1>12. QED
  BY <1>1, <1>2, <1>3, <1>4, <1>5, <1>6, <1>7, <1>8, <1>9, <1>10, <1>11 DEF Next

(* The line stays as it is.                                                *)
LEMMA LineKept ==
    ASSUME NEW k, LineOrder(k), waiters' = waiters,
           \A i \in DOMAIN waiters : job'[waiters[i]] = job[waiters[i]],
           settings'[k] = settings[k], want'[k] = want[k], cut' = cut
    PROVE  LineOrder(k)'
<1>1. WaitersFor(k)' = WaitersFor(k)
  BY DEF WaitersFor, Carries, Params, IsSet
<1>2. \A i \in WaitersFor(k) : i \in DOMAIN waiters
  BY DEF WaitersFor
<1>3. QED BY <1>1, <1>2 DEF LineOrder, Params, IsSet

(* A process that does not wait changes its job.                           *)
LEMMA LineKeptBy ==
    ASSUME Control, NEW k, LineOrder(k), waiters' = waiters, NEW p \in Procs, phase[p] # "waiting",
           \A q \in Procs : q # p => job'[q] = job[q],
           settings'[k] = settings[k], want'[k] = want[k], cut' = cut
    PROVE  LineOrder(k)'
<1>1. \A i \in DOMAIN waiters : waiters[i] \in Procs /\ waiters[i] # p
  BY DEF Control, TypeOK, LineOK
<1>2. QED BY <1>1, LineKept

(* One more stands in line, with the value now shown.                      *)
LEMMA LineGrows ==
    ASSUME Control, NEW k, LineOrder(k), NEW p \in Procs, phase[p] = "idle",
           waiters' = Append(waiters, p), \A q \in Procs : q # p => job'[q] = job[q],
           want'[k] = want[k], cut' = cut,
           IF Carries(job'[p][1], k) THEN settings'[k] = Params(job'[p][1])[k]
                                     ELSE settings'[k] = settings[k]
    PROVE  LineOrder(k)'
<1> DEFINE n == Len(waiters)
<1>1. /\ DOMAIN waiters = 1..n /\ n \in Nat /\ DOMAIN waiters' = 1..(n + 1)
      /\ waiters'[n + 1] = p
      /\ \A i \in DOMAIN waiters : waiters'[i] = waiters[i] /\ waiters[i] \in Procs /\ waiters[i] # p
  BY DEF Control, TypeOK, LineOK
<1> HIDE DEF n
<1>2. \A i \in DOMAIN waiters : i \in 1..(n + 1) /\ i <= n + 1 /\ job'[waiters'[i]] = job[waiters[i]]
  BY <1>1
<1>3. \A i : i \in 1..(n + 1) <=> i \in DOMAIN waiters \/ i = n + 1
  BY <1>1
<1>4. n + 1 \notin DOMAIN waiters /\ n + 1 \in Int /\ n + 1 <= n + 1
  BY <1>1
<1>5. \A i : i \in WaitersFor(k)' <=> i \in WaitersFor(k) \/ (i = n + 1 /\ Carries(job'[p][1], k))
  BY <1>1, <1>2, <1>3, <1>4 DEF WaitersFor, Carries, Params, IsSet
<1>6. \A i \in WaitersFor(k) : i \in DOMAIN waiters
  BY DEF WaitersFor
<1>7. CASE Carries(job'[p][1], k)
  <2>1. n + 1 \in WaitersFor(k)' /\ \A i \in WaitersFor(k)' : i <= n + 1
    BY <1>2, <1>4, <1>5, <1>6, <1>7
  <2>2. Params(job'[waiters'[n + 1]][1])[k] = settings'[k]
    BY <1>1, <1>7
  <2>3. QED BY <2>1, <2>2 DEF LineOrder, Params, IsSet
<1>8. CASE ~Carries(job'[p][1], k)
  <2>1. WaitersFor(k)' = WaitersFor(k) /\ settings'[k] = settings[k]
    BY <1>5, <1>8
  <2>2. \A i \in WaitersFor(k) : Params(job'[waiters'[i]][1]) = Params(job[waiters[i]][1])
    BY <1>2, <1>6
  <2>3. QED BY <2>1, <2>2 DEF LineOrder, Params, IsSet
<1>9. QED BY <1>7, <1>8

(* The first leaves the line; what it carries becomes wanted.              *)
LEMMA LineServed ==
    ASSUME Control, NEW k, LineOrder(k), NEW p, NextWaiter(p), waiters' = Tail(waiters),
           \A q \in Procs : q # p => job'[q] = job[q],
           settings'[k] = settings[k],
           want'[k] = IF Carries(job[p][1], k) THEN Params(job[p][1])[k] ELSE want[k],
           ~Carries(job[p][1], k) /\ k \in cut => k \in cut'
    PROVE  LineOrder(k)'
<1>1. /\ p \in Procs /\ 1 \in DOMAIN waiters /\ waiters[1] = p
      /\ \A i \in DOMAIN waiters' : i + 1 \in DOMAIN waiters /\ waiters'[i] = waiters[i + 1]
      /\ \A i \in DOMAIN waiters : i # 1 => i - 1 \in DOMAIN waiters' /\ waiters'[i - 1] = waiters[i]
      /\ LineFor(p, waiters')
  BY LineMoves DEF Control
<1>2. /\ \A i \in DOMAIN waiters : i \in Int /\ i >= 1
      /\ \A i \in DOMAIN waiters' : i \in Int /\ i >= 1
  BY <1>1 DEF Control, TypeOK, LineFor
<1>3. \A i \in DOMAIN waiters' : job'[waiters'[i]] = job[waiters[i + 1]]
  BY <1>1 DEF LineFor
<1>4. \A i \in WaitersFor(k) : i \in DOMAIN waiters /\ (i # 1 => i - 1 \in WaitersFor(k)')
  <2> SUFFICES ASSUME NEW i \in WaitersFor(k), i # 1 PROVE i - 1 \in WaitersFor(k)'
    BY DEF WaitersFor
  <2>1. i - 1 \in DOMAIN waiters' /\ Carries(job[waiters[i]][1], k) /\ (i - 1) + 1 = i
    BY <1>1, <1>2 DEF WaitersFor
  <2>2. Carries(job'[waiters'[i - 1]][1], k)
    BY <1>3, <2>1
  <2>3. QED BY <2>1, <2>2 DEF WaitersFor, Carries, Params, IsSet
<1>5. \A i \in WaitersFor(k)' : i \in DOMAIN waiters' /\ i + 1 \in WaitersFor(k)
  BY <1>1, <1>3 DEF WaitersFor, Carries, Params, IsSet
<1>6. 1 \in WaitersFor(k) <=> Carries(job[p][1], k)
  BY <1>1 DEF WaitersFor
<1>7. CASE WaitersFor(k)' = {}
  <2>1. WaitersFor(k) \subseteq {1}
    BY <1>4, <1>7
  <2>2. k \in cut' \/ settings[k] = want'[k]
    BY <1>1, <1>6, <2>1 DEF LineOrder
  <2>3. QED BY <1>7, <2>2 DEF LineOrder, WaitersFor
<1>8. CASE WaitersFor(k)' # {}
  <2>1. PICK w \in WaitersFor(k)' : TRUE
    BY <1>8
  <2>2. w + 1 \in WaitersFor(k) /\ w \in Int /\ w >= 1
    BY <1>2, <1>5, <2>1
  <2>3. PICK i \in WaitersFor(k) :
          /\ \A n \in WaitersFor(k) : n <= i
          /\ Params(job[waiters[i]][1])[k] = settings[k]
    BY <2>2 DEF LineOrder
  <2>4. i # 1 /\ i \in DOMAIN waiters /\ i \in Int
    BY <1>2, <1>4, <2>2, <2>3
  <2>5. i - 1 \in WaitersFor(k)' /\ i - 1 \in DOMAIN waiters' /\ (i - 1) + 1 = i
    BY <1>4, <1>5, <2>4
  <2>6. \A n \in WaitersFor(k)' : n <= i - 1
    BY <1>2, <1>5, <2>3, <2>4
  <2>7. Params(job'[waiters'[i - 1]][1])[k] = settings'[k]
    BY <1>3, <2>3, <2>5
  <2>8. QED BY <2>5, <2>6, <2>7 DEF LineOrder, Params, IsSet
<1>9. QED BY <1>7, <1>8

(* Recovery, which carries nothing while it waits, leaves the line.        *)
LEMMA LineThinned ==
    ASSUME Control, NEW k, LineOrder(k), BridgeDisconnects
    PROVE  LineOrder(k)'
<1> DEFINE S == {i \in DOMAIN waiters : waiters[i] # Recovery}
<1>1. /\ waiters' = Sift(waiters, S) /\ S \in SUBSET DOMAIN waiters /\ waiters \in Seq(Procs)
      /\ settings' = settings /\ want' = want /\ cut' = cut
      /\ \A q \in Procs : q # Recovery => job'[q] = job[q]
  BY DEF BridgeDisconnects, Control, TypeOK, memory, history
<1>2. /\ waiters' \in Seq(Procs) /\ DOMAIN waiters' = 1..Cardinality(S)
      /\ \A i \in DOMAIN waiters' : Nth(S, i) \in S /\ waiters'[i] = waiters[Nth(S, i)]
      /\ \A j \in S : \E i \in DOMAIN waiters' : Nth(S, i) = j
      /\ \A i, j \in DOMAIN waiters' : i < j => Nth(S, i) < Nth(S, j)
  <2> HIDE DEF S
  <2>1. QED BY <1>1, SiftFacts
<1>3. \A i \in S : waiters[i] # Recovery /\ waiters[i] \in Procs /\ i \in Int
  BY <1>1
<1>4. \A i \in WaitersFor(k) : i \in S
  <2>1. Recovery \in Procs /\ phase[Recovery] = "waiting" => job[Recovery] = NoJob
    BY DEF Control, JobsOK
  <2>2. \A i \in WaitersFor(k) : i \in DOMAIN waiters /\ Carries(job[waiters[i]][1], k)
                                 /\ phase[waiters[i]] = "waiting"
    BY DEF WaitersFor, Control, LineOK
  <2>3. QED BY <2>1, <2>2, ProcFacts, NoneCarried
<1> HIDE DEF S
<1>5. \A i \in DOMAIN waiters' : job'[waiters'[i]] = job[waiters[Nth(S, i)]]
  BY <1>1, <1>2, <1>3
<1>6. \A i : i \in WaitersFor(k)' <=> i \in DOMAIN waiters' /\ Nth(S, i) \in WaitersFor(k)
  BY <1>1, <1>2, <1>5 DEF WaitersFor, Carries, Params, IsSet
<1>7. CASE WaitersFor(k) = {}
  <2>1. WaitersFor(k)' = {} /\ (k \in cut' \/ settings'[k] = want'[k])
    BY <1>1, <1>6, <1>7 DEF LineOrder
  <2>2. QED BY <2>1 DEF LineOrder, WaitersFor
<1>8. CASE WaitersFor(k) # {}
  <2>1. PICK i \in WaitersFor(k) :
          /\ \A n \in WaitersFor(k) : n <= i
          /\ Params(job[waiters[i]][1])[k] = settings[k]
    BY <1>8 DEF LineOrder
  <2>2. PICK m \in DOMAIN waiters' : Nth(S, m) = i
    BY <1>2, <1>4
  <2>3. m \in WaitersFor(k)' /\ m \in Int
    BY <1>2, <1>6, <2>2
  <2>4. ASSUME NEW n \in WaitersFor(k)' PROVE n <= m
    <3>1. n \in DOMAIN waiters' /\ n \in Int /\ Nth(S, n) \in Int /\ Nth(S, m) \in Int
          /\ Nth(S, n) <= Nth(S, m)
      BY <1>2, <1>3, <1>6, <2>1, <2>2
    <3>2. ~(m < n)
      BY <1>2, <2>2, <3>1
    <3>3. QED BY <2>3, <3>1, <3>2
  <2>5. Params(job'[waiters'[m]][1])[k] = settings'[k]
    BY <1>1, <1>5, <2>1, <2>2
  <2>6. QED BY <2>3, <2>4, <2>5 DEF LineOrder, Params, IsSet
<1>9. QED BY <1>7, <1>8

(* What a command assigns, for the settings it carries.                    *)
LEMMA OverrideAt ==
    ASSUME NEW f, NEW cmd, NEW k \in DOMAIN f
    PROVE  Override(f, Params(cmd))[k] = IF Carries(cmd, k) THEN Params(cmd)[k] ELSE f[k]
BY DEF Override, Carries

(* Who waits with settings is a panel request.                             *)
LEMMA WaitersArePanels ==
    ASSUME Control, NEW k, NEW i \in WaitersFor(k)
    PROVE  /\ i \in DOMAIN waiters /\ waiters[i] \in Panels /\ phase[waiters[i]] = "waiting"
           /\ k \in DOMAIN Params(job[waiters[i]][1])
<1>1. i \in DOMAIN waiters /\ Carries(job[waiters[i]][1], k)
  BY DEF WaitersFor
<1>2. waiters[i] \in Procs /\ phase[waiters[i]] = "waiting"
  BY <1>1 DEF Control, TypeOK, LineOK
<1>3. waiters[i] # Recovery
  BY <1>1, <1>2, NoneCarried DEF Control, JobsOK
<1>4. QED BY <1>1, <1>2, <1>3 DEF Procs, Carries

(* A kill empties the line: what waited there is cut short.                *)
LEMMA LineCut ==
    ASSUME Control, NEW k \in PanelOnly, LineOrder(k), ShownOnDisk(k),
           Restart \/ KilledBetweenSaves
    PROVE  LineOrder(k)'
<1>1. WaitersFor(k)' = {} /\ want' = want
  BY DEF Restart, KilledBetweenSaves, StartsFrom, WaitersFor
<1>2. k \in cut' \/ settings'[k] = want[k]
  <2>1. CASE Restart
    <3>1. cut' = cut \cup Unremembered /\ settings' = disk.settings
      BY <2>1 DEF Restart, StartsFrom
    <3>2. WaitersFor(k) # {} => k \in Unremembered
      BY WaitersArePanels DEF Unremembered
    <3>3. QED BY <3>1, <3>2 DEF LineOrder, ShownOnDisk
  <2>2. CASE KilledBetweenSaves
    <3>1. PICK f \in PanelWrites :
            StartsFrom([settings |-> Override(settings, f), pending |-> pending], DOMAIN f)
      BY <2>2 DEF KilledBetweenSaves
    <3>2. cut' = cut \cup DOMAIN f /\ settings' = Override(settings, f)
      BY <3>1 DEF StartsFrom
    <3>3. WaitersFor(k) = {}
      BY <2>2 DEF KilledBetweenSaves, LockFree, WaitersFor
    <3>4. k \in cut \/ settings[k] = want[k]
      BY <3>3 DEF LineOrder
    <3>5. k \in DOMAIN settings
      BY PanelOnlyFacts DEF Control, TypeOK
    <3>6. k \notin DOMAIN f => settings'[k] = settings[k]
      BY <3>2, <3>5 DEF Override
    <3>7. QED BY <3>2, <3>4, <3>6
  <2>3. QED BY <2>1, <2>2
<1>3. QED BY <1>1, <1>2 DEF LineOrder, WaitersFor

(* Every step keeps the line in order.                                     *)
LEMMA LineStep ==
    ASSUME Control, NEW k \in PanelOnly, LineOrder(k), ShownOnDisk(k), [Next]_vars
    PROVE  LineOrder(k)'
<1>a. k \in DOMAIN settings /\ k \in DOMAIN want
  BY PanelOnlyFacts DEF Control, TypeOK
<1>1. ASSUME NEW p \in Panels, PanelRequest(p) PROVE LineOrder(k)'
  <2>1. PICK j \in PanelJobs, transport \in Transports :
          /\ settings' = Override(settings, Params(j[1]))
          /\ IF LockFree
               THEN DeliverLocked(p, j, transport) /\ UNCHANGED waiters
               ELSE /\ waiters' = Append(waiters, p)
                    /\ job' = [job EXCEPT ![p] = j]
                    /\ UNCHANGED <<want, cut>>
    BY <1>1 DEF PanelRequest
  <2>2. p \in Procs /\ phase[p] = "idle"
    BY <1>1, ProcFacts DEF PanelRequest
  <2>3. settings'[k] = IF Carries(j[1], k) THEN Params(j[1])[k] ELSE settings[k]
    BY <1>a, <2>1, OverrideAt
  <2>4. CASE LockFree
    <3>1. /\ waiters' = <<>> /\ WaitersFor(k) = {} /\ want' = Override(want, Params(j[1]))
          /\ cut' = cut \ DOMAIN Params(j[1])
      BY <2>1, <2>4 DEF LockFree, WaitersFor, DeliverLocked
    <3>2. k \in cut \/ settings[k] = want[k]
      BY <3>1 DEF LineOrder
    <3>3. k \in cut' \/ settings'[k] = want'[k]
      BY <1>a, <2>3, <3>1, <3>2, OverrideAt DEF Carries
    <3>4. WaitersFor(k)' = {}
      BY <3>1 DEF WaitersFor
    <3>5. QED BY <3>3, <3>4 DEF LineOrder, WaitersFor
  <2>5. CASE ~LockFree
    <3>1. /\ waiters' = Append(waiters, p) /\ want' = want /\ cut' = cut
          /\ job'[p] = j /\ \A q \in Procs : q # p => job'[q] = job[q]
      BY <2>1, <2>2, <2>5 DEF Control, TypeOK
    <3>2. QED BY <2>2, <2>3, <3>1, LineGrows
  <2>6. QED BY <2>4, <2>5
<1>2. ASSUME NEW p \in Panels, PanelGetsLock(p) PROVE LineOrder(k)'
  <2>1. PICK transport \in Transports : DeliverLocked(p, job[p], transport)
    BY <1>2 DEF PanelGetsLock
  <2>2. /\ NextWaiter(p) /\ waiters' = Tail(waiters) /\ settings' = settings
        /\ p \in Procs /\ \A q \in Procs : q # p => job'[q] = job[q]
    BY <1>2, <2>1, ProcFacts DEF PanelGetsLock, DeliverLocked, Publishing, Release, Control, TypeOK
  <2>3. want'[k] = IF Carries(job[p][1], k) THEN Params(job[p][1])[k] ELSE want[k]
    <3>1. want' = Override(want, Params(job[p][1]))
      BY <2>1 DEF DeliverLocked
    <3>2. QED BY <1>a, <3>1, OverrideAt
  <2>4. ~Carries(job[p][1], k) /\ k \in cut => k \in cut'
    BY <2>1 DEF DeliverLocked, Carries
  <2>5. QED BY <2>2, <2>3, <2>4, LineServed
<1>3. ASSUME NEW p \in Procs, PublishReturns(p) \/ PublishRaises(p) PROVE LineOrder(k)'
  <2>1. /\ waiters' = waiters /\ phase[p] # "waiting" /\ settings' = settings /\ want' = want
        /\ cut' = cut /\ \A q \in Procs : q # p => job'[q] = job[q]
    BY <1>3 DEF PublishReturns, PublishRaises, Complete, Release, history, Control, TypeOK
  <2>2. QED BY <2>1, LineKeptBy
<1>4. ASSUME NEW gone \in BOOLEAN, RecoveryTurn(gone) PROVE LineOrder(k)'
  <2>1. /\ waiters' = waiters /\ phase[Recovery] = "idle" /\ settings' = settings /\ want' = want
        /\ cut' = cut /\ \A q \in Procs : q # Recovery => job'[q] = job[q]
    BY <1>4, ProcFacts DEF RecoveryTurn, RecoveryPublishes, Publishing, memory, Control, TypeOK
  <2>2. QED BY <2>1, ProcFacts, LineKeptBy
<1>5. ASSUME NEW gone \in BOOLEAN, RecoveryGetsLock(gone) PROVE LineOrder(k)'
  <2>1. /\ NextWaiter(Recovery) /\ waiters' = Tail(waiters) /\ settings' = settings /\ want' = want
        /\ cut' = cut /\ \A q \in Procs : q # Recovery => job'[q] = job[q]
    BY <1>5, ProcFacts
    DEF RecoveryGetsLock, RecoveryPublishes, Publishing, Release, memory, Control, TypeOK
  <2>2. ~Carries(job[Recovery][1], k)
    <3>1. phase[Recovery] = "waiting"
      BY <2>1, LineMoves DEF Control
    <3>2. job[Recovery] = NoJob
      BY <3>1, ProcFacts DEF Control, JobsOK
    <3>3. QED BY <3>2, NoneCarried
  <2>3. QED BY <2>1, <2>2, LineServed
<1>6. CASE RecoveryWaits
  <2>1. /\ phase[Recovery] = "idle" /\ waiters' = Append(waiters, Recovery)
        /\ job' = job /\ settings' = settings /\ want' = want /\ cut' = cut
    BY <1>6 DEF RecoveryWaits, memory, history
  <2>2. ~Carries(job'[Recovery][1], k)
    <3>1. job[Recovery] = NoJob
      BY <2>1, ProcFacts DEF Control, JobsOK
    <3>2. QED BY <2>1, <3>1, NoneCarried
  <2>3. QED BY <2>1, <2>2, ProcFacts, LineGrows
<1>7. CASE BridgeConnects \/ RoutingChanges \/ HAPublishEnds \/ Flush \/ Heartbeat \/ UNCHANGED vars
  <2>1. UNCHANGED <<waiters, job, settings, want, cut>>
    BY <1>7 DEF BridgeConnects, RoutingChanges, HAPublishEnds, Flush, Heartbeat, vars,
                memory, locking, history
  <2>2. QED BY <2>1, LineKept
<1>8. CASE BridgeDisconnects
  BY <1>8, LineThinned
<1>9. CASE HACommand
  <2>1. PICK cmd \in {Set(f) : f \in HAWrites} \cup {Act(a) : a \in HAActions \ asked} :
          settings' = Override(settings, Params(cmd))
    BY <1>9 DEF HACommand
  <2>2. ~Carries(cmd, k)
    BY PanelOnlyFacts, CommandFacts, NoneCarried DEF Carries
  <2>3. settings'[k] = settings[k]
    BY <1>a, <2>1, <2>2, OverrideAt
  <2>4. UNCHANGED <<waiters, job, want, cut>>
    BY <1>9 DEF HACommand, locking
  <2>5. QED BY <2>3, <2>4, LineKept
<1>10. CASE Restart \/ KilledBetweenSaves
  BY <1>10, LineCut
<1>11. QED
  BY <1>1, <1>2, <1>3, <1>4, <1>5, <1>6, <1>7, <1>8, <1>9, <1>10 DEF Next

(* What is shown of these settings is written in every step that changes   *)
(* it.                                                                     *)
LEMMA ShownStep ==
    ASSUME Control, NEW k \in PanelOnly, ShownOnDisk(k), [Next]_vars
    PROVE  ShownOnDisk(k)'
<1>a. k \in DOMAIN settings
  BY PanelOnlyFacts DEF Control, TypeOK
<1>b. ASSUME Saved \/ (disk' = disk /\ settings'[k] = settings[k]) PROVE ShownOnDisk(k)'
  BY <1>b DEF Saved, ShownOnDisk
<1>1. ASSUME NEW p \in Panels, PanelRequest(p) PROVE ShownOnDisk(k)'
  <2>1. PICK j \in PanelJobs : /\ settings' = Override(settings, Params(j[1]))
                               /\ IF j[2] THEN Saved ELSE UNCHANGED stored
    BY <1>1 DEF PanelRequest
  <2>2. ~j[2] => ~Carries(j[1], k)
    BY PanelJobFacts, PanelOnlyFacts, CommandFacts DEF Carries
  <2>3. ~j[2] => settings'[k] = settings[k]
    BY <1>a, <2>1, <2>2, OverrideAt
  <2>4. QED BY <1>b, <2>1, <2>3 DEF stored
<1>2. ASSUME NEW p \in Panels, PanelGetsLock(p) PROVE ShownOnDisk(k)'
  BY <1>2, <1>b DEF PanelGetsLock, stored
<1>3. ASSUME NEW p \in Procs, PublishReturns(p) \/ PublishRaises(p) PROVE ShownOnDisk(k)'
  BY <1>3, <1>b DEF PublishReturns, PublishRaises, Complete, stored
<1>4. ASSUME NEW gone \in BOOLEAN, RecoveryTurn(gone) \/ RecoveryGetsLock(gone)
      PROVE  ShownOnDisk(k)'
  BY <1>4, <1>b DEF RecoveryTurn, RecoveryGetsLock, memory, stored
<1>5. CASE RecoveryWaits \/ BridgeConnects \/ BridgeDisconnects \/ RoutingChanges
           \/ Heartbeat \/ HAPublishEnds \/ Flush \/ UNCHANGED vars
  BY <1>5, <1>b DEF RecoveryWaits, BridgeConnects, BridgeDisconnects, RoutingChanges, Heartbeat,
                    HAPublishEnds, Flush, vars, memory, stored
<1>6. CASE HACommand
  <2>1. PICK cmd \in {Set(f) : f \in HAWrites} \cup {Act(a) : a \in HAActions \ asked} :
          settings' = Override(settings, Params(cmd))
    BY <1>6 DEF HACommand
  <2>2. ~Carries(cmd, k)
    BY PanelOnlyFacts, CommandFacts, NoneCarried DEF Carries
  <2>3. settings'[k] = settings[k]
    BY <1>a, <2>1, <2>2, OverrideAt
  <2>4. QED BY <1>6, <1>b, <2>3 DEF HACommand
<1>7. CASE Restart \/ KilledBetweenSaves
  BY <1>7 DEF Restart, KilledBetweenSaves, StartsFrom, ShownOnDisk
<1>8. QED
  BY <1>1, <1>2, <1>3, <1>4, <1>5, <1>6, <1>7 DEF Next

(* Debts and line are in order at the start.                               *)
LEMMA SettlingInit == Init => Settling
<1> SUFFICES ASSUME Init, NEW k \in PanelOnly PROVE DebtOK(k) /\ LineOrder(k) /\ ShownOnDisk(k)
  BY DEF Settling
<1>1. DebtOK(k)
  BY DEF Init, DebtOK
<1>2. WaitersFor(k) = {} /\ settings[k] = want[k]
  BY DEF Init, WaitersFor
<1>3. ShownOnDisk(k)
  BY DEF Init, ShownOnDisk
<1>4. QED BY <1>1, <1>2, <1>3 DEF LineOrder

IInv == LatestInv /\ Kept /\ Settling

(* IInv is inductive.                                                      *)
LEMMA InvStep == IInv /\ [Next]_vars => IInv'
<1> SUFFICES ASSUME IInv, [Next]_vars PROVE IInv'
  OBVIOUS
<1>1. LatestInv' /\ Kept'
  BY LatestInvStep, KeptStep DEF IInv, LatestInv
<1>2. ASSUME NEW k \in PanelOnly PROVE DebtOK(k)' /\ LineOrder(k)' /\ ShownOnDisk(k)'
  BY DebtStep, LineStep, ShownStep DEF IInv, LatestInv, Settling
<1>3. QED BY <1>1, <1>2 DEF IInv, Settling

(* What it says of a setting that is not in flight.                        *)
LEMMA SettlingShows == Control /\ Settling => SettledShowsTruth
<1> SUFFICES ASSUME Control, Settling, NEW k \in PanelOnly \ cut, ~InFlight(k)
             PROVE  told[k] = settings[k]
  BY DEF SettledShowsTruth
<1>1. DebtOK(k) /\ LineOrder(k)
  BY DEF Settling
<1>2. k \notin DOMAIN pending /\ \A p \in Procs : k \notin DOMAIN Params(job[p][1])
  BY DEF InFlight
<1>3. told[k] = want[k]
  BY <1>1, <1>2 DEF DebtOK
<1>4. WaitersFor(k) = {}
  BY <1>2 DEF WaitersFor, Carries, Control, TypeOK
<1>5. QED BY <1>1, <1>3, <1>4 DEF LineOrder

(* And what it says of what the file shows.                                *)
LEMMA ShownFollows == Control /\ Kept /\ Settling => ShownOnItsWay
<1> SUFFICES ASSUME Control, Kept, Settling, NEW k \in PanelOnly \ cut
             PROVE  \/ told[k] = disk.settings[k]
                    \/ k \in DOMAIN disk.pending /\ disk.pending[k] = disk.settings[k]
                    \/ \E p \in Panels : Awaits(p, k, disk.settings[k])
  BY DEF ShownOnItsWay
<1>1. DebtOK(k) /\ LineOrder(k) /\ disk.settings[k] = settings[k]
  BY DEF Settling, ShownOnDisk
<1>2. CASE WaitersFor(k) = {}
  <2>1. disk.settings[k] = want[k]
    BY <1>1, <1>2 DEF LineOrder
  <2>2. k \notin BareKeys
    BY PanelOnlyFacts DEF BareKeys
  <2>3. k \in owed => k \in DOMAIN disk.pending /\ disk.pending[k] = want[k]
    BY <2>2 DEF Kept, OwedKept
  <2>4. k \notin owed => told[k] = want[k]
    BY <1>1 DEF DebtOK
  <2>5. QED BY <2>1, <2>3, <2>4
<1>3. CASE WaitersFor(k) # {}
  <2>1. PICK i \in WaitersFor(k) : Params(job[waiters[i]][1])[k] = settings[k]
    BY <1>1, <1>3 DEF LineOrder
  <2>2. waiters[i] \in Panels /\ Awaits(waiters[i], k, disk.settings[k])
    BY <1>1, <2>1, WaitersArePanels DEF Awaits
  <2>3. QED BY <2>2
<1>4. QED BY <1>2, <1>3

(* IInv holds in every reachable state.                                    *)
LEMMA IInvHolds == Spec => []IInv
<1>1. Init => IInv
  BY LatestInit, ControlInit, KeptInit, SettlingInit DEF IInv, LatestInv
<1>2. IInv /\ [Next]_vars => IInv'
  BY InvStep
<1>3. QED BY <1>1, <1>2, PTL DEF Spec

(* Once nothing about a setting is pending, queued or being published, the *)
(* device was last handed the value the panel shows, through failed        *)
(* publishes, polls and kills, one that cut the setting's request short    *)
(* excepted.                                                               *)
THEOREM SettledTruth == Spec => []SettledShowsTruth
<1>1. IInv => SettledShowsTruth
  BY SettlingShows DEF IInv, LatestInv
<1>2. QED BY <1>1, IInvHolds, PTL

(* A setting the panel asked for, and no transport has accepted, is        *)
(* pending with that value in memory and on disk (those of                 *)
(* api_sounds_select, which passes no registry, excepted); and what        *)
(* devices.json shows of a setting was handed over, is pending there, or   *)
(* is with a request that waits for the lock: no kill leaves anything else *)
(* than `cut' shown and never sent.                                        *)
THEOREM OwedStaysPending == Spec => []OwedIsPending
<1>1. IInv => OwedIsPending
  BY ShownFollows DEF IInv, LatestInv, Kept, OwedIsPending
<1>2. QED BY <1>1, IInvHolds, PTL

-----------------------------------------------------------------------------
(* 7. Every action in one place.                                           *)

(* The panel requests that still have an action to hand over.              *)
Holders(a) == {p \in Panels : job[p][1] = Act(a) /\ ~left[p]}
Queued(a) == Times(queue, DOMAIN queue, Act(a))
HAHolds(a) == IF haJob = Act(a) /\ ~haLeft THEN 1 ELSE 0

Places(a) == runs[a] + Queued(a) + Cardinality(Holders(a)) + HAHolds(a)

One(cmd, a) == IF cmd = Act(a) THEN 1 ELSE 0

(* A request apart, the others hold what they hold.                        *)
LEMMA HoldersApart ==
    ASSUME NEW a, NEW p
    PROVE  /\ Cardinality(Holders(a)) \in Nat /\ Cardinality(Holders(a) \ {p}) \in Nat
           /\ Cardinality(Holders(a)) =
                Cardinality(Holders(a) \ {p}) + (IF p \in Holders(a) THEN 1 ELSE 0)
<1> DEFINE H == Holders(a)
           R == H \ {p}
<1>1. IsFiniteSet(H)
  BY PanelsAssumption, FS_Subset DEF Holders
<1> HIDE DEF H
<1>2. IsFiniteSet(R) /\ Cardinality(H) \in Nat /\ Cardinality(R) \in Nat
  BY <1>1, FS_Subset, FS_CardinalityType
<1>3. CASE p \in H
  <2>1. Cardinality(R) = Cardinality(H) - 1
    BY <1>1, <1>3, FS_RemoveElement
  <2>2. QED BY <1>2, <1>3, <2>1 DEF H
<1>4. CASE p \notin H
  <2>1. R = H
    BY <1>4
  <2>2. QED BY <1>2, <1>4, <2>1 DEF H
<1>5. QED BY <1>3, <1>4

(* The other requests hold what they held.                                 *)
LEMMA OthersHold ==
    ASSUME NEW a, NEW p, \A q \in Panels : q # p => job'[q] = job[q] /\ left'[q] = left[q]
    PROVE  Holders(a)' \ {p} = Holders(a) \ {p}
BY DEF Holders, Act

(* An element occurs in a list finitely often.                             *)
LEMMA TimesNat ==
    ASSUME NEW T, NEW q \in Seq(T), NEW x
    PROVE  Times(q, DOMAIN q, x) \in Nat
<1>1. DOMAIN q = 1..Len(q) /\ Len(q) \in Nat
  OBVIOUS
<1>2. IsFiniteSet(1..Len(q))
  BY <1>1, FS_Interval
<1> DEFINE U == {j \in DOMAIN q : q[j] = x}
<1>3. U \in SUBSET (1..Len(q))
  BY <1>1
<1> HIDE DEF U
<1>4. Cardinality(U) \in Nat
  BY <1>2, <1>3, FS_Subset, FS_CardinalityType
<1>5. QED BY <1>4 DEF U, Times

(* An element more in a list.                                              *)
LEMMA AppendCount ==
    ASSUME NEW T, NEW q \in Seq(T), NEW x \in T, NEW y
    PROVE  LET r == Append(q, x)
           IN  Times(r, DOMAIN r, y) = Times(q, DOMAIN q, y) + (IF x = y THEN 1 ELSE 0)
<1> DEFINE r == Append(q, x)
           n == Len(q)
           U == {j \in DOMAIN q : q[j] = y}
           V == {j \in DOMAIN r : r[j] = y}
<1>1. /\ n \in Nat /\ DOMAIN q = 1..n /\ DOMAIN r = 1..(n + 1) /\ r[n + 1] = x
      /\ \A j \in 1..n : r[j] = q[j]
  OBVIOUS
<1> HIDE DEF r, n
<1>2. \A j : j \in 1..(n + 1) <=> j \in 1..n \/ j = n + 1
  BY <1>1
<1>3. n + 1 \notin 1..n
  BY <1>1
<1>4. V = IF x = y THEN U \cup {n + 1} ELSE U
  BY <1>1, <1>2, <1>3
<1>5. IsFiniteSet(U) /\ n + 1 \notin U
  <2>1. IsFiniteSet(1..n)
    BY <1>1, FS_Interval
  <2>2. U \in SUBSET (1..n)
    BY <1>1
  <2>3. QED BY <1>3, <2>1, <2>2, FS_Subset
<1> HIDE DEF U, V
<1>6. Cardinality(U \cup {n + 1}) = Cardinality(U) + 1 /\ Cardinality(U) \in Nat
  BY <1>5, FS_AddElement, FS_CardinalityType
<1>7. Cardinality(V) = Cardinality(U) + (IF x = y THEN 1 ELSE 0)
  BY <1>4, <1>6
<1>8. QED BY <1>7 DEF U, V, Times, r

(* The places of an action are a number.                                   *)
LEMMA PlacesNat ==
    ASSUME TypeOK, NEW a \in Actions
    PROVE  /\ runs[a] \in Nat /\ Queued(a) \in Nat /\ Cardinality(Holders(a)) \in Nat
           /\ HAHolds(a) \in {0, 1} /\ Places(a) \in Nat
<1>1. Queued(a) \in Nat
  BY TimesNat DEF TypeOK, Queued
<1>2. Cardinality(Holders(a)) \in Nat
  BY HoldersApart
<1>3. runs[a] \in Nat /\ HAHolds(a) \in {0, 1}
  BY DEF TypeOK, HAHolds
<1>4. QED BY <1>1, <1>2, <1>3 DEF Places

(* What a hand-over adds to the runs.                                      *)
LEMMA HandOverRuns ==
    ASSUME NEW cmd \in AllCommands, NEW wanted, NEW owing, NEW gone \in BOOLEAN,
           HandOverIf(gone, cmd, wanted, owing), NEW a \in Actions, runs \in [Actions -> Nat]
    PROVE  runs'[a] = runs[a] + (IF gone THEN One(cmd, a) ELSE 0)
<1>1. CASE gone /\ IsSet(cmd)
  <2>1. cmd # Act(a)
    BY <1>1, CommandFacts
  <2>2. runs' = runs
    BY <1>1 DEF HandOverIf, HandOver
  <2>3. QED BY <1>1, <2>1, <2>2 DEF One
<1>2. CASE gone /\ ~IsSet(cmd)
  <2>1. cmd = Act(cmd.name) /\ cmd.name \in Actions /\ (cmd = Act(a) <=> cmd.name = a)
    BY <1>2, CommandFacts
  <2>2. runs' = [runs EXCEPT ![cmd.name] = @ + 1]
    BY <1>2 DEF HandOverIf, HandOver
  <2>3. QED BY <1>2, <2>1, <2>2 DEF One
<1>3. CASE ~gone
  <2>1. runs' = runs
    BY <1>3 DEF HandOverIf, Hold
  <2>2. QED BY <1>3, <2>1
<1>4. QED BY <1>1, <1>2, <1>3

(* The steps that leave every action where it is.                          *)
LEMMA PlacesSame ==
    ASSUME NEW a, Holders(a)' = Holders(a), UNCHANGED <<queue, runs, ha>>
    PROVE  Places(a)' = Places(a)
BY DEF Places, Queued, Times, HAHolds, Act, ha

(* A request's command is delivered: handed over, queued, or with a        *)
(* request whose frame has not left.                                       *)
LEMMA DeliverPlaces ==
    ASSUME Control, NEW p \in Panels, lock = Nobody, NEW j \in Commands \X BOOLEAN,
           NEW transport, DeliverLocked(p, j, transport), UNCHANGED ha, NEW a \in Actions,
           p \in Holders(a) => j[1] = Act(a)
    PROVE  Places(a)' = Places(a) + One(j[1], a) - (IF p \in Holders(a) THEN 1 ELSE 0)
<1> DEFINE cmd    == j[1]
           params == Params(cmd)
           rest   == QueueAfterRemember(queue, params)
           owing  == owed \cup DOMAIN params
           wanted == Override(want, params)
           others == Cardinality(Holders(a) \ {p})
           was    == IF p \in Holders(a) THEN 1 ELSE 0
<1>1. cmd \in Commands /\ cmd \in AllCommands /\ params \in Assignments
  BY CommandFacts DEF AllCommands
<1>2. rest \in Seq(Commands) /\ Times(rest, DOMAIN rest, Act(a)) = Queued(a)
  BY <1>1, RememberFacts DEF Control, TypeOK, Queued
<1>3. \A q \in Panels : q # p => job'[q] = job[q] /\ left'[q] = left[q]
  BY DEF DeliverLocked, Publishing, Release, Control, TypeOK, Procs
<1>4. /\ others \in Nat /\ Cardinality(Holders(a)) = others + was
      /\ Cardinality(Holders(a)') = others + (IF p \in Holders(a)' THEN 1 ELSE 0)
  <2>1. Holders(a)' \ {p} = Holders(a) \ {p}
    BY <1>3, OthersHold
  <2>2. Cardinality(Holders(a)) = others + was /\ others \in Nat
    BY HoldersApart
  <2>3. (Cardinality(Holders(a)) = Cardinality(Holders(a) \ {p}) + (IF p \in Holders(a) THEN 1 ELSE 0))'
    BY HoldersApart, PTL
  <2>4. QED BY <2>1, <2>2, <2>3
<1>5. HAHolds(a)' = HAHolds(a) /\ HAHolds(a) \in {0, 1} /\ runs[a] \in Nat /\ Queued(a) \in Nat
  BY PlacesNat DEF Control, HAHolds, Act, ha
<1>6. ASSUME NEW gone \in BOOLEAN, queue' = rest, Publishing(p, j, gone),
             HandOverIf(gone, cmd, wanted, owing)
      PROVE  Places(a)' = Places(a) + One(cmd, a) - was
  <2>1. p \in Holders(a)' <=> cmd = Act(a) /\ ~gone
    BY <1>6 DEF Holders, Publishing, Control, TypeOK, Procs, Act
  <2>2. runs'[a] = runs[a] + (IF gone THEN One(cmd, a) ELSE 0)
    BY <1>1, <1>6, HandOverRuns DEF Control, TypeOK
  <2>3. Queued(a)' = Queued(a)
    BY <1>2, <1>6 DEF Queued, Times, Act
  <2> HIDE DEF cmd, others, was
  <2>4. One(cmd, a) = IF cmd = Act(a) THEN 1 ELSE 0
    BY DEF One
  <2>5. was \in {0, 1}
    BY DEF was
  <2>6. QED BY <1>4, <1>5, <2>1, <2>2, <2>3, <2>4, <2>5 DEF Places
<1>7. ASSUME queue' = Append(rest, cmd), Release(p), Hold(owing)
      PROVE  Places(a)' = Places(a) + One(cmd, a) - was
  <2>1. p \notin Holders(a)'
    BY <1>7, NoJobFacts, CommandFacts DEF Holders, Release, Control, TypeOK, Procs
  <2>2. runs' = runs
    BY <1>7 DEF Hold
  <2>3. Queued(a)' = Queued(a) + One(cmd, a)
    <3>1. Queued(a)' = Times(queue', DOMAIN queue', Act(a))
      BY DEF Queued, Times, Act
    <3>2. QED BY <1>1, <1>2, <1>7, <3>1, AppendCount DEF One
  <2> HIDE DEF cmd, others, was
  <2>4. One(cmd, a) \in {0, 1} /\ was \in {0, 1}
    BY DEF One, was
  <2>5. QED BY <1>4, <1>5, <2>1, <2>2, <2>3, <2>4 DEF Places
<1>8. QED BY <1>6, <1>7 DEF DeliverLocked

(* A request that asks for an action gives it one place.                   *)
LEMMA RequestPlaces ==
    ASSUME Control, NEW p \in Panels, PanelRequest(p), NEW a \in Actions
    PROVE  Places(a)' = Places(a) + (IF a \in asked' \ asked THEN 1 ELSE 0)
<1>1. PICK j \in PanelJobs, transport \in Transports :
        /\ asked' = asked \cup AskedFor(j[1])
        /\ IF LockFree
             THEN DeliverLocked(p, j, transport)
             ELSE /\ job' = [job EXCEPT ![p] = j]
                  /\ UNCHANGED <<queue, left, runs>>
  BY DEF PanelRequest
<1>2. /\ p \in Procs /\ phase[p] = "idle" /\ j \in Commands \X BOOLEAN /\ UNCHANGED ha
      /\ job[p] = NoJob /\ left[p] = FALSE
  BY ProcFacts, PanelJobFacts DEF PanelRequest, Control, TypeOK, JobsOK
<1>3. p \notin Holders(a)
  BY <1>2, NoJobFacts, CommandFacts DEF Holders
<1>4. a \in asked' \ asked <=> j[1] = Act(a)
  <2>1. CASE IsSet(j[1])
    BY <1>1, <2>1, CommandFacts DEF AskedFor
  <2>2. CASE ~IsSet(j[1])
    <3>1. PICK b \in Actions \ asked : j[1] = Act(b)
      BY <2>2, PanelJobFacts
    <3>2. asked' = asked \cup {b} /\ (j[1] = Act(a) <=> a = b)
      BY <1>1, <2>2, <3>1, CommandFacts DEF AskedFor
    <3>3. QED BY <3>1, <3>2
  <2>3. QED BY <2>1, <2>2
<1>a. Places(a) \in Nat /\ One(j[1], a) = IF j[1] = Act(a) THEN 1 ELSE 0
  BY PlacesNat DEF Control, One
<1>5. CASE LockFree
  <2>1. Places(a)' = Places(a) + One(j[1], a) - 0
    BY <1>1, <1>2, <1>3, <1>5, DeliverPlaces DEF LockFree
  <2>2. QED BY <1>4, <1>a, <2>1
<1>6. CASE ~LockFree
  <2>1. job' = [job EXCEPT ![p] = j] /\ UNCHANGED <<queue, left, runs>>
    BY <1>1, <1>6
  <2>2. Holders(a)' \ {p} = Holders(a) \ {p}
    <3>1. \A q \in Panels : q # p => job'[q] = job[q] /\ left'[q] = left[q]
      BY <2>1 DEF Control, TypeOK, Procs
    <3>2. QED BY <3>1, OthersHold
  <2>3. p \in Holders(a)' <=> j[1] = Act(a)
    BY <1>2, <2>1 DEF Holders, Control, TypeOK, Act
  <2>4. /\ Cardinality(Holders(a)) = Cardinality(Holders(a) \ {p})
        /\ Cardinality(Holders(a) \ {p}) \in Nat
    BY <1>3, HoldersApart
  <2>5. (Cardinality(Holders(a)) = Cardinality(Holders(a) \ {p}) + (IF p \in Holders(a) THEN 1 ELSE 0))'
    BY HoldersApart, PTL
  <2>6. Cardinality(Holders(a)') = Cardinality(Holders(a)) + (IF a \in asked' \ asked THEN 1 ELSE 0)
    BY <1>4, <2>2, <2>3, <2>4, <2>5
  <2>7. HAHolds(a)' = HAHolds(a) /\ Queued(a)' = Queued(a) /\ runs' = runs
    BY <1>2, <2>1 DEF HAHolds, Queued, Times, Act, ha
  <2>8. runs[a] \in Nat /\ Queued(a) \in Nat /\ Cardinality(Holders(a)) \in Nat
        /\ HAHolds(a) \in {0, 1}
    BY PlacesNat DEF Control
  <2>9. QED BY <2>6, <2>7, <2>8 DEF Places
<1>7. QED BY <1>5, <1>6

(* What a step may do to the places of an action: one more when it is      *)
(* asked for; one more when a publish fails although its frame has left;   *)
(* fewer at a restart.                                                     *)
PlacesMove(a) ==
    /\ asked \subseteq asked'
    /\ IF a \in asked' \ asked
         THEN Places(a)' = Places(a) + 1
         ELSE \/ Places(a)' = Places(a)
              \/ LateFailures /\ Places(a)' = Places(a) + 1
              \/ Restarts /\ Places(a)' <= Places(a)

(* The first in line hands its action over, queues it, or still has it.    *)
LEMMA TurnPlaces ==
    ASSUME Control, NEW p \in Panels, PanelGetsLock(p), NEW a \in Actions
    PROVE  PlacesMove(a)
<1>1. PICK transport \in Transports : DeliverLocked(p, job[p], transport)
  BY DEF PanelGetsLock
<1>2. p \in Procs /\ p # Recovery /\ phase[p] = "waiting" /\ lock = Nobody /\ asked' = asked
      /\ UNCHANGED ha
  BY ProcFacts, LineMoves DEF PanelGetsLock, Control
<1>3. job[p] \in Commands \X BOOLEAN
  <2>1. job[p] \in (Commands \cup {Set(Empty)}) \X BOOLEAN /\ job[p][1] \in Commands
    BY <1>2 DEF Control, TypeOK, JobsOK
  <2>2. QED BY <2>1
<1>4. p \in Holders(a) <=> job[p][1] = Act(a)
  BY <1>2 DEF Holders, Control, TypeOK, JobsOK
<1>5. Places(a)' = Places(a) + One(job[p][1], a) - (IF p \in Holders(a) THEN 1 ELSE 0)
  BY <1>1, <1>2, <1>3, <1>4, DeliverPlaces
<1>6. Places(a) \in Nat /\ One(job[p][1], a) = IF p \in Holders(a) THEN 1 ELSE 0
  BY <1>4, PlacesNat DEF Control, One
<1>7. Places(a)' = Places(a)
  BY <1>5, <1>6
<1>8. QED BY <1>2, <1>7 DEF PlacesMove

(* Who publishes ends: what it held, if its frame had not left, is         *)
(* nowhere, or queued.                                                     *)
LEMMA ReleasePlaces ==
    ASSUME Control, NEW p \in Procs, Release(p), NEW a \in Actions, UNCHANGED <<runs, ha>>,
           queue' \in Seq(Commands)
    PROVE  Places(a)' + (IF p \in Holders(a) THEN 1 ELSE 0) + Queued(a)
             = Places(a) + Queued(a)'
<1> DEFINE others == Cardinality(Holders(a) \ {p})
           was    == IF p \in Holders(a) THEN 1 ELSE 0
<1>1. \A q \in Panels : q # p => job'[q] = job[q] /\ left'[q] = left[q]
  BY DEF Release, Control, TypeOK, Procs
<1>2. p \notin Holders(a)'
  BY NoJobFacts, CommandFacts DEF Holders, Release, Control, TypeOK, Procs
<1>3. Cardinality(Holders(a)) = others + was /\ others \in Nat /\ was \in {0, 1}
  BY HoldersApart
<1>4. Cardinality(Holders(a)') = others
  <2>1. Holders(a)' \ {p} = Holders(a) \ {p}
    BY <1>1, OthersHold
  <2>2. Holders(a)' = Holders(a)' \ {p}
    BY <1>2
  <2>3. QED BY <2>1, <2>2
<1>5. HAHolds(a)' = HAHolds(a) /\ HAHolds(a) \in {0, 1} /\ runs'[a] = runs[a] /\ runs[a] \in Nat
  BY PlacesNat DEF Control, HAHolds, Act, ha
<1>6. Queued(a) \in Nat
  BY PlacesNat DEF Control
<1>7. Queued(a)' \in Nat
  BY TimesNat DEF Queued, Times, Act
<1> HIDE DEF others, was
<1>8. Places(a) = runs[a] + Queued(a) + (others + was) + HAHolds(a)
  BY <1>3 DEF Places
<1>9. Places(a)' = runs[a] + Queued(a)' + others + HAHolds(a)
  BY <1>4, <1>5 DEF Places
<1>10. QED BY <1>3, <1>5, <1>6, <1>7, <1>8, <1>9 DEF was

(* A publish that returned had handed its action over.                     *)
LEMMA ReturnPlaces ==
    ASSUME Control, Control', NEW p \in Procs, PublishReturns(p), NEW a \in Actions
    PROVE  PlacesMove(a)
<1>1. left[p] /\ Release(p) /\ UNCHANGED <<runs, ha, asked>>
      /\ queue' = QueueAfterCompleted(queue, Params(job[p][1]))
  BY DEF PublishReturns, Complete, history
<1>2. queue' \in Seq(Commands) /\ Queued(a)' = Queued(a)
  <2>1. Queued(a)' = Times(queue', DOMAIN queue', Act(a))
    BY DEF Queued, Times, Act
  <2>2. QED BY <1>1, <2>1, CompletedQueueFacts DEF Control, TypeOK, Queued
<1>3. Places(a)' + 0 + Queued(a) = Places(a) + Queued(a)
  BY <1>1, <1>2, ReleasePlaces DEF Holders
<1>4. Places(a) \in Nat /\ Places(a)' \in Nat /\ Queued(a) \in Nat
  <2>1. (Places(a) \in Nat)'
    BY PlacesNat, PTL DEF Control
  <2>2. QED BY <2>1, PlacesNat DEF Control
<1>5. Places(a)' = Places(a)
  BY <1>3, <1>4
<1>6. QED BY <1>1, <1>5 DEF PlacesMove

(* One that raises queues the action: a second time if its frame has left. *)
LEMMA RaisePlaces ==
    ASSUME Control, Control', NEW p \in Procs, PublishRaises(p), NEW a \in Actions
    PROVE  PlacesMove(a)
<1>1. /\ phase[p] = "publishing" /\ Release(p) /\ UNCHANGED <<runs, ha, asked>>
      /\ ~left[p] \/ LateFailures
      /\ queue' = IF p = Recovery THEN queue ELSE Append(queue, job[p][1])
      /\ job[p][1] \in Commands
  BY DEF PublishRaises, history, Control, JobsOK
<1>2. queue' \in Seq(Commands) /\ queue \in Seq(Commands)
  BY DEF Control, TypeOK
<1>3. Places(a)' + (IF p \in Holders(a) THEN 1 ELSE 0) + Queued(a) = Places(a) + Queued(a)'
  BY <1>1, <1>2, ReleasePlaces
<1>4. Places(a) \in Nat /\ Places(a)' \in Nat /\ Queued(a) \in Nat
  <2>1. (Places(a) \in Nat)'
    BY PlacesNat, PTL DEF Control
  <2>2. QED BY <2>1, PlacesNat DEF Control
<1>5. Queued(a)' = Queued(a) + (IF p # Recovery /\ job[p][1] = Act(a) THEN 1 ELSE 0)
  <2>1. Queued(a)' = Times(queue', DOMAIN queue', Act(a))
    BY DEF Queued, Times, Act
  <2>2. CASE p = Recovery
    BY <1>1, <1>4, <2>1, <2>2 DEF Queued
  <2>3. CASE p # Recovery
    BY <1>1, <1>2, <2>1, <2>3, AppendCount DEF Queued
  <2>4. QED BY <2>2, <2>3
<1>6. p \in Holders(a) <=> p # Recovery /\ job[p][1] = Act(a) /\ ~left[p]
  BY ProcFacts DEF Holders, Procs
<1>7. Places(a)' = Places(a) \/ (LateFailures /\ Places(a)' = Places(a) + 1)
  BY <1>1, <1>3, <1>4, <1>5, <1>6
<1>8. QED BY <1>1, <1>7 DEF PlacesMove

(* Recovery, and the bridge that cancels it, have no action to hand over.  *)
LEMMA RecoveryPlaces ==
    ASSUME Control, NEW a \in Actions, UNCHANGED <<queue, runs, ha, asked>>,
           \A p \in Panels : job'[p] = job[p] /\ left'[p] = left[p]
    PROVE  PlacesMove(a)
<1>1. Holders(a)' = Holders(a)
  BY DEF Holders, Act
<1>2. QED BY <1>1, PlacesSame DEF PlacesMove

(* A poll hands over what is queued.                                       *)
LEMMA PollPlaces ==
    ASSUME Control, Heartbeat, NEW a \in Actions
    PROVE  PlacesMove(a)
<1>1. Queued(a)' = 0 /\ runs'[a] = runs[a] + Queued(a)
  <2>1. runs'[a] = runs[a] + Queued(a)
    BY DEF Heartbeat, Queued, Times
  <2>2. queue' = <<>>
    BY DEF Heartbeat
  <2>3. Queued(a)' = Cardinality({})
    <3>1. Queued(a)' = Times(queue', DOMAIN queue', Act(a))
      BY DEF Queued, Times, Act
    <3>2. DOMAIN queue' = {}
      BY <2>2
    <3>3. QED BY <3>1, <3>2 DEF Times
  <2>4. QED BY <2>1, <2>3, FS_EmptySet
<1>2. Holders(a)' = Holders(a) /\ HAHolds(a)' = HAHolds(a) /\ asked' = asked
  BY DEF Heartbeat, Holders, HAHolds, Act, locking, ha
<1>3. runs[a] \in Nat /\ Queued(a) \in Nat /\ Cardinality(Holders(a)) \in Nat
      /\ HAHolds(a) \in {0, 1}
  BY PlacesNat DEF Control
<1>4. Places(a)' = Places(a)
  BY <1>1, <1>2, <1>3 DEF Places
<1>5. QED BY <1>2, <1>4 DEF PlacesMove

(* Home Assistant asks for an action, and hands it over, queues it or has  *)
(* it.                                                                     *)
LEMMA HACommandPlaces ==
    ASSUME Control, HACommand, NEW a \in Actions
    PROVE  PlacesMove(a)
<1>1. PICK cmd \in {Set(f) : f \in HAWrites} \cup {Act(b) : b \in HAActions \ asked} :
         /\ asked' = asked \cup AskedFor(cmd)
         /\ \/ \E gone \in BOOLEAN :
                 /\ haJob' = cmd /\ haLeft' = gone
                 /\ HandOverIf(gone, cmd, want, owed)
                 /\ UNCHANGED queue
            \/ /\ queue' = Append(queue, cmd)
               /\ Hold(owed) /\ UNCHANGED ha
  BY DEF HACommand
<1>2. cmd \in Commands /\ cmd \in AllCommands
  BY CommandFacts, WriteAssumption DEF AllCommands
<1>3. a \in asked' \ asked <=> cmd = Act(a)
  <2>1. CASE IsSet(cmd)
    BY <1>1, <2>1, CommandFacts DEF AskedFor
  <2>2. CASE ~IsSet(cmd)
    <3>1. PICK b \in HAActions \ asked : cmd = Act(b)
      BY <2>2, CommandFacts
    <3>2. asked' = asked \cup {b} /\ (cmd = Act(a) <=> a = b)
      BY <1>1, <2>2, <3>1, CommandFacts DEF AskedFor
    <3>3. QED BY <3>1, <3>2
  <2>3. QED BY <2>1, <2>2
<1>4. Holders(a)' = Holders(a)
  BY DEF HACommand, Holders, Act, locking
<1>5. HAHolds(a) = 0 \/ haPhase # "idle"
  BY CommandFacts DEF HAHolds, Control, JobsOK
<1>6. runs[a] \in Nat /\ Queued(a) \in Nat /\ Cardinality(Holders(a)) \in Nat
      /\ HAHolds(a) = 0
  BY <1>5, PlacesNat DEF Control, HACommand
<1>7. ASSUME NEW gone \in BOOLEAN, haJob' = cmd, haLeft' = gone,
             HandOverIf(gone, cmd, want, owed), UNCHANGED queue
      PROVE  Places(a)' = Places(a) + One(cmd, a)
  <2>0. runs \in [Actions -> Nat]
    BY DEF Control, TypeOK
  <2>1. runs'[a] = runs[a] + (IF gone THEN One(cmd, a) ELSE 0)
    BY <1>2, <1>7, <2>0, HandOverRuns
  <2>2. HAHolds(a)' = IF gone THEN 0 ELSE One(cmd, a)
    BY <1>7 DEF HAHolds, One, Act
  <2>3. Queued(a)' = Queued(a)
    BY <1>7 DEF Queued, Times, Act
  <2>4. One(cmd, a) \in {0, 1}
    BY DEF One
  <2>5. QED BY <1>4, <1>6, <2>1, <2>2, <2>3, <2>4 DEF Places
<1>8. ASSUME queue' = Append(queue, cmd), Hold(owed), UNCHANGED ha
      PROVE  Places(a)' = Places(a) + One(cmd, a)
  <2>1. Queued(a)' = Queued(a) + One(cmd, a)
    <3>1. Queued(a)' = Times(queue', DOMAIN queue', Act(a))
      BY DEF Queued, Times, Act
    <3>2. queue \in Seq(Commands)
      BY DEF Control, TypeOK
    <3>3. QED BY <1>2, <1>8, <3>1, <3>2, AppendCount DEF One, Queued
  <2>2. runs' = runs /\ HAHolds(a)' = HAHolds(a)
    BY <1>8 DEF Hold, HAHolds, Act, ha
  <2>3. One(cmd, a) \in {0, 1}
    BY DEF One
  <2>4. QED BY <1>4, <1>6, <2>1, <2>2, <2>3 DEF Places
<1>9. Places(a)' = Places(a) + One(cmd, a)
  BY <1>1, <1>7, <1>8
<1>10. Places(a) \in Nat
  BY PlacesNat DEF Control
<1>11. asked \subseteq asked'
  BY <1>1
<1>12. QED BY <1>3, <1>9, <1>10, <1>11 DEF PlacesMove, One

(* Its publish ends as a request's does.                                   *)
LEMMA HAEndsPlaces ==
    ASSUME Control, HAPublishEnds, NEW a \in Actions
    PROVE  PlacesMove(a)
<1>1. /\ haJob \in Commands /\ haJob' = Set(Empty) /\ UNCHANGED <<runs, asked>>
      /\ \/ haLeft /\ queue' = queue
         \/ (~haLeft \/ LateFailures) /\ queue' = Append(queue, haJob)
  BY DEF HAPublishEnds, history, Control, JobsOK
<1>2. Holders(a)' = Holders(a)
  BY DEF HAPublishEnds, Holders, Act, locking
<1>3. HAHolds(a)' = 0
  BY <1>1, CommandFacts DEF HAHolds, Act
<1>4. runs[a] \in Nat /\ Queued(a) \in Nat /\ Cardinality(Holders(a)) \in Nat
      /\ HAHolds(a) \in {0, 1}
  BY PlacesNat DEF Control
<1>5. CASE haLeft /\ queue' = queue
  <2>1. HAHolds(a) = 0 /\ Queued(a)' = Queued(a)
    BY <1>5 DEF HAHolds, Queued, Times, Act
  <2>2. Places(a)' = Places(a)
    BY <1>1, <1>2, <1>3, <1>4, <2>1 DEF Places
  <2>3. QED BY <1>1, <2>2 DEF PlacesMove
<1>6. CASE (~haLeft \/ LateFailures) /\ queue' = Append(queue, haJob)
  <2>1. Queued(a)' = Queued(a) + One(haJob, a)
    <3>1. Queued(a)' = Times(queue', DOMAIN queue', Act(a))
      BY DEF Queued, Times, Act
    <3>2. queue \in Seq(Commands)
      BY DEF Control, TypeOK
    <3>3. QED BY <1>1, <1>6, <3>1, <3>2, AppendCount DEF One, Queued
  <2>2. HAHolds(a) = IF haLeft THEN 0 ELSE One(haJob, a)
    BY DEF HAHolds, One
  <2>3. One(haJob, a) \in {0, 1}
    BY DEF One
  <2>4. Places(a)' = Places(a) \/ (haLeft /\ Places(a)' = Places(a) + 1)
    BY <1>1, <1>2, <1>3, <1>4, <2>1, <2>2, <2>3 DEF Places
  <2>5. QED BY <1>1, <1>6, <2>4 DEF PlacesMove
<1>7. QED BY <1>1, <1>5, <1>6

(* A kill drops what is queued and what requests still have.               *)
LEMMA KillPlaces ==
    ASSUME Control, Restart \/ KilledBetweenSaves, NEW a \in Actions
    PROVE  PlacesMove(a)
<1>1. Restarts /\ queue' = <<>> /\ haJob' = Set(Empty) /\ UNCHANGED <<runs, asked>>
      /\ \A p \in Panels : job'[p] = NoJob
  BY ProcFacts DEF Restart, KilledBetweenSaves, StartsFrom
<1>2. HAHolds(a)' = 0
  BY <1>1, CommandFacts DEF HAHolds, Act
<1>3. Holders(a)' = {}
  BY <1>1, NoJobFacts, CommandFacts DEF Holders
<1>4. Queued(a)' = 0
  <2>1. Queued(a)' = Times(queue', DOMAIN queue', Act(a))
    BY DEF Queued, Times, Act
  <2>2. DOMAIN queue' = {}
    BY <1>1
  <2>3. QED BY <2>1, <2>2, FS_EmptySet DEF Times
<1>5. runs[a] \in Nat /\ Queued(a) \in Nat /\ Cardinality(Holders(a)) \in Nat
      /\ HAHolds(a) \in {0, 1}
  BY PlacesNat DEF Control
<1>6. Places(a)' <= Places(a)
  BY <1>1, <1>2, <1>3, <1>4, <1>5, FS_EmptySet DEF Places
<1>7. QED BY <1>1, <1>6 DEF PlacesMove

(* Every step moves the places of an action as PlacesMove says.            *)
LEMMA PlacesStep ==
    ASSUME Control, [Next]_vars, NEW a \in Actions
    PROVE  PlacesMove(a)
<1>a. Control'
  BY ControlStep
<1> HIDE DEF PlacesMove
<1>1. ASSUME NEW p \in Panels, PanelRequest(p) PROVE PlacesMove(a)
  <2>1. asked \subseteq asked'
    BY <1>1 DEF PanelRequest
  <2>2. Places(a) \in Nat
    BY PlacesNat DEF Control
  <2>3. QED BY <1>1, <2>1, <2>2, RequestPlaces DEF PlacesMove
<1>2. ASSUME NEW p \in Panels, PanelGetsLock(p) PROVE PlacesMove(a)
  BY <1>2, TurnPlaces
<1>3. ASSUME NEW p \in Procs, PublishReturns(p) PROVE PlacesMove(a)
  BY <1>a, <1>3, ReturnPlaces
<1>4. ASSUME NEW p \in Procs, PublishRaises(p) PROVE PlacesMove(a)
  BY <1>a, <1>4, RaisePlaces
<1>5. ASSUME NEW gone \in BOOLEAN, RecoveryTurn(gone) \/ RecoveryGetsLock(gone)
      PROVE  PlacesMove(a)
  <2>1. UNCHANGED <<queue, ha, asked>>
    BY <1>5 DEF RecoveryTurn, RecoveryGetsLock, memory
  <2>2. runs' = runs
    <3>1. HandOverIf(gone, Set(pending), want, owed) \/ Hold(owed)
      BY <1>5 DEF RecoveryTurn, RecoveryGetsLock, RecoveryPublishes
    <3>2. QED BY <3>1, CommandFacts DEF HandOverIf, HandOver, Hold
  <2>3. \A p \in Panels : job'[p] = job[p] /\ left'[p] = left[p]
    BY <1>5, ProcFacts
    DEF RecoveryTurn, RecoveryGetsLock, RecoveryPublishes, Publishing, Release, Control, TypeOK
  <2>4. QED BY <2>1, <2>2, <2>3, RecoveryPlaces
<1>6. CASE RecoveryWaits \/ BridgeConnects \/ RoutingChanges \/ Flush \/ UNCHANGED vars
  <2>1. UNCHANGED <<queue, runs, ha, asked, job, left>>
    BY <1>6 DEF RecoveryWaits, BridgeConnects, RoutingChanges, Flush, vars, memory, history, locking
  <2>2. QED BY <2>1, RecoveryPlaces
<1>7. CASE BridgeDisconnects
  <2>1. UNCHANGED <<queue, runs, ha, asked>>
    BY <1>7 DEF BridgeDisconnects, memory, history
  <2>2. \A p \in Panels : job'[p] = job[p] /\ left'[p] = left[p]
    BY <1>7, ProcFacts DEF BridgeDisconnects, Control, TypeOK
  <2>3. QED BY <2>1, <2>2, RecoveryPlaces
<1>8. CASE Heartbeat
  BY <1>8, PollPlaces
<1>9. CASE HACommand
  BY <1>9, HACommandPlaces
<1>10. CASE HAPublishEnds
  BY <1>10, HAEndsPlaces
<1>11. CASE Restart \/ KilledBetweenSaves
  BY <1>11, KillPlaces
<1>12. QED
  BY <1>1, <1>2, <1>3, <1>4, <1>5, <1>6, <1>7, <1>8, <1>9, <1>10, <1>11 DEF Next

(* Nobody has asked for anything at the start.                             *)
LEMMA PlacesInit ==
    ASSUME Init, NEW a \in Actions
    PROVE  Places(a) = 0
<1>1. Holders(a) = {} /\ HAHolds(a) = 0
  BY NoJobFacts, CommandFacts, ProcFacts DEF Init, Holders, HAHolds
<1>2. Queued(a) = 0
  <2>1. DOMAIN queue = {}
    BY DEF Init
  <2>2. QED BY <2>1, FS_EmptySet DEF Queued, Times
<1>3. runs[a] = 0
  BY DEF Init
<1>4. QED BY <1>1, <1>2, <1>3, FS_EmptySet DEF Places

NoRestarts == ~Restarts
NoLateFailures == ~LateFailures

AskedIsSomewhere == \A a \in asked : Places(a) >= 1
NothingTwice == \A a \in Actions : Places(a) <= 1 /\ (a \notin asked => Places(a) = 0)

(* Without a restart, an action that was asked for is never lost: it was   *)
(* handed over, it is queued, or a request still has it.                   *)
THEOREM ActionNeverLost == ASSUME NoRestarts PROVE Spec => []AskedIsSomewhere
<1>1. Init => Control /\ AskedIsSomewhere
  BY ControlInit DEF Init, AskedIsSomewhere
<1>2. Control /\ AskedIsSomewhere /\ [Next]_vars => Control' /\ AskedIsSomewhere'
  <2> SUFFICES ASSUME Control, AskedIsSomewhere, [Next]_vars PROVE Control' /\ AskedIsSomewhere'
    OBVIOUS
  <2>1. Control'
    BY ControlStep
  <2>2. ASSUME NEW a \in asked' PROVE Places(a)' >= 1
    <3>1. a \in Actions
      BY <2>1 DEF Control, TypeOK
    <3>2. PlacesMove(a)
      BY <3>1, PlacesStep
    <3>3. Places(a) \in Nat /\ (a \in asked => Places(a) >= 1)
      BY <3>1, PlacesNat DEF Control, AskedIsSomewhere
    <3>4. QED BY <3>2, <3>3, NoRestarts DEF PlacesMove, NoRestarts
  <2>3. QED BY <2>1, <2>2 DEF AskedIsSomewhere
<1>3. QED BY <1>1, <1>2, PTL DEF Spec

(* Where a publish that raises has sent nothing, no action is handed over  *)
(* or queued twice, whatever restarts do.                                  *)
THEOREM ActionNeverDoubled == ASSUME NoLateFailures PROVE Spec => []NothingTwice
<1>1. Init => Control /\ NothingTwice
  BY ControlInit, PlacesInit DEF NothingTwice
<1>2. Control /\ NothingTwice /\ [Next]_vars => Control' /\ NothingTwice'
  <2> SUFFICES ASSUME Control, NothingTwice, [Next]_vars PROVE Control' /\ NothingTwice'
    OBVIOUS
  <2>1. Control'
    BY ControlStep
  <2>2. ASSUME NEW a \in Actions PROVE Places(a)' <= 1 /\ (a \notin asked' => Places(a)' = 0)
    <3>1. PlacesMove(a)
      BY PlacesStep
    <3>2. Places(a) \in Nat /\ Places(a) <= 1 /\ (a \notin asked => Places(a) = 0)
      BY PlacesNat DEF Control, NothingTwice
    <3>3. (Places(a) \in Nat)'
      BY <2>1, PlacesNat, PTL DEF Control
    <3>4. QED BY <3>1, <3>2, <3>3, NoLateFailures DEF PlacesMove, NoLateFailures
  <2>3. QED BY <2>1, <2>2 DEF NothingTwice
<1>3. QED BY <1>1, <1>2, PTL DEF Spec

(* An action asked for is in exactly one place, in a run without restarts  *)
(* in which a publish that raises has sent nothing.                        *)
THEOREM ActionPlaced == ASSUME NoRestarts, NoLateFailures PROVE Spec => []ActionInOnePlace
<1>1. Control /\ AskedIsSomewhere /\ NothingTwice => ActionInOnePlace
  <2> SUFFICES ASSUME Control, AskedIsSomewhere, NothingTwice, NEW a \in asked
               PROVE  1 = Places(a)
    BY DEF ActionInOnePlace, Places, Queued, Times, Holders, HAHolds
  <2>1. a \in Actions
    BY DEF Control, TypeOK
  <2>2. Places(a) \in Nat
    BY <2>1, PlacesNat DEF Control
  <2>3. QED BY <2>1, <2>2 DEF AskedIsSomewhere, NothingTwice
<1>2. QED
  BY <1>1, NoRestarts, NoLateFailures, ControlHolds, ActionNeverLost, ActionNeverDoubled, PTL
=============================================================================

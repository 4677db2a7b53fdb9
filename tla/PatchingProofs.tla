--------------------------- MODULE PatchingProofs ---------------------------
(***************************************************************************)
(* For any runs, patchers and troubles, and any number of them: what the   *)
(* panel shows as applied is on the device and in its wrapper, but for     *)
(* what a trouble has spoilt since; and the device never boots with a      *)
(* wrapper that names a file it has not got.                               *)
(***************************************************************************)
EXTENDS Patching, TLAPS

(* Commands, and the kinds of them the invariants speak of.                *)
Dos == {"probe", "serve", "kill", "fetch", "wrap", "remove", "rewrap", "removeAll", "reboot"}
Commands == [do : Dos, on : Nat \cup Patchers \cup {None}]
Of(kinds) == {c \in Commands : c.do \in kinds}
OfAt(kinds, p) == {c \in Commands : c.do \in kinds /\ c.on = p}

WrapperCommands == Of({"wrap", "remove", "rewrap", "removeAll"})
Wraps == Of({"wrap", "remove", "rewrap"})
FileCommands(p) == OfAt({"fetch", "remove", "removeAll"}, p)
Fetches(p) == OfAt({"fetch"}, p)
Removals(p) == OfAt({"remove", "rewrap", "removeAll"}, p)
Removes(p) == OfAt({"remove", "rewrap"}, p)
LastRemovals(p) == OfAt({"removeAll"}, p)

(* Of a sequence: none of it is in K; c is the last in K; no member of K   *)
(* comes behind one of A.  And of what is on its way, the inbox before     *)
(* the queue.                                                              *)
NoneIn(s, K) == \A i \in DOMAIN s : s[i] \notin K
LastIn(s, K, c) == \E i \in DOMAIN s : s[i] = c /\ c \in K /\ \A j \in DOMAIN s : j > i => s[j] \notin K
NeverIn(s, A, K) == \A i, j \in DOMAIN s : i < j /\ s[i] \in A => s[j] \notin K

NoneLeft(K) == NoneIn(inbox, K) /\ NoneIn(queue, K)
NoMore(K) == NoneLeft(K) => NoneLeft(K)'
Latest(K, c) ==
    \/ LastIn(queue, K, c)
    \/ NoneIn(queue, K) /\ LastIn(inbox, K, c)
Never(A, K) ==
    /\ NeverIn(inbox, A, K) /\ NeverIn(queue, A, K)
    /\ NoneIn(inbox, A) \/ NoneIn(queue, K)
-----------------------------------------------------------------------------
LEMMA AppendSifted ==
    ASSUME NEW S, NEW s \in Seq(S), NEW c \in S, NEW K, NEW A
    PROVE  /\ NoneIn(Append(s, c), K) <=> NoneIn(s, K) /\ c \notin K
           /\ \A d : LastIn(Append(s, c), K, d) => IF c \in K THEN d = c ELSE LastIn(s, K, d)
           /\ NeverIn(s, A, K) /\ (NoneIn(s, A) \/ c \notin K) => NeverIn(Append(s, c), A, K)
<1> DEFINE t == Append(s, c)
<1>1. /\ t \in Seq(S) /\ Len(t) = Len(s) + 1 /\ Len(s) \in Nat
      /\ DOMAIN t = 1..(Len(s) + 1) /\ DOMAIN s = 1..Len(s)
  OBVIOUS
<1>2. \A i \in DOMAIN s : t[i] = s[i]
  OBVIOUS
<1>3. t[Len(s) + 1] = c
  OBVIOUS
<1> HIDE DEF t
<1>4. \A i \in DOMAIN t : i \in DOMAIN s \/ i = Len(s) + 1
  BY <1>1
<1>5. DOMAIN s \subseteq DOMAIN t /\ Len(s) + 1 \in DOMAIN t
  BY <1>1
<1>6. NoneIn(t, K) <=> NoneIn(s, K) /\ c \notin K
  BY <1>2, <1>3, <1>4, <1>5 DEF NoneIn
<1>7. ASSUME NEW d, LastIn(t, K, d)
      PROVE  IF c \in K THEN d = c ELSE LastIn(s, K, d)
  <2>1. PICK i \in DOMAIN t : t[i] = d /\ d \in K /\ \A j \in DOMAIN t : j > i => t[j] \notin K
    BY <1>7 DEF LastIn
  <2>2. CASE i = Len(s) + 1
    BY <2>1, <2>2, <1>3
  <2>3. CASE i \in DOMAIN s
    <3>1. Len(s) + 1 > i
      BY <2>3, <1>1
    <3>2. c \notin K
      BY <3>1, <2>1, <1>3, <1>5
    <3>3. s[i] = d /\ \A j \in DOMAIN s : j > i => s[j] \notin K
      BY <2>1, <2>3, <1>2, <1>5
    <3>4. QED BY <3>2, <3>3, <2>1, <2>3 DEF LastIn
  <2>4. QED BY <2>2, <2>3, <1>4
<1>8. ASSUME NeverIn(s, A, K), NoneIn(s, A) \/ c \notin K
      PROVE  NeverIn(t, A, K)
  <2> SUFFICES ASSUME NEW i \in DOMAIN t, NEW j \in DOMAIN t, i < j, t[i] \in A PROVE t[j] \notin K
    BY DEF NeverIn
  <2>1. i \in DOMAIN s
    BY <1>1
  <2>2. CASE j \in DOMAIN s
    BY <2>1, <2>2, <1>8, <1>2 DEF NeverIn
  <2>3. CASE j = Len(s) + 1
    BY <2>1, <2>3, <1>8, <1>2, <1>3 DEF NoneIn
  <2>4. QED BY <2>2, <2>3, <1>4
<1>9. QED BY <1>6, <1>7, <1>8 DEF t

LEMMA JoinedSifted ==
    ASSUME NEW S, NEW s \in Seq(S), NEW t \in Seq(S), NEW K, NEW A
    PROVE  /\ NoneIn(s \o t, K) <=> NoneIn(s, K) /\ NoneIn(t, K)
           /\ \A d : LastIn(s \o t, K, d) => LastIn(t, K, d) \/ (NoneIn(t, K) /\ LastIn(s, K, d))
           /\ NeverIn(s, A, K) /\ NeverIn(t, A, K) /\ (NoneIn(s, A) \/ NoneIn(t, K)) => NeverIn(s \o t, A, K)
<1> DEFINE u == s \o t
           n == Len(s)
<1>1. /\ n \in Nat /\ Len(t) \in Nat /\ DOMAIN s = 1..n /\ DOMAIN t = 1..Len(t)
      /\ DOMAIN u = 1..(n + Len(t))
  OBVIOUS
<1>2. \A i \in DOMAIN s : u[i] = s[i]
  OBVIOUS
<1>3. \A i \in DOMAIN t : u[n + i] = t[i]
  OBVIOUS
<1> HIDE DEF u, n
<1>4. \A i \in DOMAIN u : i \in DOMAIN s \/ (i - n \in DOMAIN t /\ n + (i - n) = i)
  BY <1>1
<1>5. DOMAIN s \subseteq DOMAIN u /\ \A i \in DOMAIN t : n + i \in DOMAIN u
  BY <1>1
<1>6. \A i \in DOMAIN u : u[i] = IF i \in DOMAIN s THEN s[i] ELSE t[i - n]
  BY <1>2, <1>3, <1>4
<1>7. NoneIn(u, K) <=> NoneIn(s, K) /\ NoneIn(t, K)
  <2>1. NoneIn(u, K) => NoneIn(s, K) /\ NoneIn(t, K)
    BY <1>2, <1>3, <1>5 DEF NoneIn
  <2>2. NoneIn(s, K) /\ NoneIn(t, K) => NoneIn(u, K)
    BY <1>4, <1>6 DEF NoneIn
  <2>3. QED BY <2>1, <2>2
<1>8. ASSUME NEW d, LastIn(u, K, d)
      PROVE  LastIn(t, K, d) \/ (NoneIn(t, K) /\ LastIn(s, K, d))
  <2>1. PICK i \in DOMAIN u : u[i] = d /\ d \in K /\ \A j \in DOMAIN u : j > i => u[j] \notin K
    BY <1>8 DEF LastIn
  <2>2. CASE i \in DOMAIN s
    <3>1. NoneIn(t, K)
      <4> SUFFICES ASSUME NEW j \in DOMAIN t PROVE t[j] \notin K
        BY DEF NoneIn
      <4>1. n + j \in DOMAIN u /\ n + j > i
        BY <1>1, <1>5, <2>2
      <4>2. QED BY <4>1, <2>1, <1>3
    <3>2. s[i] = d /\ \A j \in DOMAIN s : j > i => s[j] \notin K
      BY <2>1, <2>2, <1>2, <1>5
    <3>3. LastIn(s, K, d)
      BY <3>2, <2>1, <2>2 DEF LastIn
    <3>4. QED BY <3>1, <3>3
  <2>3. CASE i \notin DOMAIN s
    <3> DEFINE k == i - n
    <3>1. k \in DOMAIN t /\ n + k = i
      BY <2>3, <1>4
    <3>2. t[k] = d
      BY <3>1, <2>1, <1>3
    <3>3. ASSUME NEW j \in DOMAIN t, j > k PROVE t[j] \notin K
      <4>1. n + j \in DOMAIN u /\ n + j > i
        BY <3>1, <3>3, <1>1, <1>5
      <4>2. QED BY <4>1, <2>1, <1>3
    <3>4. \A j \in DOMAIN t : j > k => t[j] \notin K
      BY <3>3
    <3> HIDE DEF k
    <3>5. LastIn(t, K, d)
      BY <3>1, <3>2, <3>4, <2>1 DEF LastIn
    <3>6. QED BY <3>5
  <2>4. QED BY <2>2, <2>3
<1>9. ASSUME NeverIn(s, A, K), NeverIn(t, A, K), NoneIn(s, A) \/ NoneIn(t, K)
      PROVE  NeverIn(u, A, K)
  <2> SUFFICES ASSUME NEW i \in DOMAIN u, NEW j \in DOMAIN u, i < j, u[i] \in A PROVE u[j] \notin K
    BY DEF NeverIn
  <2>1. CASE i \in DOMAIN s /\ j \in DOMAIN s
    BY <2>1, <1>9, <1>2 DEF NeverIn
  <2>2. CASE i \in DOMAIN s /\ j \notin DOMAIN s
    BY <2>2, <1>9, <1>4, <1>6 DEF NoneIn
  <2>3. CASE i \notin DOMAIN s
    <3>1. j \notin DOMAIN s
      BY <2>3, <1>1
    <3>2. i - n \in DOMAIN t /\ j - n \in DOMAIN t /\ i - n < j - n
      BY <3>1, <2>3, <1>1, <1>4
    <3>3. u[i] = t[i - n] /\ u[j] = t[j - n]
      BY <3>1, <2>3, <1>6
    <3>4. QED BY <3>2, <3>3, <1>9 DEF NeverIn
  <2>4. QED BY <2>1, <2>2, <2>3
<1>10. QED BY <1>7, <1>8, <1>9 DEF u

LEMMA TailSifted ==
    ASSUME NEW S, NEW s \in Seq(S), s # <<>>, NEW K, NEW A
    PROVE  /\ Head(s) \in S /\ Tail(s) \in Seq(S)
           /\ NoneIn(s, K) <=> Head(s) \notin K /\ NoneIn(Tail(s), K)
           /\ \A d : LastIn(Tail(s), K, d) => LastIn(s, K, d)
           /\ Head(s) \in K /\ NoneIn(Tail(s), K) => LastIn(s, K, Head(s))
           /\ NeverIn(s, A, K) => NeverIn(Tail(s), A, K)
           /\ NeverIn(s, A, K) /\ Head(s) \in A => NoneIn(Tail(s), K)
<1> DEFINE t == Tail(s)
           n == Len(s)
<1>1. /\ n \in Nat /\ n >= 1 /\ DOMAIN s = 1..n /\ t \in Seq(S) /\ Len(t) = n - 1
      /\ DOMAIN t = 1..(n - 1) /\ Head(s) = s[1] /\ Head(s) \in S
  OBVIOUS
<1>2. \A i \in DOMAIN t : t[i] = s[i + 1]
  BY <1>1
<1> HIDE DEF t, n
<1>3. \A i \in DOMAIN t : i + 1 \in DOMAIN s /\ i + 1 > 1
  BY <1>1
<1>4. \A i \in DOMAIN s : i = 1 \/ (i - 1 \in DOMAIN t /\ (i - 1) + 1 = i)
  BY <1>1
<1>5. 1 \in DOMAIN s
  BY <1>1
<1>6. \A i \in DOMAIN s : i # 1 => s[i] = t[i - 1]
  BY <1>2, <1>4
<1>7. NoneIn(s, K) <=> Head(s) \notin K /\ NoneIn(t, K)
  <2>1. NoneIn(s, K) => Head(s) \notin K /\ NoneIn(t, K)
    BY <1>1, <1>2, <1>3, <1>5 DEF NoneIn
  <2>2. Head(s) \notin K /\ NoneIn(t, K) => NoneIn(s, K)
    BY <1>1, <1>4, <1>6 DEF NoneIn
  <2>3. QED BY <2>1, <2>2
<1>8. ASSUME NEW d, LastIn(t, K, d) PROVE LastIn(s, K, d)
  <2>1. PICK i \in DOMAIN t : t[i] = d /\ d \in K /\ \A j \in DOMAIN t : j > i => t[j] \notin K
    BY <1>8 DEF LastIn
  <2>2. i + 1 \in DOMAIN s /\ s[i + 1] = d
    BY <2>1, <1>2, <1>3
  <2>3. ASSUME NEW j \in DOMAIN s, j > i + 1 PROVE s[j] \notin K
    <3>1. j # 1 /\ j - 1 > i
      BY <2>3, <1>1
    <3>2. QED BY <3>1, <2>1, <1>4, <1>6
  <2>4. QED BY <2>1, <2>2, <2>3 DEF LastIn
<1>9. Head(s) \in K /\ NoneIn(t, K) => LastIn(s, K, Head(s))
  <2> SUFFICES ASSUME Head(s) \in K, NoneIn(t, K) PROVE \A j \in DOMAIN s : j > 1 => s[j] \notin K
    BY <1>1, <1>5 DEF LastIn
  <2>1. \A j \in DOMAIN s : j > 1 => j # 1
    BY <1>1
  <2>2. QED BY <2>1, <1>4, <1>6 DEF NoneIn
<1>10. NeverIn(s, A, K) => NeverIn(t, A, K)
  <2> SUFFICES ASSUME NeverIn(s, A, K), NEW i \in DOMAIN t, NEW j \in DOMAIN t, i < j, t[i] \in A
               PROVE  t[j] \notin K
    BY DEF NeverIn
  <2>1. i + 1 < j + 1
    BY <1>1
  <2>2. QED BY <2>1, <1>2, <1>3 DEF NeverIn
<1>11. NeverIn(s, A, K) /\ Head(s) \in A => NoneIn(t, K)
  <2> SUFFICES ASSUME NeverIn(s, A, K), Head(s) \in A, NEW j \in DOMAIN t PROVE t[j] \notin K
    BY DEF NoneIn
  <2>1. 1 < j + 1
    BY <1>1
  <2>2. QED BY <2>1, <1>1, <1>2, <1>3, <1>5 DEF NeverIn
<1>12. QED BY <1>1, <1>7, <1>8, <1>9, <1>10, <1>11 DEF t

LEMMA HeadSwapped ==
    ASSUME NEW S, NEW s \in Seq(S), s # <<>>, NEW c \in S, NEW K, NEW A
    PROVE  /\ <<c>> \o Tail(s) \in Seq(S) /\ <<c>> \o Tail(s) # <<>> /\ Head(<<c>> \o Tail(s)) = c
           /\ NoneIn(<<c>> \o Tail(s), K) <=> c \notin K /\ NoneIn(Tail(s), K)
           /\ \A d : LastIn(<<c>> \o Tail(s), K, d) => LastIn(s, K, d) \/ (d = c /\ NoneIn(Tail(s), K))
           /\ NeverIn(s, A, K) /\ (c \in A => Head(s) \in A) => NeverIn(<<c>> \o Tail(s), A, K)
<1> DEFINE t == <<c>> \o Tail(s)
           n == Len(s)
<1>1. /\ n \in Nat /\ n >= 1 /\ DOMAIN s = 1..n /\ t \in Seq(S) /\ Len(t) = n /\ t # <<>>
      /\ DOMAIN t = 1..n /\ Head(s) = s[1] /\ Head(t) = c /\ t[1] = c
  OBVIOUS
<1>2. \A i \in DOMAIN t : i # 1 => t[i] = s[i]
  BY <1>1
<1>3. Tail(s) \in Seq(S) /\ DOMAIN Tail(s) = 1..(n - 1) /\ \A i \in 1..(n - 1) : Tail(s)[i] = s[i + 1]
  BY <1>1
<1>4. NoneIn(Tail(s), K) <=> \A i \in DOMAIN s : i # 1 => s[i] \notin K
  <2>1. ASSUME NoneIn(Tail(s), K), NEW i \in DOMAIN s, i # 1 PROVE s[i] \notin K
    <3>1. i - 1 \in 1..(n - 1) /\ (i - 1) + 1 = i
      BY <2>1, <1>1
    <3>2. QED BY <3>1, <2>1, <1>3 DEF NoneIn
  <2>2. ASSUME \A i \in DOMAIN s : i # 1 => s[i] \notin K, NEW i \in 1..(n - 1) PROVE Tail(s)[i] \notin K
    <3>1. i + 1 \in DOMAIN s /\ i + 1 # 1
      BY <1>1
    <3>2. QED BY <3>1, <2>2, <1>3
  <2>3. QED BY <2>1, <2>2, <1>3 DEF NoneIn
<1> HIDE DEF t, n
<1>5. DOMAIN t = DOMAIN s /\ 1 \in DOMAIN t
  BY <1>1
<1>6. NoneIn(t, K) <=> c \notin K /\ NoneIn(Tail(s), K)
  <2>1. NoneIn(t, K) => c \notin K /\ \A i \in DOMAIN s : i # 1 => s[i] \notin K
    BY <1>1, <1>2, <1>5 DEF NoneIn
  <2>2. c \notin K /\ (\A i \in DOMAIN s : i # 1 => s[i] \notin K) => NoneIn(t, K)
    BY <1>1, <1>2, <1>5 DEF NoneIn
  <2>3. QED BY <2>1, <2>2, <1>4
<1>7. ASSUME NEW d, LastIn(t, K, d)
      PROVE  LastIn(s, K, d) \/ (d = c /\ NoneIn(Tail(s), K))
  <2>1. PICK i \in DOMAIN t : t[i] = d /\ d \in K /\ \A j \in DOMAIN t : j > i => t[j] \notin K
    BY <1>7 DEF LastIn
  <2>2. CASE i = 1
    <3>1. \A j \in DOMAIN s : j # 1 => j > 1
      BY <1>1
    <3>2. \A j \in DOMAIN s : j # 1 => s[j] \notin K
      BY <3>1, <2>1, <2>2, <1>2, <1>5
    <3>3. QED BY <3>2, <2>1, <2>2, <1>1, <1>4
  <2>3. CASE i # 1
    <3>1. \A j \in DOMAIN s : j > i => j # 1
      BY <1>1, <1>5
    <3>2. s[i] = d /\ \A j \in DOMAIN s : j > i => s[j] \notin K
      BY <3>1, <2>1, <2>3, <1>2, <1>5
    <3>3. LastIn(s, K, d)
      BY <3>2, <2>1, <1>5 DEF LastIn
    <3>4. QED BY <3>3
  <2>4. QED BY <2>2, <2>3
<1>8. ASSUME NeverIn(s, A, K), c \in A => Head(s) \in A PROVE NeverIn(t, A, K)
  <2> SUFFICES ASSUME NEW i \in DOMAIN t, NEW j \in DOMAIN t, i < j, t[i] \in A PROVE t[j] \notin K
    BY DEF NeverIn
  <2>1. j # 1
    BY <1>1
  <2>2. s[i] \in A
    BY <1>1, <1>2, <1>8
  <2>3. QED BY <2>1, <2>2, <1>2, <1>5, <1>8 DEF NeverIn
<1>9. QED BY <1>1, <1>6, <1>7, <1>8 DEF t

LEMMA EmptySifted ==
    ASSUME NEW K, NEW A
    PROVE  NoneIn(<<>>, K) /\ NeverIn(<<>>, A, K) /\ \A d : ~LastIn(<<>>, K, d)
<1>1. DOMAIN <<>> = {}
  OBVIOUS
<1>2. QED BY <1>1 DEF NoneIn, NeverIn, LastIn

LEMMA AmongSifted ==
    ASSUME NEW s, NEW K
    PROVE  /\ NoneIn(s, K) <=> \A c \in Among(s) : c \notin K
           /\ \A d : LastIn(s, K, d) => d \in Among(s) /\ d \in K /\ ~NoneIn(s, K)
BY DEF Among, NoneIn, LastIn
-----------------------------------------------------------------------------
(* What is on its way, and how it moves.                                   *)
WayTyped == inbox \in Seq(Commands) /\ queue \in Seq(Commands)
HalfRemoved(p) == inbox # <<>> /\ Head(inbox) \in OfAt({"rewrap"}, p)
Overtakes == inbox' # inbox /\ queue # <<>>

LEMMA LatestIsLeft ==
    ASSUME NEW K, NEW c, Latest(K, c)
    PROVE  c \in OnTheWay /\ c \in K /\ ~NoneLeft(K)
BY AmongSifted DEF Latest, OnTheWay, NoneLeft

LEMMA LeftIsOnTheWay ==
    ASSUME NEW K
    PROVE  NoneLeft(K) <=> \A c \in OnTheWay : c \notin K
BY AmongSifted DEF OnTheWay, NoneLeft

(* A command sent comes last, or overtakes what is queued.                 *)
SameHead == inbox # <<>> => inbox' # <<>> /\ Head(inbox') = Head(inbox)

LEMMA SendMoves ==
    ASSUME WayTyped, NEW c \in Commands, Send(c), NEW K, NEW A
    PROVE  /\ WayTyped' /\ SameHead
           /\ NoneLeft(K)' <=> NoneLeft(K) /\ c \notin K
           /\ Never(A, K) /\ (NoneLeft(A) \/ c \notin K) /\ (~Overtakes \/ c \notin A \/ NoneIn(queue, K)) =>
                Never(A, K)'
           /\ IF Overtakes
              THEN Costs(For(Among(queue) \cup {c}, {"fetch", "removeAll"}))
              ELSE /\ doubt' = doubt \ Settles(c) /\ missing' = missing \cup Early(c)
                   /\ \A d : Latest(K, d)' => IF c \in K THEN d = c ELSE Latest(K, d)
<1>1. \/ inbox' = Append(inbox, c) /\ UNCHANGED queue
      \/ queue' = Append(queue, c) /\ UNCHANGED inbox
  BY DEF Send
<1>2. Overtakes => Costs(For(Among(queue) \cup {c}, {"fetch", "removeAll"}))
  BY DEF Send, Overtakes
<1>3. ~Overtakes => doubt' = doubt \ Settles(c) /\ missing' = missing \cup Early(c)
  BY DEF Send, Overtakes
<1>4. CASE inbox' = Append(inbox, c) /\ UNCHANGED queue
  <2>1. inbox' # inbox
    <3>1. Len(Append(inbox, c)) = Len(inbox) + 1 /\ Len(inbox) \in Nat
      BY DEF WayTyped
    <3>2. QED BY <3>1, <1>4
  <2>2. WayTyped' /\ SameHead
    BY <1>4 DEF WayTyped, SameHead
  <2>3. /\ NoneIn(inbox', K) <=> NoneIn(inbox, K) /\ c \notin K
        /\ \A d : LastIn(inbox', K, d) => IF c \in K THEN d = c ELSE LastIn(inbox, K, d)
        /\ NeverIn(inbox, A, K) /\ (NoneIn(inbox, A) \/ c \notin K) => NeverIn(inbox', A, K)
    BY <1>4, AppendSifted DEF WayTyped
  <2>4. NoneIn(inbox', A) <=> NoneIn(inbox, A) /\ c \notin A
    BY <1>4, AppendSifted DEF WayTyped
  <2>5. queue' = queue /\ (Overtakes <=> queue # <<>>)
    BY <1>4, <2>1 DEF Overtakes
  <2>6. queue = <<>> => NoneIn(queue, K) /\ \A d : ~LastIn(queue, K, d)
    BY EmptySifted
  <2>7. NoneLeft(K)' <=> NoneLeft(K) /\ c \notin K
    BY <2>3, <2>5 DEF NoneLeft
  <2>8. ~Overtakes => \A d : Latest(K, d)' => IF c \in K THEN d = c ELSE Latest(K, d)
    BY <2>3, <2>5, <2>6 DEF Latest
  <2>9. ASSUME Never(A, K), NoneLeft(A) \/ c \notin K, ~Overtakes \/ c \notin A \/ NoneIn(queue, K) PROVE Never(A, K)'
    <3>1. NeverIn(inbox, A, K) /\ NeverIn(queue, A, K) /\ (NoneIn(inbox, A) \/ NoneIn(queue, K))
      BY <2>9 DEF Never
    <3>2. NoneIn(inbox, A) \/ c \notin K
      BY <2>9 DEF NoneLeft
    <3>3. NeverIn(inbox', A, K) /\ NeverIn(queue', A, K)
      BY <3>1, <3>2, <2>3, <2>5
    <3>4. NoneIn(inbox', A) \/ NoneIn(queue', K)
      BY <3>1, <2>4, <2>5, <2>6, <2>9
    <3>5. QED BY <3>3, <3>4 DEF Never
  <2>10. QED BY <1>2, <1>3, <2>2, <2>7, <2>8, <2>9
<1>5. CASE queue' = Append(queue, c) /\ UNCHANGED inbox
  <2>1. ~Overtakes /\ WayTyped' /\ SameHead
    BY <1>5 DEF WayTyped, Overtakes, SameHead
  <2>2. /\ NoneIn(queue', K) <=> NoneIn(queue, K) /\ c \notin K
        /\ \A d : LastIn(queue', K, d) => IF c \in K THEN d = c ELSE LastIn(queue, K, d)
        /\ NeverIn(queue, A, K) /\ (NoneIn(queue, A) \/ c \notin K) => NeverIn(queue', A, K)
    BY <1>5, AppendSifted DEF WayTyped
  <2>3. inbox' = inbox
    BY <1>5
  <2>4. NoneLeft(K)' <=> NoneLeft(K) /\ c \notin K
    BY <2>2, <2>3 DEF NoneLeft
  <2>5. ASSUME NEW d, Latest(K, d)' PROVE IF c \in K THEN d = c ELSE Latest(K, d)
    BY <2>2, <2>3, <2>5 DEF Latest
  <2>6. Never(A, K) /\ (NoneLeft(A) \/ c \notin K) => Never(A, K)'
    BY <2>2, <2>3 DEF Never, NoneLeft
  <2>7. QED BY <2>1, <2>4, <2>5, <2>6, <1>3
<1>6. QED BY <1>1, <1>4, <1>5

(* Taken from the queue, all stays in its order.                           *)
LEMMA TakenMoves ==
    ASSUME WayTyped, inbox' = inbox \o queue, queue' = <<>>, NEW K, NEW A
    PROVE  /\ WayTyped'
           /\ NoneLeft(K)' <=> NoneLeft(K)
           /\ \A d : Latest(K, d)' => Latest(K, d)
           /\ Never(A, K) => Never(A, K)'
           /\ SameHead
<1>1. WayTyped'
  BY DEF WayTyped
<1>2. /\ NoneIn(inbox', K) <=> NoneIn(inbox, K) /\ NoneIn(queue, K)
      /\ \A d : LastIn(inbox', K, d) => LastIn(queue, K, d) \/ (NoneIn(queue, K) /\ LastIn(inbox, K, d))
      /\ NeverIn(inbox, A, K) /\ NeverIn(queue, A, K) /\ (NoneIn(inbox, A) \/ NoneIn(queue, K)) => NeverIn(inbox', A, K)
  BY JoinedSifted DEF WayTyped
<1>3. NoneIn(queue', K) /\ NeverIn(queue', A, K) /\ \A d : ~LastIn(queue', K, d)
  BY EmptySifted
<1>4. SameHead
  BY DEF SameHead, WayTyped
<1>5. NoneLeft(K)' <=> NoneLeft(K)
  BY <1>2, <1>3 DEF NoneLeft
<1>6. \A d : Latest(K, d)' => Latest(K, d)
  BY <1>2, <1>3 DEF Latest
<1>7. Never(A, K) => Never(A, K)'
  BY <1>2, <1>3 DEF Never
<1>8. QED BY <1>1, <1>4, <1>5, <1>6, <1>7

(* The first one is executed.                                              *)
LEMMA HeadMoves ==
    ASSUME WayTyped, inbox # <<>>, inbox' = Tail(inbox), queue' = queue, NEW K, NEW A
    PROVE  /\ WayTyped' /\ Head(inbox) \in Commands
           /\ NoneLeft(K) <=> Head(inbox) \notin K /\ NoneLeft(K)'
           /\ \A d : Latest(K, d)' => Latest(K, d)
           /\ Head(inbox) \in K /\ NoneLeft(K)' => Latest(K, Head(inbox))
           /\ Never(A, K) => Never(A, K)'
           /\ Never(A, K) /\ Head(inbox) \in A => NoneLeft(K)'
<1> DEFINE c == Head(inbox)
<1>1. WayTyped' /\ c \in Commands
  BY TailSifted DEF WayTyped
<1>2. /\ NoneIn(inbox, K) <=> c \notin K /\ NoneIn(inbox', K)
      /\ \A d : LastIn(inbox', K, d) => LastIn(inbox, K, d)
      /\ c \in K /\ NoneIn(inbox', K) => LastIn(inbox, K, c)
      /\ NeverIn(inbox, A, K) => NeverIn(inbox', A, K)
      /\ NeverIn(inbox, A, K) /\ c \in A => NoneIn(inbox', K)
  BY TailSifted DEF WayTyped
<1>3. NoneIn(inbox, A) <=> c \notin A /\ NoneIn(inbox', A)
  BY TailSifted DEF WayTyped
<1> HIDE DEF c
<1>4. NoneLeft(K) <=> c \notin K /\ NoneLeft(K)'
  BY <1>2 DEF NoneLeft
<1>5. \A d : Latest(K, d)' => Latest(K, d)
  BY <1>2 DEF Latest
<1>6. c \in K /\ NoneLeft(K)' => Latest(K, c)
  BY <1>2 DEF Latest, NoneLeft
<1>7. Never(A, K) => Never(A, K)'
  BY <1>2, <1>3 DEF Never
<1>8. Never(A, K) /\ c \in A => NoneLeft(K)'
  BY <1>2, <1>3 DEF Never, NoneLeft
<1>9. QED BY <1>1, <1>4, <1>5, <1>6, <1>7, <1>8 DEF c

(* The first one leaves another in its place.                              *)
LEMMA SwapMoves ==
    ASSUME WayTyped, inbox # <<>>, NEW c \in Commands, inbox' = <<c>> \o Tail(inbox), queue' = queue, NEW K, NEW A
    PROVE  /\ WayTyped' /\ inbox' # <<>> /\ Head(inbox') = c
           /\ NoneLeft(K) /\ c \notin K => NoneLeft(K)'
           /\ NoneLeft(K)' /\ Head(inbox) \notin K => NoneLeft(K)
           /\ c \in K => ~NoneLeft(K)'
           /\ Head(inbox) \in K /\ NoneLeft(K)' => Latest(K, Head(inbox))
           /\ \A d : Latest(K, d)' => Latest(K, d) \/ (d = c /\ (Head(inbox) \in K => Latest(K, Head(inbox))))
           /\ Never(A, K) /\ (c \in A => Head(inbox) \in A) => Never(A, K)'
<1> DEFINE h == Head(inbox)
<1>1. WayTyped' /\ inbox' # <<>> /\ Head(inbox') = c
  BY HeadSwapped DEF WayTyped
<1>2. /\ NoneIn(inbox', K) <=> c \notin K /\ NoneIn(Tail(inbox), K)
      /\ \A d : LastIn(inbox', K, d) => LastIn(inbox, K, d) \/ (d = c /\ NoneIn(Tail(inbox), K))
      /\ NeverIn(inbox, A, K) /\ (c \in A => h \in A) => NeverIn(inbox', A, K)
  BY HeadSwapped DEF WayTyped
<1>3. /\ NoneIn(inbox, K) <=> h \notin K /\ NoneIn(Tail(inbox), K)
      /\ h \in K /\ NoneIn(Tail(inbox), K) => LastIn(inbox, K, h)
  BY TailSifted DEF WayTyped
<1>4. /\ NoneIn(inbox, A) <=> h \notin A /\ NoneIn(Tail(inbox), A)
      /\ NoneIn(inbox', A) <=> c \notin A /\ NoneIn(Tail(inbox), A)
  BY TailSifted, HeadSwapped DEF WayTyped
<1> HIDE DEF h
<1>5. /\ NoneLeft(K) /\ c \notin K => NoneLeft(K)'
      /\ NoneLeft(K)' /\ h \notin K => NoneLeft(K)
      /\ c \in K => ~NoneLeft(K)'
      /\ h \in K /\ NoneLeft(K)' => Latest(K, h)
  BY <1>2, <1>3 DEF NoneLeft, Latest
<1>6. ASSUME NEW d, Latest(K, d)' PROVE Latest(K, d) \/ (d = c /\ (h \in K => Latest(K, h)))
  BY <1>2, <1>3, <1>6 DEF Latest
<1>7. Never(A, K) /\ (c \in A => h \in A) => Never(A, K)'
  BY <1>2, <1>4 DEF Never
<1>8. QED BY <1>1, <1>5, <1>6, <1>7 DEF h

(* What had reached the device is lost when it goes down.                  *)
LEMMA DownMoves ==
    ASSUME WayTyped, inbox' = <<>>, queue' = queue, NEW K, NEW A
    PROVE  /\ WayTyped'
           /\ NoneLeft(K) => NoneLeft(K)'
           /\ NoneLeft(K)' /\ NoneIn(inbox, K) => NoneLeft(K)
           /\ \A d : Latest(K, d)' => Latest(K, d)
           /\ Never(A, K) => Never(A, K)'
<1>1. WayTyped'
  BY DEF WayTyped
<1>2. NoneIn(inbox', K) /\ NeverIn(inbox', A, K) /\ NoneIn(inbox', A) /\ \A d : ~LastIn(inbox', K, d)
  BY EmptySifted
<1>3. QED BY <1>1, <1>2 DEF NoneLeft, Latest, Never

(* The device loses all or the first of its commands, or its queue is.     *)
Loses(lost) ==
    \/ inbox' = <<>> /\ queue' = queue /\ lost = Among(inbox)
    \/ inbox # <<>> /\ inbox' = Tail(inbox) /\ queue' = queue /\ lost = {Head(inbox)}
    \/ inbox' = inbox /\ queue' = <<>> /\ lost = Among(queue)

LEMMA LossMoves ==
    ASSUME WayTyped, NEW K, NEW A, NEW lost, Loses(lost)
    PROVE  /\ WayTyped' /\ NoMore(K)
           /\ Never(A, K) => Never(A, K)'
           /\ (\A c \in lost : c \notin K) =>
                (NoneLeft(K)' <=> NoneLeft(K)) /\ \A d : Latest(K, d)' => Latest(K, d)
           /\ inbox # <<>> /\ Head(inbox) \notin lost => inbox' # <<>> /\ Head(inbox') = Head(inbox)
<1>1. CASE inbox' = <<>> /\ queue' = queue /\ lost = Among(inbox)
  <2>1. (\A c \in lost : c \notin K) => NoneIn(inbox, K)
    BY <1>1, AmongSifted
  <2>2. inbox # <<>> => Head(inbox) \in Among(inbox)
    BY DEF Among, WayTyped
  <2>3. QED BY <1>1, <2>1, <2>2, DownMoves DEF NoMore
<1>2. CASE inbox # <<>> /\ inbox' = Tail(inbox) /\ queue' = queue /\ lost = {Head(inbox)}
  BY <1>2, HeadMoves DEF NoMore
<1>3. CASE inbox' = inbox /\ queue' = <<>> /\ lost = Among(queue)
  <2>1. NoneIn(queue', K) /\ NeverIn(queue', A, K) /\ \A d : ~LastIn(queue', K, d)
    BY <1>3, EmptySifted
  <2>2. (\A c \in lost : c \notin K) => NoneIn(queue, K)
    BY <1>3, AmongSifted
  <2>3. NoMore(K) /\ (Never(A, K) => Never(A, K)')
    BY <1>3, <2>1 DEF NoMore, NoneLeft, Never
  <2>4. (\A c \in lost : c \notin K) => (NoneLeft(K)' <=> NoneLeft(K)) /\ \A d : Latest(K, d)' => Latest(K, d)
    BY <1>3, <2>1, <2>2 DEF NoneLeft, Latest
  <2>5. QED BY <1>3, <2>3, <2>4 DEF WayTyped
<1>4. QED BY <1>1, <1>2, <1>3 DEF Loses

(* The first one, when none of K comes behind it.                          *)
LEMMA FirstOfNever ==
    ASSUME WayTyped, inbox # <<>>, NEW K, NEW A, Head(inbox) \in A, Head(inbox) \notin K, Never(A, K)
    PROVE  NoneLeft(K)
<1>1. NoneIn(inbox, K) <=> Head(inbox) \notin K /\ NoneIn(Tail(inbox), K)
  BY TailSifted DEF WayTyped
<1>2. NeverIn(inbox, A, K) => NoneIn(Tail(inbox), K)
  BY TailSifted DEF WayTyped
<1>3. ~NoneIn(inbox, A)
  BY TailSifted DEF WayTyped
<1>4. QED BY <1>1, <1>2, <1>3 DEF Never, NoneLeft

LEMMA NeverNone ==
    ASSUME NEW K, NEW A, NoneLeft(K) \/ NoneLeft(A)
    PROVE  Never(A, K)
BY DEF Never, NoneLeft, NeverIn, NoneIn
-----------------------------------------------------------------------------
(* Types, and one run at a time.                                           *)
Steps == {"idle", "waiting", "storage", "reading", "serving", "downloading", "space", "measuring", "staging",
          "delivering", "recording", "delivered", "rebooting"}
Off(r) == step[r] \in {"idle", "waiting"}

RunsOK ==
    /\ step \in [Jobs -> Steps] /\ action \in [Jobs -> {"apply", "remove"}]
    /\ patcher \in [Jobs -> Patchers \cup {None}]
    /\ \A r \in Jobs : step[r] # "idle" => patcher[r] \in Patchers
    /\ \A r \in Jobs : step[r] \in {"serving", "downloading", "space", "measuring", "staging", "delivering"} =>
         action[r] = "apply"
    /\ \A r \in Jobs : step[r] \in {"staging", "delivering"} => PatchKind[patcher[r]] # "camera"
    /\ \A r, q \in Jobs : r # q => Off(r) \/ Off(q)

TInv == RunsOK /\ PatchingTypeOK /\ WayTyped /\ nonces \in Nat

(* A run that is under way goes on.                                        *)
LEMMA RunGoesOn ==
    ASSUME RunsOK, NEW r \in Jobs, NEW there \in Steps, ~Off(r) \/ LockFree(r), step[r] # "idle",
           GoTo(r, there), UNCHANGED <<action, patcher>>,
           there \in {"serving", "downloading", "space", "measuring", "staging", "delivering"} => action[r] = "apply",
           there \in {"staging", "delivering"} => PatchKind[patcher[r]] # "camera"
    PROVE  RunsOK' /\ step'[r] = there /\ \A q \in Jobs \ {r} : step'[q] = step[q] /\ Off(q)
<1>1. step' = [step EXCEPT ![r] = there]
  BY DEF GoTo
<1>2. step'[r] = there /\ \A q \in Jobs \ {r} : step'[q] = step[q]
  BY <1>1 DEF RunsOK
<1>3. step' \in [Jobs -> Steps]
  BY <1>1 DEF RunsOK
<1>4. \A q \in Jobs \ {r} : Off(q)
  BY DEF RunsOK, LockFree, Off
<1>5. \A q \in Jobs \ {r} : Off(q)'
  BY <1>2, <1>4 DEF Off
<1>6. \A q, p \in Jobs : q # p => Off(q)' \/ Off(p)'
  BY <1>5
<1>7. \A q \in Jobs : step'[q] # "idle" => patcher'[q] \in Patchers
  BY <1>2 DEF RunsOK
<1>8. \A q \in Jobs : step'[q] \in {"serving", "downloading", "space", "measuring", "staging", "delivering"} =>
         action'[q] = "apply"
  BY <1>2 DEF RunsOK
<1>9. \A q \in Jobs : step'[q] \in {"staging", "delivering"} => PatchKind[patcher'[q]] # "camera"
  BY <1>2 DEF RunsOK
<1>10. QED BY <1>2, <1>3, <1>4, <1>6, <1>7, <1>8, <1>9 DEF RunsOK, Off

(* Where a run goes that has read an answer.                               *)
LEMMA ReadsWhere ==
    ASSUME RunsOK, NEW r \in Jobs, Reads(r)
    PROVE  \E there \in {"idle", "recording", "serving", "space", "staging"} :
              /\ GoTo(r, there)
              /\ there \in {"serving", "space", "staging"} => action[r] = "apply"
              /\ there = "staging" => PatchKind[patcher[r]] # "camera"
              /\ there = "recording" => action[r] = "remove" \/ PatchKind[patcher[r]] = "camera"
<1>1. PICK there \in Outcomes(r) : GoTo(r, there)
  BY DEF Reads
<1>2. CASE step[r] = "reading"
  <2>1. there \in {AfterStorage(r), "idle"}
    BY <1>1, <1>2 DEF Outcomes, At
  <2>2. CASE action[r] = "remove"
    <3>1. AfterStorage(r) = "recording"
      BY <2>2 DEF AfterStorage
    <3>2. QED BY <1>1, <2>1, <2>2, <3>1
  <2>3. CASE action[r] # "remove"
    <3>1. action[r] = "apply"
      BY <2>3 DEF RunsOK
    <3>2. AfterStorage(r) \in {"serving", "space"}
      BY <2>3 DEF AfterStorage
    <3>3. QED BY <1>1, <2>1, <3>1, <3>2
  <2>4. QED BY <2>2, <2>3
<1>3. CASE step[r] = "measuring"
  <2>1. there \in {AfterSpace(r), "idle"}
    BY <1>1, <1>3 DEF Outcomes, At
  <2>2. action[r] = "apply"
    BY <1>3 DEF RunsOK
  <2>3. AfterSpace(r) = IF PatchKind[patcher[r]] = "camera" THEN "recording" ELSE "staging"
    BY DEF AfterSpace
  <2>4. QED BY <1>1, <2>1, <2>2, <2>3
<1>4. QED BY <1>2, <1>3 DEF Reads

(* What a run does, one step at a time.                                    *)
LEMMA RunsStep ==
    ASSUME TInv, NEW r \in Jobs, RunSteps(r)
    PROVE  RunsOK' /\ \A q \in Jobs \ {r} : step'[q] = step[q] /\ Off(q)
<1> USE DEF TInv, Off, At, SameRun
<1>1. CASE Begins(r)
  BY <1>1, RunGoesOn DEF Begins, Steps
<1>2. CASE Probes(r)
  BY <1>2, RunGoesOn DEF Probes, Steps, RunsOK
<1>3. CASE Reads(r)
  <2>1. PICK there \in {"idle", "recording", "serving", "space", "staging"} :
              /\ GoTo(r, there)
              /\ there \in {"serving", "space", "staging"} => action[r] = "apply"
              /\ there = "staging" => PatchKind[patcher[r]] # "camera"
    BY <1>3, ReadsWhere
  <2>2. QED BY <1>3, <2>1, RunGoesOn DEF Reads, Steps
<1>4. CASE Serves(r)
  BY <1>4, RunGoesOn DEF Serves, Steps, RunsOK
<1>5. CASE Downloads(r)
  BY <1>5, RunGoesOn DEF Downloads, Steps, RunsOK
<1>6. CASE Stages(r)
  BY <1>6, RunGoesOn DEF Stages, Steps, RunsOK
<1>7. CASE Drops(r)
  BY <1>7, RunGoesOn DEF Drops, Steps
<1>8. CASE RecordsApply(r)
  BY <1>8, RunGoesOn DEF RecordsApply, Wrap, Steps
<1>9. CASE RecordsRemove(r)
  BY <1>9, RunGoesOn DEF RecordsRemove, Wrap, Steps
<1>10. CASE DropsWrapper(r)
  BY <1>10, RunGoesOn DEF DropsWrapper, Steps
<1>11. CASE Reboots(r)
  BY <1>11, RunGoesOn DEF Reboots, Steps
<1>12. QED BY <1>1, <1>2, <1>3, <1>4, <1>5, <1>6, <1>7, <1>8, <1>9, <1>10, <1>11 DEF RunSteps

LEMMA AcceptedRuns ==
    ASSUME RunsOK, NEW r \in Jobs, Accepted(r)
    PROVE  RunsOK' /\ Off(r) /\ Off(r)'
           /\ \A q \in Jobs \ {r} : step'[q] = step[q] /\ patcher'[q] = patcher[q] /\ action'[q] = action[q]
<1>1. PICK p \in Patchers, a \in {"apply", "remove"} :
         patcher' = [patcher EXCEPT ![r] = p] /\ action' = [action EXCEPT ![r] = a]
  BY DEF Accepted
<1>2. step' = [step EXCEPT ![r] = "waiting"] /\ step[r] = "idle"
  BY DEF Accepted, GoTo, At
<1>3. step'[r] = "waiting" /\ patcher'[r] = p
  BY <1>1, <1>2 DEF RunsOK
<1>4. \A q \in Jobs \ {r} : step'[q] = step[q] /\ patcher'[q] = patcher[q] /\ action'[q] = action[q]
  BY <1>1, <1>2 DEF RunsOK
<1>5. step' \in [Jobs -> Steps] /\ action' \in [Jobs -> {"apply", "remove"}] /\ patcher' \in [Jobs -> Patchers \cup {None}]
  BY <1>1, <1>2 DEF RunsOK, Steps
<1>6. \A q, s \in Jobs : q # s => Off(q)' \/ Off(s)'
  BY <1>3, <1>4 DEF RunsOK, Off
<1>7. \A q \in Jobs : step'[q] # "idle" => patcher'[q] \in Patchers
  BY <1>3, <1>4 DEF RunsOK
<1>8. \A q \in Jobs : step'[q] \in {"serving", "downloading", "space", "measuring", "staging", "delivering"} =>
         action'[q] = "apply"
  BY <1>3, <1>4 DEF RunsOK
<1>9. \A q \in Jobs : step'[q] \in {"staging", "delivering"} => PatchKind[patcher'[q]] # "camera"
  BY <1>3, <1>4 DEF RunsOK
<1>10. QED BY <1>2, <1>3, <1>4, <1>5, <1>6, <1>7, <1>8, <1>9 DEF RunsOK, Off

LEMMA CommandTyped ==
    ASSUME NEW do \in Dos, NEW on \in Nat \cup Patchers \cup {None}
    PROVE  Command(do, on) \in Commands /\ Command(do, on).do = do /\ Command(do, on).on = on
BY DEF Command, Commands

LEMMA SendTyped ==
    ASSUME TInv, NEW do \in Dos, NEW on \in Nat \cup Patchers \cup {None}, Send(Command(do, on)),
           do = "fetch" => on \in WithFiles
    PROVE  WayTyped' /\ doubt' \subseteq Everything /\ missing' \subseteq WithFiles
<1> DEFINE c == Command(do, on)
<1>1. c \in Commands /\ c.do = do /\ c.on = on
  BY CommandTyped
<1> HIDE DEF c
<1>2. /\ WayTyped'
      /\ IF Overtakes THEN Costs(For(Among(queue) \cup {c}, {"fetch", "removeAll"}))
         ELSE doubt' = doubt \ Settles(c) /\ missing' = missing \cup Early(c)
  <2>1. WayTyped /\ Send(c)
    BY DEF TInv, c
  <2>2. QED BY <2>1, <1>1, SendMoves
<1>3. Early(c) \subseteq WithFiles
  BY <1>1 DEF Early
<1>4. QED BY <1>2, <1>3 DEF Costs, TInv, PatchingTypeOK

LEMMA RunTypes ==
    ASSUME TInv, NEW r \in Jobs, RunSteps(r)
    PROVE  TInv'
<1> USE DEF TInv
<1>1. RunsOK'
  BY RunsStep
<1>2. step[r] # "idle" => patcher[r] \in Patchers
  BY DEF RunsOK
<1>3. action' \in [Jobs -> {"apply", "remove"}] /\ patcher' \in [Jobs -> Patchers \cup {None}]
  BY <1>1 DEF RunsOK
<1>4. CASE Begins(r)
  BY <1>1, <1>3, <1>4 DEF Begins, PatchingTypeOK, SendsNothing, deviceVars, ghosts, WayTyped
<1>5. CASE Probes(r)
  <2>1. Send(Command("probe", nonces')) /\ nonces' \in Nat
    BY <1>5 DEF Probes
  <2>2. "probe" \in Dos /\ nonces' \in Nat \cup Patchers \cup {None}
    BY <2>1 DEF Dos
  <2>3. WayTyped' /\ doubt' \subseteq Everything /\ missing' \subseteq WithFiles
    BY <2>1, <2>2, SendTyped
  <2>4. QED BY <1>1, <1>3, <1>5, <2>1, <2>3 DEF Probes, PatchingTypeOK, deviceVars
<1>6. CASE Reads(r)
  BY <1>1, <1>3, <1>6 DEF Reads, PatchingTypeOK, SendsNothing, deviceVars, ghosts, WayTyped
<1>7. CASE Serves(r)
  <2>1. WayTyped' /\ doubt' \subseteq Everything /\ missing' \subseteq WithFiles
    BY <1>7, SendTyped DEF Serves, Dos
  <2>2. QED BY <1>1, <1>3, <1>7, <2>1 DEF Serves, PatchingTypeOK, deviceVars
<1>8. CASE Downloads(r)
  <2>1. WayTyped' /\ doubt' \subseteq Everything /\ missing' \subseteq WithFiles
    BY <1>8, SendTyped DEF Downloads, Dos
  <2>2. QED BY <1>1, <1>3, <1>8, <2>1 DEF Downloads, PatchingTypeOK, deviceVars
<1>9. CASE Stages(r)
  <2>1. patcher[r] \in WithFiles
    BY <1>2, <1>9 DEF Stages, At, RunsOK, WithFiles
  <2>2. WayTyped' /\ doubt' \subseteq Everything /\ missing' \subseteq WithFiles
    BY <1>2, <1>9, <2>1, SendTyped DEF Stages, Dos, At
  <2>3. QED BY <1>1, <1>3, <1>9, <2>1, <2>2 DEF Stages, PatchingTypeOK, deviceVars
<1>10. CASE Drops(r)
  <2>1. doubt' \subseteq Everything /\ missing' \subseteq WithFiles
    BY <1>10 DEF Drops, Costs, SpoilsNothing, ghosts, PatchingTypeOK
  <2>2. QED BY <1>1, <1>3, <1>10, <2>1 DEF Drops, PatchingTypeOK, deviceVars, SendsNothing, WayTyped
<1>11. ASSUME NEW set \in SUBSET Patchers, NEW do \in {"wrap", "remove"}, step[r] # "idle", Wrap(r, set, do)
       PROVE  TInv'
  <2>1. WayTyped' /\ doubt' \subseteq Everything /\ missing' \subseteq WithFiles
    BY <1>2, <1>11, SendTyped DEF Wrap, Dos
  <2>2. QED BY <1>1, <1>3, <1>11, <2>1 DEF Wrap, PatchingTypeOK, deviceVars
<1>12. CASE RecordsApply(r)
  <2>1. active \cup {patcher[r]} \in SUBSET Patchers /\ step[r] # "idle"
    BY <1>2, <1>12 DEF RecordsApply, At, PatchingTypeOK
  <2>2. QED BY <1>11, <1>12, <2>1 DEF RecordsApply
<1>13. CASE RecordsRemove(r)
  <2>1. active \ {patcher[r]} \in SUBSET Patchers /\ step[r] # "idle"
    BY <1>13 DEF RecordsRemove, At, PatchingTypeOK
  <2>2. CASE Wrap(r, active \ {patcher[r]}, "remove")
    BY <1>11, <2>1, <2>2
  <2>3. CASE /\ active' = {} /\ Send(Command("removeAll", patcher[r]))
             /\ UNCHANGED <<probe, nonces, staged, stagedWrapper, deviceVars>>
    <3>1. WayTyped' /\ doubt' \subseteq Everything /\ missing' \subseteq WithFiles
      BY <1>2, <2>1, <2>3, SendTyped DEF Dos
    <3>2. QED BY <1>1, <1>3, <2>3, <3>1 DEF PatchingTypeOK, deviceVars
  <2>4. QED BY <1>13, <2>2, <2>3 DEF RecordsRemove
<1>14. CASE DropsWrapper(r)
  <2>1. doubt' \subseteq Everything /\ missing' \subseteq WithFiles
    BY <1>14 DEF DropsWrapper, Costs, SpoilsNothing, ghosts, PatchingTypeOK
  <2>2. stagedWrapper' \in (SUBSET Patchers) \cup {None}
    BY <1>14 DEF DropsWrapper, PatchingTypeOK
  <2>3. QED BY <1>1, <1>3, <1>14, <2>1, <2>2 DEF DropsWrapper, PatchingTypeOK, deviceVars, SendsNothing, WayTyped
<1>15. CASE Reboots(r)
  <2>1. WayTyped' /\ doubt' \subseteq Everything /\ missing' \subseteq WithFiles
    BY <1>15, SendTyped DEF Reboots, Dos
  <2>2. QED BY <1>1, <1>3, <1>15, <2>1 DEF Reboots, PatchingTypeOK, deviceVars
<1>16. QED
  BY <1>4, <1>5, <1>6, <1>7, <1>8, <1>9, <1>10, <1>12, <1>13, <1>14, <1>15 DEF RunSteps

(* What the device makes of the first command, one kind at a time.         *)
Taken == inbox # <<>> /\ inbox' = Tail(inbox) /\ UNCHANGED <<onMqtt, doubt>>

LEMMA ExecutesCases ==
    ASSUME TInv, Executes, NEW c, c = Head(inbox)
    PROVE  /\ inbox # <<>> /\ c \in Commands
           /\ UNCHANGED <<step, action, patcher, nonces, active, staged, stagedWrapper, queue>>
           /\ \/ /\ c.do \in {"probe", "serve", "kill"} /\ Taken /\ servers' \subseteq {"bin", "tmp"}
                 /\ UNCHANGED <<onDevice, wrapper, booted, missing>>
              \/ /\ c.do = "fetch" /\ Taken /\ UNCHANGED <<wrapper, booted, servers>>
                 /\ onDevice' = IF c.on \in staged THEN onDevice \cup {c.on} ELSE onDevice
                 /\ missing' = IF c.on \in staged /\ Steady(Tail(inbox)) THEN missing \ {c.on} ELSE missing
              \/ /\ c.do \in {"wrap", "rewrap"} /\ Taken /\ UNCHANGED <<onDevice, booted, servers, missing>>
                 /\ wrapper' = IF stagedWrapper # None THEN stagedWrapper ELSE wrapper
              \/ /\ c.do = "remove" /\ inbox' = <<Command("rewrap", c.on)>> \o Tail(inbox)
                 /\ UNCHANGED <<onMqtt, doubt, wrapper, booted, servers, missing>>
                 /\ onDevice' = onDevice \ {c.on}
              \/ /\ c.do = "removeAll" /\ onDevice' = onDevice \ {c.on} /\ wrapper' = None /\ booted' = {}
                 /\ Boot(Tail(inbox))
              \/ /\ c.do = "reboot" /\ UNCHANGED <<onDevice, wrapper>> /\ Boot(Tail(inbox))
                 /\ booted' = IF wrapper = None THEN {} ELSE wrapper
<1>1. inbox # <<>> /\ c \in Commands
  BY TailSifted DEF Executes, TInv, WayTyped
<1>2. UNCHANGED <<step, action, patcher, nonces, active, staged, stagedWrapper, queue>>
  BY DEF Executes, runVars
<1>3. servers \subseteq {"bin", "tmp"}
  BY DEF TInv, PatchingTypeOK
<1>4. QED BY <1>1, <1>2, <1>3 DEF Executes, Taken

LEMMA LostTyped ==
    ASSUME TInv, NEW lost, Lost(lost)
    PROVE  doubt' \subseteq Everything /\ missing' \subseteq WithFiles /\ missing \subseteq missing'
<1>1. SpoilsNothing \/ \E files : Costs(files)
  BY DEF Lost
<1>2. QED BY <1>1 DEF Costs, SpoilsNothing, ghosts, TInv, PatchingTypeOK

LEMMA BootTyped ==
    ASSUME TInv, NEW lost, Boot(lost), UNCHANGED queue
    PROVE  /\ WayTyped' /\ doubt' \subseteq Everything /\ missing' \subseteq WithFiles
           /\ servers' = {} /\ missing \subseteq missing'
<1>1. doubt' \subseteq Everything /\ missing' \subseteq WithFiles /\ missing \subseteq missing'
  BY LostTyped DEF Boot
<1>2. QED BY <1>1 DEF Boot, TInv, WayTyped

LEMMA ExecutesTyped ==
    ASSUME TInv, Executes
    PROVE  TInv'
<1> DEFINE c == Head(inbox)
<1> HIDE DEF c
<1>1. PICK h : h = Head(inbox)
  OBVIOUS
<1>2. /\ inbox # <<>> /\ h \in Commands
      /\ UNCHANGED <<step, action, patcher, nonces, active, staged, stagedWrapper, queue>>
  BY <1>1, ExecutesCases
<1>3. RunsOK' /\ nonces' \in Nat
  BY <1>2 DEF TInv, RunsOK, Off
<1>4. Taken => WayTyped'
  BY <1>2, TailSifted DEF Taken, TInv, WayTyped
<1>5. CASE h.do \in {"probe", "serve", "kill"}
  <2>1. Taken /\ servers' \subseteq {"bin", "tmp"} /\ UNCHANGED <<onDevice, wrapper, booted, missing>>
    BY <1>1, <1>5, ExecutesCases
  <2>2. QED BY <1>2, <1>3, <1>4, <2>1 DEF TInv, PatchingTypeOK, Taken
<1>6. CASE h.do = "fetch"
  <2>1. /\ Taken /\ UNCHANGED <<wrapper, booted, servers>>
        /\ onDevice' = IF h.on \in staged THEN onDevice \cup {h.on} ELSE onDevice
        /\ missing' \subseteq missing
    <3>1. Taken /\ UNCHANGED <<wrapper, booted, servers>>
      BY <1>1, <1>6, ExecutesCases
    <3>2. onDevice' = IF h.on \in staged THEN onDevice \cup {h.on} ELSE onDevice
      BY <1>1, <1>6, ExecutesCases
    <3>3. missing' = IF h.on \in staged /\ Steady(Tail(inbox)) THEN missing \ {h.on} ELSE missing
      BY <1>1, <1>6, ExecutesCases
    <3>4. QED BY <3>1, <3>2, <3>3
  <2>2. onDevice' \subseteq WithFiles
    BY <2>1 DEF TInv, PatchingTypeOK
  <2>3. QED BY <1>2, <1>3, <1>4, <2>1, <2>2 DEF TInv, PatchingTypeOK, Taken
<1>7. CASE h.do \in {"wrap", "rewrap"}
  <2>1. /\ Taken /\ UNCHANGED <<onDevice, booted, servers, missing>>
        /\ wrapper' = IF stagedWrapper # None THEN stagedWrapper ELSE wrapper
    BY <1>1, <1>7, ExecutesCases
  <2>2. QED BY <1>2, <1>3, <1>4, <2>1 DEF TInv, PatchingTypeOK, Taken
<1>8. CASE h.do = "remove"
  <2>1. /\ inbox' = <<Command("rewrap", h.on)>> \o Tail(inbox)
        /\ UNCHANGED <<onMqtt, doubt, wrapper, booted, servers, missing>>
        /\ onDevice' = onDevice \ {h.on}
    BY <1>1, <1>8, ExecutesCases
  <2>2. Command("rewrap", h.on) \in Commands
    BY <1>2 DEF Commands, Command, Dos
  <2>3. WayTyped'
    BY <1>2, <2>1, <2>2, SwapMoves DEF TInv
  <2>4. QED BY <1>2, <1>3, <2>1, <2>3 DEF TInv, PatchingTypeOK
<1>9. CASE h.do = "removeAll"
  <2>1. /\ onDevice' = onDevice \ {h.on} /\ wrapper' = None /\ booted' = {}
        /\ Boot(Tail(inbox))
    BY <1>1, <1>9, ExecutesCases
  <2>2. WayTyped' /\ doubt' \subseteq Everything /\ missing' \subseteq WithFiles /\ servers' = {}
    BY <1>2, <2>1, BootTyped
  <2>3. onDevice' \subseteq WithFiles /\ booted' \subseteq Patchers /\ wrapper' \in (SUBSET Patchers) \cup {None}
    BY <2>1 DEF TInv, PatchingTypeOK
  <2>4. servers' \subseteq {"bin", "tmp"}
    BY <2>2
  <2>5. QED BY <1>2, <1>3, <2>2, <2>3, <2>4 DEF TInv, PatchingTypeOK
<1>10. CASE h.do = "reboot"
  <2>1. /\ UNCHANGED <<onDevice, wrapper>> /\ Boot(Tail(inbox))
        /\ booted' = IF wrapper = None THEN {} ELSE wrapper
    BY <1>1, <1>10, ExecutesCases
  <2>2. WayTyped' /\ doubt' \subseteq Everything /\ missing' \subseteq WithFiles /\ servers' = {}
    BY <1>2, <2>1, BootTyped
  <2>3. booted' \subseteq Patchers
    BY <2>1 DEF TInv, PatchingTypeOK
  <2>4. onDevice' \subseteq WithFiles /\ wrapper' \in (SUBSET Patchers) \cup {None}
    BY <2>1 DEF TInv, PatchingTypeOK
  <2>5. servers' \subseteq {"bin", "tmp"}
    BY <2>2
  <2>6. QED BY <1>2, <1>3, <2>2, <2>3, <2>4, <2>5 DEF TInv, PatchingTypeOK
<1>11. h.do \in Dos
  BY <1>2 DEF Commands
<1>12. QED BY <1>5, <1>6, <1>7, <1>8, <1>9, <1>10, <1>11 DEF Dos

LEMMA TypesInit == PatchingInit => TInv
<1> SUFFICES ASSUME PatchingInit PROVE TInv
  OBVIOUS
<1>1. RunsOK
  BY DEF PatchingInit, RunsOK, Steps, Off
<1>2. PatchingTypeOK
  BY DEF PatchingInit, PatchingTypeOK, WithFiles, Everything
<1>3. WayTyped /\ nonces \in Nat
  BY DEF PatchingInit, WayTyped
<1>4. QED BY <1>1, <1>2, <1>3 DEF TInv

(* The rest of what may happen: troubles, and a heartbeat.                 *)
LEMMA TypesStep == TInv /\ [PatchingNext]_patchingVars => TInv'
<1> SUFFICES ASSUME TInv, [PatchingNext]_patchingVars PROVE TInv'
  OBVIOUS
<1>1. CASE \E r \in Jobs : Accepted(r)
  <2>1. PICK r \in Jobs : Accepted(r)
    BY <1>1
  <2>2. RunsOK'
    BY <2>1, AcceptedRuns DEF TInv
  <2>3. action' \in [Jobs -> {"apply", "remove"}] /\ patcher' \in [Jobs -> Patchers \cup {None}]
    BY <2>2 DEF RunsOK
  <2>4. QED BY <2>1, <2>2, <2>3 DEF Accepted, TInv, PatchingTypeOK, SendsNothing, deviceVars, ghosts, WayTyped
<1>2. CASE \E r \in Jobs : RunSteps(r)
  BY <1>2, RunTypes
<1>3. CASE TakesQueue
  <2>1. WayTyped'
    BY <1>3, TakenMoves DEF TakesQueue, TInv
  <2>2. QED BY <1>3, <2>1 DEF TakesQueue, TInv, PatchingTypeOK, runVars, deviceVars, ghosts, RunsOK, Off
<1>4. CASE Executes
  BY <1>4, ExecutesTyped
<1>5. CASE PowerCut
  <2>1. /\ UNCHANGED <<step, action, patcher, nonces, active, staged, stagedWrapper, queue, onDevice, wrapper>>
        /\ Boot(inbox) /\ booted' = IF wrapper = None THEN {} ELSE wrapper
    BY <1>5 DEF PowerCut, runVars
  <2>2. WayTyped' /\ doubt' \subseteq Everything /\ missing' \subseteq WithFiles /\ servers' \subseteq {"bin", "tmp"}
    BY <2>1, BootTyped
  <2>3. booted' \subseteq Patchers
    BY <2>1 DEF TInv, PatchingTypeOK
  <2>4. RunsOK'
    BY <2>1 DEF TInv, RunsOK, Off
  <2>5. QED BY <2>1, <2>2, <2>3, <2>4 DEF TInv, PatchingTypeOK
<1>6. CASE JoinsOrLeavesMqtt
  BY <1>6 DEF JoinsOrLeavesMqtt, TInv, PatchingTypeOK, runVars, deviceVars, ghosts, RunsOK, Off, WayTyped
<1>7. CASE CommandsLost
  <2>1. /\ UNCHANGED <<step, action, patcher, nonces, active, staged, stagedWrapper>>
        /\ UNCHANGED <<onDevice, wrapper, booted, servers>>
        /\ doubt' \subseteq Everything /\ missing' \subseteq WithFiles
    <3>1. /\ UNCHANGED <<step, action, patcher, nonces, active, staged, stagedWrapper>>
          /\ UNCHANGED <<onDevice, wrapper, booted, servers>>
      BY <1>7 DEF CommandsLost, runVars, deviceVars
    <3>2. PICK lost : Lost(lost)
      BY <1>7 DEF CommandsLost
    <3>3. QED BY <3>1, <3>2, LostTyped
  <2>2. WayTyped'
    <3>1. CASE inbox # <<>> /\ inbox' = Tail(inbox) /\ UNCHANGED queue
      BY <3>1, TailSifted DEF TInv, WayTyped
    <3>2. CASE queue' = <<>> /\ UNCHANGED inbox
      BY <3>2 DEF TInv, WayTyped
    <3>3. QED BY <1>7, <3>1, <3>2 DEF CommandsLost
  <2>3. RunsOK'
    BY <2>1 DEF TInv, RunsOK, Off
  <2>4. QED BY <2>1, <2>2, <2>3 DEF TInv, PatchingTypeOK
<1>8. CASE AddonRestarts
  <2>1. /\ UNCHANGED <<action, patcher, nonces, active, inbox, onDevice, wrapper, booted, servers>>
        /\ step' = [r \in Jobs |-> "idle"] /\ queue' = <<>> /\ staged' = {} /\ stagedWrapper' = None
        /\ doubt' \subseteq Everything /\ missing' \subseteq WithFiles
    BY <1>8 DEF AddonRestarts, deviceVars, Costs, TInv, PatchingTypeOK
  <2>2. RunsOK'
    BY <2>1 DEF TInv, RunsOK, Off, Steps
  <2>3. WayTyped'
    BY <2>1 DEF TInv, WayTyped
  <2>4. stagedWrapper' \in (SUBSET Patchers) \cup {None}
    BY <2>1
  <2>5. QED BY <2>1, <2>2, <2>3, <2>4 DEF TInv, PatchingTypeOK
<1>9. CASE UNCHANGED patchingVars
  BY <1>9 DEF patchingVars, TInv, PatchingTypeOK, runVars, deviceVars, ghosts, RunsOK, Off, WayTyped
<1>10. QED BY <1>1, <1>2, <1>3, <1>4, <1>5, <1>6, <1>7, <1>8, <1>9 DEF PatchingNext
-----------------------------------------------------------------------------
(* The files of a patcher the panel shows as applied, or is about to.      *)
Claimed(p) ==
    \/ p \in active
    \/ \E r \in Jobs : patcher[r] = p /\ action[r] = "apply" /\ step[r] \in {"delivering", "recording"}
Named(w) == IF w = None THEN {} ELSE w

(* What the panel shows: the last command about the wrapper brings the one *)
(* the active set was written with, and the last about a file its content. *)
WrapperFollows ==
    "wrapper" \notin doubt =>
        /\ NoneLeft(WrapperCommands) => active = Named(wrapper)
        /\ \A c \in OnTheWay : Latest(WrapperCommands, c) =>
             IF c.do = "removeAll" THEN active = {} ELSE stagedWrapper = active

FileFollows(p) ==
    p \notin doubt /\ Claimed(p) =>
        /\ NoneLeft(FileCommands(p)) => p \in onDevice
        /\ \A c \in OnTheWay : Latest(FileCommands(p), c) => c.do = "fetch" /\ p \in staged

(* What the device boots with.  A file that is claimed is not removed, and *)
(* is fetched before any wrapper; so is one the staged wrapper names; and  *)
(* what the device's own wrapper names is there, or the wrapper about to   *)
(* replace it does not name it.                                            *)
ClaimedIsSafe(p) ==
    Claimed(p) =>
        /\ NoneLeft(Removals(p)) /\ Never(Wraps, Fetches(p))
        /\ NoneLeft(Fetches(p)) => p \in onDevice
FetchedIsStaged(p) == ~NoneLeft(Fetches(p)) => p \in staged
StagedIsSafe(p) ==
    p \in Named(stagedWrapper) =>
        /\ NoneLeft(Removes(p)) /\ Never(Wraps, Fetches(p)) /\ Never(LastRemovals(p), Wraps)
        /\ ~NoneLeft(Wraps) /\ NoneLeft(Fetches(p)) => p \in onDevice
WrapperStaged(p) == stagedWrapper = None => NoneLeft(Removes(p))
NamedIsThere(p) == p \in Named(wrapper) => p \in onDevice \/ HalfRemoved(p)

Safe(p) == ClaimedIsSafe(p) /\ FetchedIsStaged(p) /\ StagedIsSafe(p) /\ WrapperStaged(p) /\ NamedIsThere(p)

PanelInv == WrapperFollows /\ \A p \in WithFiles : FileFollows(p)
BootInv == \A p \in WithFiles \ missing : Safe(p)

(* How the claims move.                                                    *)
LEMMA ClaimsStay ==
    ASSUME RunsOK, NEW p, active' = active, UNCHANGED <<step, action, patcher>>
    PROVE  Claimed(p)' <=> Claimed(p)
BY DEF Claimed

LEMMA ClaimsOf ==
    ASSUME TInv, NEW p \in WithFiles, NEW r \in Jobs, RunSteps(r), active' = active,
           ~(Stages(r) /\ patcher[r] = p)
    PROVE  Claimed(p)' => Claimed(p)
<1> SUFFICES ASSUME NEW q \in Jobs, patcher'[q] = p, action'[q] = "apply", step'[q] \in {"delivering", "recording"}
             PROVE  Claimed(p)
  BY DEF Claimed
<1>1. UNCHANGED <<patcher, action>>
  BY DEF RunSteps, Begins, Probes, Reads, Serves, Downloads, Stages, Drops, RecordsApply, RecordsRemove, Wrap,
         DropsWrapper, Reboots, SameRun
<1>2. CASE step[q] \in {"delivering", "recording"}
  BY <1>1, <1>2 DEF Claimed
<1>3. CASE step[q] \notin {"delivering", "recording"}
  <2>1. q = r
    BY <1>3, RunsStep
  <2>2. \A there : GoTo(r, there) => step'[r] = there
    BY DEF GoTo, TInv, RunsOK
  <2>3. CASE Reads(r)
    <3>1. PatchKind[p] # "camera"
      BY DEF WithFiles
    <3>2. PICK there \in {"idle", "recording", "serving", "space", "staging"} :
             GoTo(r, there) /\ (there = "recording" => action[r] = "remove" \/ PatchKind[patcher[r]] = "camera")
      BY <2>3, ReadsWhere DEF TInv
    <3>3. QED BY <1>1, <2>1, <2>2, <3>1, <3>2
  <2>4. CASE Stages(r)
    BY <1>1, <2>1, <2>4
  <2>5. CASE Drops(r)
    BY <1>3, <2>1, <2>5 DEF Drops, At
  <2>6. CASE Begins(r) \/ Probes(r) \/ Serves(r) \/ Downloads(r)
    <3>1. step'[r] \notin {"delivering", "recording"}
      BY <2>2, <2>6 DEF Begins, Probes, Serves, Downloads
    <3>2. QED BY <2>1, <3>1
  <2>7. CASE RecordsApply(r) \/ RecordsRemove(r) \/ DropsWrapper(r) \/ Reboots(r)
    <3>1. step'[r] \notin {"delivering", "recording"}
      BY <2>2, <2>7 DEF RecordsApply, RecordsRemove, Wrap, DropsWrapper, Reboots
    <3>2. QED BY <2>1, <3>1
  <2>8. QED BY <2>3, <2>4, <2>5, <2>6, <2>7 DEF RunSteps
<1>4. QED BY <1>2, <1>3

(* Once a run has recorded what it did, only what is active is claimed.    *)
LEMMA ClaimsRecorded ==
    ASSUME TInv, NEW p, NEW r \in Jobs, step[r] = "recording", RunSteps(r), Claimed(p)'
    PROVE  p \in active'
<1> SUFFICES ASSUME NEW q \in Jobs, step'[q] \in {"delivering", "recording"}
             PROVE  FALSE
  BY DEF Claimed
<1>1. CASE q = r
  <2>1. RecordsApply(r) \/ RecordsRemove(r)
    BY DEF RunSteps, Begins, Probes, Reads, Serves, Downloads, Stages, Drops, DropsWrapper, Reboots, At
  <2>2. step'[r] \in {"delivered", "idle"}
    BY <2>1 DEF RecordsApply, RecordsRemove, Wrap, GoTo, TInv, RunsOK
  <2>3. QED BY <1>1, <2>2
<1>2. CASE q # r
  BY <1>2, RunsStep DEF Off
<1>3. QED BY <1>1, <1>2

LEMMA ClaimsAccepted ==
    ASSUME TInv, NEW p, NEW r \in Jobs, Accepted(r)
    PROVE  Claimed(p)' <=> Claimed(p)
<1>1. active' = active
  BY DEF Accepted
<1>2. /\ step[r] \notin {"delivering", "recording"} /\ step'[r] \notin {"delivering", "recording"}
      /\ \A q \in Jobs \ {r} : step'[q] = step[q] /\ patcher'[q] = patcher[q] /\ action'[q] = action[q]
  BY AcceptedRuns DEF TInv, Off
<1>3. QED BY <1>1, <1>2 DEF Claimed
-----------------------------------------------------------------------------
(* What leaves the commands about p and the wrapper as they were.          *)
Held(K) ==
    /\ NoneLeft(K)' <=> NoneLeft(K)
    /\ \A d : Latest(K, d)' => Latest(K, d)
Same(K) == NoneLeft(K)' <=> NoneLeft(K)
WayKept(p) ==
    /\ NoMore(Wraps) /\ Same(Fetches(p)) /\ NoMore(Removals(p)) /\ NoMore(Removes(p))
    /\ Never(Wraps, Fetches(p)) => Never(Wraps, Fetches(p))'
    /\ Never(LastRemovals(p), Wraps) => Never(LastRemovals(p), Wraps)'
    /\ HalfRemoved(p) => HalfRemoved(p)'
AllKept(p) == WayKept(p) /\ Held(WrapperCommands) /\ Held(FileCommands(p))

LEMMA KindsFacts ==
    ASSUME NEW c \in Commands, NEW p
    PROVE  /\ c \in WrapperCommands <=> c.do \in {"wrap", "remove", "rewrap", "removeAll"}
           /\ c \in Wraps <=> c.do \in {"wrap", "remove", "rewrap"}
           /\ c \in FileCommands(p) <=> c.do \in {"fetch", "remove", "removeAll"} /\ c.on = p
           /\ c \in Fetches(p) <=> c.do = "fetch" /\ c.on = p
           /\ c \in Removals(p) <=> c.do \in {"remove", "rewrap", "removeAll"} /\ c.on = p
           /\ c \in Removes(p) <=> c.do \in {"remove", "rewrap"} /\ c.on = p
           /\ c \in LastRemovals(p) <=> c.do = "removeAll" /\ c.on = p
           /\ c \in OfAt({"rewrap"}, p) <=> c.do = "rewrap" /\ c.on = p
BY DEF WrapperCommands, Wraps, FileCommands, Fetches, Removals, Removes, LastRemovals, Of, OfAt

LEMMA PlainFacts ==
    ASSUME NEW c \in Commands, c.do \notin Content, NEW p
    PROVE  /\ c \notin WrapperCommands /\ c \notin Wraps /\ c \notin FileCommands(p) /\ c \notin Fetches(p)
           /\ c \notin Removals(p) /\ c \notin Removes(p) /\ c \notin LastRemovals(p)
BY KindsFacts DEF Content

(* Half a removal of p is one, and no other command is half of it.         *)
LEMMA HalvesFacts ==
    ASSUME TInv, NEW p
    PROVE  /\ HalfRemoved(p) => inbox # <<>> /\ Head(inbox).do = "rewrap" /\ Head(inbox).on = p
           /\ HalfRemoved(p) => ~NoneLeft(Removes(p)) /\ ~NoneLeft(Removals(p))
           /\ SameHead => (HalfRemoved(p) => HalfRemoved(p)')
<1>1. HalfRemoved(p) => inbox # <<>> /\ Head(inbox).do = "rewrap" /\ Head(inbox).on = p
  BY DEF HalfRemoved, OfAt
<1>2. HalfRemoved(p) => Head(inbox) \in OnTheWay /\ Head(inbox) \in Removes(p) /\ Head(inbox) \in Removals(p)
  <2>1. inbox # <<>> => Head(inbox) \in Among(inbox)
    BY DEF TInv, WayTyped, Among
  <2>2. QED BY <2>1 DEF HalfRemoved, OnTheWay, Removes, Removals, OfAt
<1>3. SameHead => (HalfRemoved(p) => HalfRemoved(p)')
  <2>1. OfAt({"rewrap"}, p)' = OfAt({"rewrap"}, p)
    BY DEF OfAt, Commands
  <2>2. QED BY <2>1 DEF HalfRemoved, SameHead
<1>4. QED BY <1>1, <1>2, <1>3, LeftIsOnTheWay

(* What a command sent does to files it costs nothing.                     *)
LEMMA SendBoots ==
    ASSUME TInv, NEW c \in Commands, Send(c), NEW p \in WithFiles \ missing'
    PROVE  /\ p \notin missing
           /\ \A K : NoneLeft(K)' <=> NoneLeft(K) /\ c \notin K
           /\ Never(Wraps, Fetches(p)) /\ c \notin Fetches(p) => Never(Wraps, Fetches(p))'
           /\ Never(LastRemovals(p), Wraps) /\ (NoneLeft(LastRemovals(p)) \/ c \notin Wraps) =>
                Never(LastRemovals(p), Wraps)'
           /\ HalfRemoved(p) => HalfRemoved(p)'
           /\ Overtakes => c \notin Fetches(p)
<1>0. WayTyped
  BY DEF TInv
<1>1. p \notin missing
  BY <1>0, SendMoves DEF Costs
<1>2. \A K : NoneLeft(K)' <=> NoneLeft(K) /\ c \notin K
  BY <1>0, SendMoves
<1>3. HalfRemoved(p) => HalfRemoved(p)'
  BY <1>0, SendMoves, HalvesFacts
<1>4. ASSUME Overtakes
      PROVE  c \notin Fetches(p) /\ c \notin LastRemovals(p) /\ NoneIn(queue, Fetches(p))
  <2>1. missing' = missing \cup (For(Among(queue) \cup {c}, {"fetch", "removeAll"}) \cap WithFiles)
    BY <1>0, <1>4, SendMoves DEF Costs
  <2>2. \A d \in Among(queue) \cup {c} : ~(d.do \in {"fetch", "removeAll"} /\ d.on = p)
    BY <2>1 DEF For
  <2>3. \A d \in Among(queue) : d \notin Fetches(p)
    BY <2>2 DEF Fetches, OfAt
  <2>4. QED BY <2>2, <2>3, AmongSifted, KindsFacts
<1>5. ASSUME Never(Wraps, Fetches(p)), c \notin Fetches(p) PROVE Never(Wraps, Fetches(p))'
  BY <1>0, <1>4, <1>5, SendMoves
<1>6. ASSUME Never(LastRemovals(p), Wraps), NoneLeft(LastRemovals(p)) \/ c \notin Wraps
      PROVE  Never(LastRemovals(p), Wraps)'
  BY <1>0, <1>4, <1>6, SendMoves
<1>7. QED BY <1>1, <1>2, <1>3, <1>4, <1>5, <1>6

(* A command of no content disturbs nothing, if it overtakes nothing.      *)
LEMMA SendKeeps ==
    ASSUME TInv, NEW do \in Dos \ Content, NEW on \in Nat \cup Patchers \cup {None}, Send(Command(do, on)), NEW p
    PROVE  /\ p \in WithFiles \ missing' => WayKept(p)
           /\ IF Overtakes THEN doubt' = Everything
              ELSE Held(WrapperCommands) /\ Held(FileCommands(p)) /\ UNCHANGED <<doubt, missing>>
           /\ missing \subseteq missing'
<1> DEFINE c == Command(do, on)
<1>1. c \in Commands /\ c.do = do /\ Send(c) /\ WayTyped
  BY CommandTyped DEF TInv
<1> HIDE DEF c
<1>2. p \in WithFiles \ missing' => WayKept(p)
  <2> SUFFICES ASSUME p \in WithFiles \ missing' PROVE WayKept(p)
    OBVIOUS
  <2>1. c \notin Wraps /\ c \notin Fetches(p) /\ c \notin Removals(p) /\ c \notin Removes(p)
    BY <1>1, PlainFacts
  <2>2. \A K : NoneLeft(K)' <=> NoneLeft(K) /\ c \notin K
    BY <1>1, SendBoots
  <2>3. /\ Never(Wraps, Fetches(p)) => Never(Wraps, Fetches(p))'
        /\ Never(LastRemovals(p), Wraps) => Never(LastRemovals(p), Wraps)'
        /\ HalfRemoved(p) => HalfRemoved(p)'
    BY <1>1, <2>1, SendBoots
  <2>4. QED BY <2>1, <2>2, <2>3 DEF WayKept, NoMore, Same
<1>3. CASE Overtakes
  <2>1. doubt' = Everything /\ missing \subseteq missing'
    BY <1>1, <1>3, SendMoves DEF Costs
  <2>2. QED BY <1>2, <1>3, <2>1
<1>4. CASE ~Overtakes
  <2>1. ASSUME NEW K, c \notin K PROVE Held(K)
    BY <1>1, <1>4, <2>1, SendMoves DEF Held
  <2>2. doubt' = doubt \ Settles(c) /\ missing' = missing \cup Early(c)
    BY <1>1, <1>4, SendMoves
  <2>3. Settles(c) = {} /\ Early(c) = {}
    BY <1>1 DEF Settles, Early, Content
  <2>4. Held(WrapperCommands) /\ Held(FileCommands(p))
    BY <1>1, <2>1, PlainFacts
  <2>5. QED BY <1>2, <1>4, <2>2, <2>3, <2>4
<1>5. QED BY <1>3, <1>4

LEMMA TakenKeeps ==
    ASSUME TInv, TakesQueue, NEW p
    PROVE  AllKept(p)
<1>1. inbox' = inbox \o queue /\ queue' = <<>> /\ WayTyped
  BY DEF TakesQueue, TInv
<1>2. ASSUME NEW K, NEW A
      PROVE  Held(K) /\ (Never(A, K) => Never(A, K)')
  BY <1>1, TakenMoves DEF Held
<1>3. HalfRemoved(p) => HalfRemoved(p)'
  BY <1>1, TakenMoves, HalvesFacts
<1>4. QED BY <1>2, <1>3 DEF AllKept, WayKept, Same, NoMore, Held

LEMMA IdleKeeps ==
    ASSUME UNCHANGED <<inbox, queue>>, NEW p
    PROVE  AllKept(p)
<1>1. inbox' = inbox /\ queue' = queue
  OBVIOUS
<1>2. ASSUME NEW K, NEW A
      PROVE  Held(K) /\ (Never(A, K) => Never(A, K)')
  BY <1>1 DEF Held, NoneLeft, Latest, Never
<1>3. HalfRemoved(p) => HalfRemoved(p)'
  BY <1>1 DEF HalfRemoved, OfAt, Commands
<1>4. QED BY <1>2, <1>3 DEF AllKept, WayKept, Same, NoMore, Held

LEMMA HeadKeeps ==
    ASSUME TInv, Taken, UNCHANGED queue, Head(inbox).do \notin Content, NEW p
    PROVE  AllKept(p)
<1>1. Head(inbox) \in Commands /\ WayTyped /\ inbox # <<>> /\ inbox' = Tail(inbox) /\ queue' = queue
  BY HeadMoves DEF Taken, TInv
<1>2. ASSUME NEW K, NEW A, Head(inbox) \notin K
      PROVE  Held(K) /\ (Never(A, K) => Never(A, K)')
  BY <1>1, <1>2, HeadMoves DEF Held
<1>3. ~HalfRemoved(p)
  BY HalvesFacts DEF Content
<1>4. QED BY <1>1, <1>2, <1>3, PlainFacts DEF AllKept, WayKept, Same, NoMore, Held

(* Commands lost cost what they were to fetch, and the wrapper whose fetch *)
(* was the other half of a removal; the rest is as it was.                 *)
LEMMA LostSpares ==
    ASSUME NEW told, Lost(told), NEW p \in WithFiles \ missing'
    PROVE  p \notin missing /\ \A c \in told : ~(c.do \in {"fetch", "rewrap"} /\ c.on = p)
<1>1. CASE \E c \in told : c.do \in Content
  <2>1. missing' = missing \cup (For(told, {"fetch", "rewrap"}) \cap WithFiles)
    BY <1>1 DEF Lost, Costs
  <2>2. QED BY <2>1 DEF For
<1>2. CASE ~\E c \in told : c.do \in Content
  <2>1. missing' = missing
    BY <1>2 DEF Lost, SpoilsNothing, ghosts
  <2>2. QED BY <1>2, <2>1 DEF Content
<1>3. QED BY <1>1, <1>2

LEMMA LossKeeps ==
    ASSUME TInv, NEW lost, Loses(lost), NEW p
    PROVE  /\ (\A c \in lost : ~(c.do \in {"fetch", "rewrap"} /\ c.on = p)) => WayKept(p)
           /\ (\A c \in lost : c.do \notin Content) => AllKept(p)
<1>0. WayTyped
  BY DEF TInv
<1>1. ASSUME \A c \in lost : ~(c.do \in {"fetch", "rewrap"} /\ c.on = p) PROVE WayKept(p)
  <2>1. NoMore(Wraps) /\ NoMore(Removals(p)) /\ NoMore(Removes(p))
    BY <1>0, LossMoves
  <2>2. /\ Never(Wraps, Fetches(p)) => Never(Wraps, Fetches(p))'
        /\ Never(LastRemovals(p), Wraps) => Never(LastRemovals(p), Wraps)'
    BY <1>0, LossMoves
  <2>3. \A c \in lost : c \notin Fetches(p)
    BY <1>1 DEF Fetches, OfAt
  <2>4. Same(Fetches(p))
    BY <1>0, <2>3, LossMoves DEF Same
  <2>5. HalfRemoved(p) => HalfRemoved(p)'
    <3> SUFFICES ASSUME HalfRemoved(p) PROVE HalfRemoved(p)'
      OBVIOUS
    <3>1. inbox # <<>> /\ Head(inbox) \notin lost
      BY <1>1, HalvesFacts
    <3>2. SameHead
      BY <1>0, <3>1, LossMoves DEF SameHead
    <3>3. QED BY <3>2, HalvesFacts
  <2>6. QED BY <2>1, <2>2, <2>4, <2>5 DEF WayKept
<1>2. ASSUME \A c \in lost : c.do \notin Content PROVE AllKept(p)
  <2>1. WayKept(p)
    BY <1>1, <1>2 DEF Content
  <2>2. \A c \in lost : c \notin WrapperCommands /\ c \notin FileCommands(p)
    BY <1>2 DEF WrapperCommands, FileCommands, Of, OfAt, Content
  <2>3. Held(WrapperCommands) /\ Held(FileCommands(p))
    BY <1>0, <2>2, LossMoves DEF Held
  <2>4. QED BY <2>1, <2>3 DEF AllKept
<1>3. QED BY <1>1, <1>2

(* Then files that stay where they are stay safe, and what the panel shows *)
(* stays true.                                                             *)
LEMMA SafeKept ==
    ASSUME NEW p, WayKept(p), Safe(p), UNCHANGED <<stagedWrapper, wrapper>>, Claimed(p)' => Claimed(p),
           p \in staged => p \in staged', p \in onDevice => p \in onDevice'
    PROVE  Safe(p)'
<1>1. ClaimedIsSafe(p)'
  BY DEF Safe, ClaimedIsSafe, WayKept, Same, NoMore
<1>2. FetchedIsStaged(p)'
  BY DEF Safe, FetchedIsStaged, WayKept, Same
<1>3. Named(stagedWrapper)' = Named(stagedWrapper) /\ Named(wrapper)' = Named(wrapper)
  OBVIOUS
<1>4. StagedIsSafe(p)'
  BY <1>3 DEF Safe, StagedIsSafe, WayKept, Same, NoMore
<1>5. WrapperStaged(p)'
  BY DEF Safe, WrapperStaged, WayKept, NoMore
<1>6. NamedIsThere(p)'
  BY <1>3 DEF Safe, NamedIsThere, WayKept
<1>7. QED BY <1>1, <1>2, <1>4, <1>5, <1>6 DEF Safe

LEMMA WrapperFollowsKept ==
    ASSUME Held(WrapperCommands), WrapperFollows, UNCHANGED <<active, stagedWrapper, wrapper>>,
           "wrapper" \notin doubt' => "wrapper" \notin doubt
    PROVE  WrapperFollows'
<1> SUFFICES ASSUME "wrapper" \notin doubt' PROVE WrapperFollows'
  BY DEF WrapperFollows
<1>1. NoneLeft(WrapperCommands)' => active' = Named(wrapper)'
  BY DEF WrapperFollows, Held, Named
<1>2. ASSUME NEW c, Latest(WrapperCommands, c)'
      PROVE  IF c.do = "removeAll" THEN active' = {} ELSE stagedWrapper' = active'
  <2>1. Latest(WrapperCommands, c)
    BY <1>2 DEF Held
  <2>2. c \in OnTheWay
    BY <2>1, LatestIsLeft
  <2>3. QED BY <2>1, <2>2 DEF WrapperFollows
<1>3. QED BY <1>1, <1>2 DEF WrapperFollows

LEMMA FileFollowsKept ==
    ASSUME NEW p, Held(FileCommands(p)), FileFollows(p), Claimed(p)' => Claimed(p),
           p \in staged => p \in staged', p \in onDevice => p \in onDevice', p \notin doubt' => p \notin doubt
    PROVE  FileFollows(p)'
<1> SUFFICES ASSUME p \notin doubt', Claimed(p)' PROVE FileFollows(p)'
  BY DEF FileFollows
<1>1. NoneLeft(FileCommands(p))' => p \in onDevice'
  BY DEF FileFollows, Held
<1>2. ASSUME NEW c, Latest(FileCommands(p), c)'
      PROVE  c.do = "fetch" /\ p \in staged'
  <2>1. Latest(FileCommands(p), c)
    BY <1>2 DEF Held
  <2>2. c \in OnTheWay
    BY <2>1, LatestIsLeft
  <2>3. QED BY <2>1, <2>2 DEF FileFollows
<1>3. QED BY <1>1, <1>2 DEF FileFollows
-----------------------------------------------------------------------------
(* The steps, one kind at a time.                                          *)
Both == PanelInv /\ BootInv

LEMMA SpoiltPanel ==
    ASSUME doubt' = Everything
    PROVE  PanelInv'
BY DEF PanelInv, WrapperFollows, FileFollows, Everything, WithFiles

LEMMA PanelKept ==
    ASSUME PanelInv, \A p : Held(WrapperCommands) /\ Held(FileCommands(p)), \A p \in WithFiles : Claimed(p)' => Claimed(p),
           UNCHANGED <<active, stagedWrapper, wrapper, doubt>>, staged \subseteq staged', onDevice \subseteq onDevice'
    PROVE  PanelInv'
<1>1. WrapperFollows'
  BY WrapperFollowsKept DEF PanelInv
<1>2. ASSUME NEW p \in WithFiles PROVE FileFollows(p)'
  BY FileFollowsKept DEF PanelInv
<1>3. WithFiles' = WithFiles
  BY DEF WithFiles
<1>4. QED BY <1>1, <1>2, <1>3 DEF PanelInv

LEMMA BootKept ==
    ASSUME BootInv, missing \subseteq missing', UNCHANGED <<stagedWrapper, wrapper>>,
           \A p \in WithFiles \ missing' : /\ WayKept(p) /\ (Claimed(p)' => Claimed(p))
                                           /\ p \in staged => p \in staged'
                                           /\ p \in onDevice => p \in onDevice'
    PROVE  BootInv'
<1>1. ASSUME NEW p \in WithFiles \ missing' PROVE Safe(p)'
  <2>1. Safe(p)
    BY DEF BootInv
  <2>2. QED BY <2>1, SafeKept
<1>2. WithFiles' = WithFiles
  BY DEF WithFiles
<1>3. QED BY <1>1, <1>2 DEF BootInv

LEMMA KeptHolds ==
    ASSUME Both, \A p : AllKept(p), \A p \in WithFiles : Claimed(p)' => Claimed(p),
           UNCHANGED <<active, stagedWrapper, wrapper, doubt, missing>>, staged \subseteq staged', onDevice \subseteq onDevice'
    PROVE  Both'
<1>1. PanelInv'
  BY PanelKept DEF Both, AllKept
<1>2. BootInv'
  BY BootKept DEF Both, AllKept
<1>3. QED BY <1>1, <1>2 DEF Both

LEMMA QuietHolds ==
    ASSUME Both, UNCHANGED <<inbox, queue>>, \A p \in WithFiles : Claimed(p)' => Claimed(p),
           UNCHANGED <<active, stagedWrapper, wrapper, doubt, missing>>, staged \subseteq staged', onDevice \subseteq onDevice'
    PROVE  Both'
<1>1. ASSUME NEW p PROVE AllKept(p)
  BY IdleKeeps
<1>2. QED BY <1>1, KeptHolds

(* Commands are lost, and nothing else happens to files or wrappers.       *)
LEMMA LossHolds ==
    ASSUME TInv, Both, NEW lost, Loses(lost), NEW told, Lost(told), \A c \in lost : c \in told \/ c.do \notin Content,
           \A p \in WithFiles : Claimed(p)' => Claimed(p),
           UNCHANGED <<active, staged, stagedWrapper, onDevice, wrapper>>
    PROVE  Both'
<1>1. missing \subseteq missing'
  BY LostTyped
<1>2. ASSUME NEW p \in WithFiles \ missing' PROVE WayKept(p)
  <2>1. \A c \in told : ~(c.do \in {"fetch", "rewrap"} /\ c.on = p)
    BY LostSpares
  <2>2. \A c \in lost : ~(c.do \in {"fetch", "rewrap"} /\ c.on = p)
    BY <2>1 DEF Content
  <2>3. QED BY <2>2, LossKeeps
<1>3. BootInv'
  BY <1>1, <1>2, BootKept DEF Both
<1>4. PanelInv'
  <2>1. CASE \E c \in told : c.do \in Content
    BY <2>1, SpoiltPanel DEF Lost, Costs
  <2>2. CASE ~\E c \in told : c.do \in Content
    <3>1. doubt' = doubt
      BY <2>2 DEF Lost, SpoilsNothing, ghosts
    <3>2. \A p : AllKept(p)
      BY <2>2, LossKeeps
    <3>3. QED BY <3>1, <3>2, PanelKept DEF Both, AllKept
  <2>3. QED BY <2>1, <2>2
<1>5. QED BY <1>3, <1>4 DEF Both

LEMMA SendHolds ==
    ASSUME TInv, Both, NEW do \in Dos \ Content, NEW on \in Nat \cup Patchers \cup {None}, Send(Command(do, on)),
           \A p \in WithFiles : Claimed(p)' => Claimed(p),
           UNCHANGED <<active, stagedWrapper, wrapper, staged, onDevice>>
    PROVE  Both'
<1>1. BootInv'
  <2>1. missing \subseteq missing' /\ \A p \in WithFiles \ missing' : WayKept(p)
    BY SendKeeps
  <2>2. QED BY <2>1, BootKept DEF Both
<1>2. PanelInv'
  <2>1. CASE Overtakes
    BY <2>1, SendKeeps, SpoiltPanel
  <2>2. CASE ~Overtakes
    <3>1. doubt' = doubt /\ \A p : Held(WrapperCommands) /\ Held(FileCommands(p))
      BY <2>2, SendKeeps
    <3>2. QED BY <3>1, PanelKept DEF Both
  <2>3. QED BY <2>1, <2>2
<1>3. QED BY <1>1, <1>2 DEF Both

(* A file is staged, and the command that fetches it sent.                 *)
LEMMA StagesHolds ==
    ASSUME TInv, Both, NEW r \in Jobs, Stages(r)
    PROVE  Both'
<1>0. PICK f \in WithFiles : f = patcher[r]
  BY DEF Stages, At, TInv, RunsOK, WithFiles
<1> DEFINE c == Command("fetch", f)
<1>1. /\ step[r] = "staging" /\ f \in WithFiles /\ staged' = staged \cup {f} /\ Send(c)
      /\ UNCHANGED <<active, stagedWrapper, wrapper, onDevice>>
  BY <1>0 DEF Stages, At, deviceVars
<1>2. c \in Commands /\ c.do = "fetch" /\ c.on = f /\ WayTyped
  <2>1. f \in Patchers
    BY <1>1 DEF WithFiles
  <2>2. QED BY <2>1, CommandTyped DEF Dos, TInv
<1> HIDE DEF c
<1>3. ASSUME NEW p \in WithFiles, p # f PROVE Claimed(p)' => Claimed(p)
  BY <1>0, <1>1, <1>3, ClaimsOf DEF RunSteps
<1>4. ASSUME NEW p, p # f
      PROVE  /\ c \notin WrapperCommands /\ c \notin Wraps /\ c \notin FileCommands(p) /\ c \notin Fetches(p)
             /\ c \notin Removals(p) /\ c \notin Removes(p) /\ c \notin LastRemovals(p)
  BY <1>2, <1>4, KindsFacts
<1>5. c \notin Wraps /\ c \in Fetches(f) /\ c \notin Removals(f) /\ c \notin Removes(f) /\ c \notin LastRemovals(f)
  BY <1>2, KindsFacts
(* The panel. *)
<1>6. PanelInv'
  <2>1. CASE Overtakes
    BY <1>1, <1>2, <2>1, SendMoves, SpoiltPanel DEF Costs
  <2>2. CASE ~Overtakes
    <3>1. ASSUME NEW K
          PROVE  /\ c \notin K => Held(K)
                 /\ c \in K => ~NoneLeft(K)' /\ \A d : Latest(K, d)' => d = c
      BY <1>1, <1>2, <2>2, SendMoves DEF Held
    <3>2. doubt' = doubt \ {f}
      <4>1. Settles(c) = {f}
        BY <1>2 DEF Settles
      <4>2. QED BY <1>1, <1>2, <2>2, <4>1, SendMoves
    <3>3. WrapperFollows'
      <4>1. f # "wrapper"
        BY <1>1, PatchingAssumption DEF WithFiles
      <4>2. Held(WrapperCommands)
        BY <1>2, <3>1, KindsFacts
      <4>3. "wrapper" \notin doubt' => "wrapper" \notin doubt
        BY <3>2, <4>1
      <4>4. QED BY <1>1, <4>2, <4>3, WrapperFollowsKept DEF Both, PanelInv
    <3>4. ASSUME NEW p \in WithFiles, p # f PROVE FileFollows(p)'
      <4>1. Claimed(p)' => Claimed(p)
        BY <1>3, <3>4
      <4>2. Held(FileCommands(p)) /\ FileFollows(p) /\ (p \notin doubt' => p \notin doubt)
        BY <1>4, <3>1, <3>2, <3>4 DEF Both, PanelInv
      <4>3. QED BY <1>1, <4>1, <4>2, FileFollowsKept
    <3>5. FileFollows(f)'
      <4>1. c \in FileCommands(f)
        BY <1>2, KindsFacts
      <4>2. ~NoneLeft(FileCommands(f))' /\ \A d : Latest(FileCommands(f), d)' => d = c
        BY <3>1, <4>1
      <4>3. QED BY <1>1, <1>2, <4>2 DEF FileFollows
    <3>6. WithFiles' = WithFiles
      BY DEF WithFiles
    <3>7. QED BY <3>3, <3>4, <3>5, <3>6 DEF PanelInv
  <2>3. QED BY <2>1, <2>2
(* The device. *)
<1>7. ASSUME NEW p \in WithFiles \ missing', p # f PROVE Safe(p)'
  <2>1. Claimed(p)' => Claimed(p)
    BY <1>3, <1>7
  <2>2. p \notin missing /\ \A K : NoneLeft(K)' <=> NoneLeft(K) /\ c \notin K
    BY <1>1, <1>2, SendBoots
  <2>3. WayKept(p)
    <3>1. /\ Never(Wraps, Fetches(p)) => Never(Wraps, Fetches(p))'
          /\ Never(LastRemovals(p), Wraps) => Never(LastRemovals(p), Wraps)'
          /\ HalfRemoved(p) => HalfRemoved(p)'
      BY <1>1, <1>2, <1>4, <1>7, SendBoots
    <3>2. QED BY <1>4, <1>7, <2>2, <3>1 DEF WayKept, NoMore, Same
  <2>4. Safe(p)
    BY <2>2 DEF Both, BootInv
  <2>5. QED BY <1>1, <2>1, <2>3, <2>4, SafeKept
<1>8. ASSUME f \in WithFiles \ missing' PROVE Safe(f)'
  <2>1. ~Overtakes
    BY <1>1, <1>2, <1>5, <1>8, SendBoots
  <2>2. missing' = missing \cup Early(c)
    BY <1>1, <1>2, <2>1, SendMoves
  <2>3. ~Pending({"wrap", "remove", "rewrap", "removeAll"})
    BY <1>2, <1>8, <2>2 DEF Early
  <2>4. \A d \in OnTheWay : d.do \notin {"wrap", "remove", "rewrap", "removeAll"}
    BY <2>3 DEF Pending
  <2>5. NoneLeft(Wraps) /\ NoneLeft(Removals(f)) /\ NoneLeft(Removes(f)) /\ NoneLeft(LastRemovals(f))
    <3>1. \A d \in OnTheWay : d \notin Wraps /\ d \notin Removals(f) /\ d \notin Removes(f) /\ d \notin LastRemovals(f)
      BY <2>4 DEF Of, OfAt, Wraps, Removals, Removes, LastRemovals
    <3>2. QED BY <3>1, LeftIsOnTheWay
  <2>6. ASSUME NEW K, NEW A
        PROVE  /\ NoneLeft(K)' <=> NoneLeft(K) /\ c \notin K
               /\ Never(A, K) /\ (NoneLeft(A) \/ c \notin K) => Never(A, K)'
    BY <1>1, <1>2, <2>1, SendMoves
  <2>7. NoneLeft(Wraps)' /\ NoneLeft(Removals(f))' /\ NoneLeft(Removes(f))' /\ ~NoneLeft(Fetches(f))'
    BY <1>5, <2>5, <2>6
  <2>8. Never(Wraps, Fetches(f))' /\ Never(LastRemovals(f), Wraps)'
    <3>1. Never(Wraps, Fetches(f)) /\ Never(LastRemovals(f), Wraps)
      BY <2>5, NeverNone
    <3>2. QED BY <2>5, <2>6, <3>1
  <2>9. NamedIsThere(f) /\ ~HalfRemoved(f)
    BY <1>8, <2>2, <2>5, HalvesFacts DEF Both, BootInv, Safe
  <2>10. NamedIsThere(f)'
    BY <1>1, <2>9 DEF NamedIsThere, Named
  <2>11. QED BY <1>1, <2>7, <2>8, <2>10 DEF Safe, ClaimedIsSafe, FetchedIsStaged, StagedIsSafe, WrapperStaged
<1>9. BootInv'
  <2>1. WithFiles' = WithFiles
    BY DEF WithFiles
  <2>2. QED BY <1>7, <1>8, <2>1 DEF BootInv
<1>10. QED BY <1>6, <1>9 DEF Both

(* A staged file is dropped, or kept.                                      *)
LEMMA DropsHolds ==
    ASSUME TInv, Both, NEW r \in Jobs, Drops(r)
    PROVE  Both'
<1>0. PICK f : f = patcher[r]
  OBVIOUS
<1>1. UNCHANGED <<inbox, queue, active, stagedWrapper, wrapper, onDevice>> /\ ~Stages(r)
  BY DEF Drops, Stages, At, SendsNothing, deviceVars
<1>2. ASSUME NEW p \in WithFiles PROVE Claimed(p)' => Claimed(p)
  BY <1>1, ClaimsOf DEF RunSteps
<1>3. CASE staged' = staged /\ SpoilsNothing
  BY <1>1, <1>2, <1>3, QuietHolds DEF SpoilsNothing, ghosts
<1>4. CASE staged' = staged \ {f} /\ Costs({f})
  <2>1. missing \subseteq missing' /\ doubt' = Everything
    BY <1>4 DEF Costs
  <2>2. ASSUME NEW p \in WithFiles \ missing'
        PROVE  WayKept(p) /\ (Claimed(p)' => Claimed(p)) /\ (p \in staged => p \in staged')
    <3>1. p # f
      BY <1>4, <2>2 DEF Costs
    <3>2. QED BY <1>1, <1>2, <1>4, <3>1, IdleKeeps DEF AllKept
  <2>3. BootInv'
    BY <1>1, <2>1, <2>2, BootKept DEF Both
  <2>4. QED BY <2>1, <2>3, SpoiltPanel DEF Both
<1>5. CASE staged' = staged \ {f} /\ ~Fetching(f) /\ SpoilsNothing
  <2>1. UNCHANGED <<doubt, missing>>
    BY <1>5 DEF SpoilsNothing, ghosts
  <2>2. ASSUME NEW p PROVE AllKept(p)
    BY <1>1, IdleKeeps
  <2>3. WrapperFollows'
    BY <1>1, <2>1, <2>2, WrapperFollowsKept DEF Both, PanelInv, AllKept
  <2>4. ASSUME NEW p \in WithFiles, p # f
        PROVE  FileFollows(p)' /\ (p \notin missing' => Safe(p)')
    <3>1. AllKept(p) /\ (Claimed(p)' => Claimed(p)) /\ (p \in staged => p \in staged') /\ FileFollows(p)
      BY <1>2, <1>5, <2>2, <2>4 DEF Both, PanelInv
    <3>2. FileFollows(p)'
      BY <1>1, <2>1, <3>1, FileFollowsKept DEF AllKept
    <3>3. ASSUME p \notin missing' PROVE Safe(p)'
      <4>1. Safe(p)
        BY <2>1, <3>3 DEF Both, BootInv
      <4>2. QED BY <1>1, <3>1, <4>1, SafeKept DEF AllKept
    <3>4. QED BY <3>2, <3>3
  <2>5. \A d \in OnTheWay : ~(d.do = "fetch" /\ d.on = f)
    BY <1>5 DEF Fetching
  <2>6. ASSUME f \in WithFiles PROVE FileFollows(f)'
    <3> SUFFICES ASSUME f \notin doubt, Claimed(f) PROVE FileFollows(f)'
      BY <1>2, <2>1, <2>6 DEF FileFollows
    <3>1. FileFollows(f)
      BY <2>6 DEF Both, PanelInv
    <3>2. ASSUME NEW d, Latest(FileCommands(f), d)' PROVE FALSE
      <4>1. Latest(FileCommands(f), d)
        BY <2>2, <3>2 DEF AllKept, Held
      <4>2. d \in OnTheWay /\ d \in FileCommands(f)
        BY <4>1, LatestIsLeft
      <4>3. d.do = "fetch" /\ d.on = f
        BY <3>1, <4>1, <4>2 DEF FileFollows, FileCommands, OfAt
      <4>4. QED BY <2>5, <4>2, <4>3
    <3>3. NoneLeft(FileCommands(f))' => f \in onDevice'
      BY <1>1, <2>2, <3>1 DEF FileFollows, AllKept, Held
    <3>4. QED BY <3>2, <3>3 DEF FileFollows
  <2>7. ASSUME f \in WithFiles \ missing' PROVE Safe(f)'
    <3>1. Safe(f) /\ WayKept(f) /\ (Claimed(f)' => Claimed(f))
      BY <1>2, <2>1, <2>2, <2>7 DEF Both, BootInv, AllKept
    <3>2. NoneLeft(Fetches(f))
      <4>1. \A d \in OnTheWay : d \notin Fetches(f)
        BY <2>5 DEF Fetches, OfAt
      <4>2. QED BY <4>1, LeftIsOnTheWay
    <3>3. FetchedIsStaged(f)'
      BY <3>1, <3>2 DEF FetchedIsStaged, WayKept, Same
    <3>4. Named(stagedWrapper)' = Named(stagedWrapper) /\ Named(wrapper)' = Named(wrapper)
      BY <1>1
    <3>5. ClaimedIsSafe(f)' /\ WrapperStaged(f)'
      BY <1>1, <3>1 DEF Safe, ClaimedIsSafe, WrapperStaged, WayKept, Same, NoMore
    <3>6. StagedIsSafe(f)' /\ NamedIsThere(f)'
      BY <1>1, <3>1, <3>4 DEF Safe, StagedIsSafe, NamedIsThere, WayKept, Same, NoMore
    <3>7. QED BY <3>3, <3>5, <3>6 DEF Safe
  <2>8. WithFiles' = WithFiles
    BY DEF WithFiles
  <2>9. QED BY <2>3, <2>4, <2>6, <2>7, <2>8 DEF Both, PanelInv, BootInv
<1>6. QED BY <1>0, <1>3, <1>4, <1>5 DEF Drops

(* A run records what it did: a wrapper of all that is active, and the     *)
(* command that fetches it.                                                *)
LEMMA WrapHolds ==
    ASSUME TInv, Both, NEW r \in Jobs, RunSteps(r), step[r] = "recording", NEW f \in Patchers, f = patcher[r],
           NEW set \in SUBSET Patchers, NEW do \in {"wrap", "remove"}, Wrap(r, set, do),
           do = "wrap" => action[r] = "apply" /\ set = active \cup {f},
           do = "remove" => set = active \ {f}
    PROVE  Both'
<1> DEFINE c == Command(do, f)
<1>1. /\ active' = set /\ stagedWrapper' = set /\ Send(c)
      /\ UNCHANGED <<staged, wrapper, onDevice>>
  BY DEF Wrap, deviceVars
<1>2. c \in Commands /\ c.do = do /\ c.on = f /\ WayTyped
  <2>1. do \in Dos /\ f \in Nat \cup Patchers \cup {None}
    BY DEF Dos
  <2>2. QED BY <2>1, CommandTyped DEF TInv
<1> HIDE DEF c
<1>3. ASSUME NEW p, p \in set
      PROVE  Claimed(p) /\ (do = "remove" => p # f)
  <2>1. CASE do = "wrap"
    BY <1>3, <2>1 DEF Claimed
  <2>2. CASE do = "remove"
    BY <1>3, <2>2 DEF Claimed
  <2>3. QED BY <2>1, <2>2
<1>4. ASSUME NEW p, Claimed(p)' PROVE p \in set
  BY <1>1, <1>4, ClaimsRecorded
<1>5. ASSUME NEW p, do = "remove" => p # f
      PROVE  /\ c \notin FileCommands(p) /\ c \notin Fetches(p) /\ c \notin Removals(p)
             /\ c \notin Removes(p) /\ c \notin LastRemovals(p)
  BY <1>2, <1>5, KindsFacts
(* The panel. *)
<1>6. PanelInv'
  <2>1. CASE Overtakes
    BY <1>1, <1>2, <2>1, SendMoves, SpoiltPanel DEF Costs
  <2>2. CASE ~Overtakes
    <3>1. ASSUME NEW K
          PROVE  /\ c \notin K => Held(K)
                 /\ c \in K => ~NoneLeft(K)' /\ \A d : Latest(K, d)' => d = c
      BY <1>1, <1>2, <2>2, SendMoves DEF Held
    <3>2. doubt' = doubt \ {"wrapper"}
      <4>1. Settles(c) = {"wrapper"}
        BY <1>2 DEF Settles
      <4>2. QED BY <1>1, <1>2, <2>2, <4>1, SendMoves
    <3>3. WrapperFollows'
      <4>1. c \in WrapperCommands /\ c.do # "removeAll"
        BY <1>2, KindsFacts
      <4>2. ~NoneLeft(WrapperCommands)' /\ \A d : Latest(WrapperCommands, d)' => d = c
        BY <3>1, <4>1
      <4>3. QED BY <1>1, <4>1, <4>2 DEF WrapperFollows
    <3>4. ASSUME NEW p \in WithFiles PROVE FileFollows(p)'
      <4> SUFFICES ASSUME p \notin doubt', Claimed(p)' PROVE FileFollows(p)'
        BY DEF FileFollows
      <4>1. p \in set
        BY <1>4
      <4>2. Claimed(p) /\ Held(FileCommands(p))
        BY <1>3, <1>5, <3>1, <4>1
      <4>3. p \notin doubt
        BY <3>2, PatchingAssumption DEF WithFiles
      <4>4. FileFollows(p)
        BY DEF Both, PanelInv
      <4>5. QED BY <1>1, <4>2, <4>3, <4>4, FileFollowsKept
    <3>5. WithFiles' = WithFiles
      BY DEF WithFiles
    <3>6. QED BY <3>3, <3>4, <3>5 DEF PanelInv
  <2>3. QED BY <2>1, <2>2
(* The device. *)
<1>7. ASSUME NEW p \in WithFiles \ missing' PROVE Safe(p)'
  <2>1. p \notin missing /\ \A K : NoneLeft(K)' <=> NoneLeft(K) /\ c \notin K
    BY <1>1, <1>2, SendBoots
  <2>2. Safe(p)
    BY <2>1 DEF Both, BootInv
  <2>3. c \notin Fetches(p)
    BY <1>2, KindsFacts
  <2>4. (NoneLeft(Fetches(p))' <=> NoneLeft(Fetches(p))) /\ (Never(Wraps, Fetches(p)) => Never(Wraps, Fetches(p))')
    BY <1>1, <1>2, <2>1, <2>3, SendBoots
  <2>5. FetchedIsStaged(p)'
    BY <1>1, <2>2, <2>4 DEF Safe, FetchedIsStaged
  <2>6. WrapperStaged(p)'
    BY <1>1, PatchingAssumption DEF WrapperStaged
  <2>7. Named(stagedWrapper)' = set
    BY <1>1, PatchingAssumption DEF Named
  <2>8. NamedIsThere(p)'
    <3>1. HalfRemoved(p) => HalfRemoved(p)'
      BY <1>1, <1>2, SendBoots
    <3>2. QED BY <1>1, <2>2, <3>1 DEF Safe, NamedIsThere, Named
  <2>9. CASE p \in set
    <3>1. Claimed(p) /\ c \notin Removals(p) /\ c \notin Removes(p)
      BY <1>3, <1>5, <2>9
    <3>2. /\ NoneLeft(Removals(p)) /\ Never(Wraps, Fetches(p))
          /\ NoneLeft(Fetches(p)) => p \in onDevice
      BY <2>2, <3>1 DEF Safe, ClaimedIsSafe
    <3>3. NoneLeft(Removes(p)) /\ NoneLeft(LastRemovals(p))
      BY <3>2, LeftIsOnTheWay DEF Removals, Removes, LastRemovals, OfAt
    <3>4. NoneLeft(Removals(p))' /\ NoneLeft(Removes(p))'
      BY <2>1, <3>1, <3>2, <3>3
    <3>5. Never(LastRemovals(p), Wraps)'
      <4>1. Never(LastRemovals(p), Wraps)
        BY <3>3, NeverNone
      <4>2. QED BY <1>1, <1>2, <3>3, <4>1, SendBoots
    <3>6. NoneLeft(Fetches(p))' => p \in onDevice'
      BY <1>1, <2>4, <3>2
    <3>7. ClaimedIsSafe(p)' /\ StagedIsSafe(p)'
      BY <2>4, <3>2, <3>4, <3>5, <3>6 DEF ClaimedIsSafe, StagedIsSafe
    <3>8. QED BY <2>5, <2>6, <2>8, <3>7 DEF Safe
  <2>10. CASE p \notin set
    <3>1. ClaimedIsSafe(p)'
      BY <1>4, <2>10 DEF ClaimedIsSafe
    <3>2. StagedIsSafe(p)'
      BY <2>7, <2>10 DEF StagedIsSafe
    <3>3. QED BY <2>5, <2>6, <2>8, <3>1, <3>2 DEF Safe
  <2>11. QED BY <2>9, <2>10
<1>8. BootInv'
  <2>1. WithFiles' = WithFiles
    BY DEF WithFiles
  <2>2. QED BY <1>7, <2>1 DEF BootInv
<1>9. QED BY <1>6, <1>8 DEF Both

(* The last patcher goes, and the wrapper with it.                         *)
LEMMA RemoveAllHolds ==
    ASSUME TInv, Both, NEW r \in Jobs, RunSteps(r), step[r] = "recording", NEW f \in Patchers,
           Send(Command("removeAll", f)), active' = {}, UNCHANGED <<staged, stagedWrapper, wrapper, onDevice>>
    PROVE  Both'
<1> DEFINE c == Command("removeAll", f)
<1>1. c \in Commands /\ c.do = "removeAll" /\ c.on = f /\ WayTyped /\ Send(c)
  BY CommandTyped DEF Dos, TInv
<1> HIDE DEF c
<1>2. ASSUME NEW p PROVE ~Claimed(p)'
  BY ClaimsRecorded
<1>3. PanelInv'
  <2>1. CASE Overtakes
    BY <1>1, <2>1, SendMoves, SpoiltPanel DEF Costs
  <2>2. CASE ~Overtakes
    <3>1. c \in WrapperCommands
      BY <1>1, KindsFacts
    <3>2. ~NoneLeft(WrapperCommands)' /\ \A d : Latest(WrapperCommands, d)' => d = c
      BY <1>1, <2>2, <3>1, SendMoves
    <3>3. WrapperFollows'
      BY <1>1, <3>2 DEF WrapperFollows
    <3>4. WithFiles' = WithFiles
      BY DEF WithFiles
    <3>5. QED BY <1>2, <3>3, <3>4 DEF PanelInv, FileFollows
  <2>3. QED BY <2>1, <2>2
<1>4. ASSUME NEW p \in WithFiles \ missing' PROVE Safe(p)'
  <2>1. p \notin missing /\ \A K : NoneLeft(K)' <=> NoneLeft(K) /\ c \notin K
    BY <1>1, SendBoots
  <2>2. Safe(p)
    BY <2>1 DEF Both, BootInv
  <2>3. c \notin Wraps /\ c \notin Fetches(p) /\ c \notin Removes(p)
    BY <1>1, KindsFacts
  <2>4. /\ NoneLeft(Wraps)' <=> NoneLeft(Wraps)
        /\ NoneLeft(Fetches(p))' <=> NoneLeft(Fetches(p))
        /\ NoneLeft(Removes(p))' <=> NoneLeft(Removes(p))
    BY <2>1, <2>3
  <2>5. /\ Never(Wraps, Fetches(p)) => Never(Wraps, Fetches(p))'
        /\ Never(LastRemovals(p), Wraps) => Never(LastRemovals(p), Wraps)'
        /\ HalfRemoved(p) => HalfRemoved(p)'
    BY <1>1, <2>3, SendBoots
  <2>6. Named(stagedWrapper)' = Named(stagedWrapper) /\ Named(wrapper)' = Named(wrapper)
    OBVIOUS
  <2>7. ClaimedIsSafe(p)'
    BY <1>2 DEF ClaimedIsSafe
  <2>8. FetchedIsStaged(p)' /\ WrapperStaged(p)'
    BY <2>2, <2>4 DEF Safe, FetchedIsStaged, WrapperStaged
  <2>9. StagedIsSafe(p)'
    BY <2>2, <2>4, <2>5, <2>6 DEF Safe, StagedIsSafe
  <2>10. NamedIsThere(p)'
    BY <2>2, <2>5, <2>6 DEF Safe, NamedIsThere
  <2>11. QED BY <2>7, <2>8, <2>9, <2>10 DEF Safe
<1>5. BootInv'
  <2>1. WithFiles' = WithFiles
    BY DEF WithFiles
  <2>2. QED BY <1>4, <2>1 DEF BootInv
<1>6. QED BY <1>3, <1>5 DEF Both

(* The staged wrapper is dropped, or kept.                                 *)
LEMMA DropsWrapperHolds ==
    ASSUME TInv, Both, NEW r \in Jobs, DropsWrapper(r)
    PROVE  Both'
<1>1. UNCHANGED <<inbox, queue, active, staged, wrapper, onDevice>> /\ ~Stages(r)
  BY DEF DropsWrapper, Stages, At, SendsNothing, deviceVars
<1>2. ASSUME NEW p \in WithFiles PROVE Claimed(p)' => Claimed(p)
  BY <1>1, ClaimsOf DEF RunSteps
<1>3. CASE stagedWrapper' = stagedWrapper /\ SpoilsNothing
  BY <1>1, <1>2, <1>3, QuietHolds DEF SpoilsNothing, ghosts
<1>4. ASSUME stagedWrapper' = None, missing \subseteq missing', \A p \in WithFiles \ missing' : NoneLeft(Removes(p))
      PROVE  BootInv'
  <2>1. ASSUME NEW p \in WithFiles \ missing' PROVE Safe(p)'
    <3>1. Safe(p) /\ WayKept(p) /\ (Claimed(p)' => Claimed(p))
      BY <1>1, <1>2, <1>4, <2>1, IdleKeeps DEF Both, BootInv, AllKept
    <3>2. ClaimedIsSafe(p)' /\ FetchedIsStaged(p)'
      BY <1>1, <3>1 DEF Safe, ClaimedIsSafe, FetchedIsStaged, WayKept, Same, NoMore
    <3>3. Named(stagedWrapper)' = {}
      BY <1>4 DEF Named
    <3>4. StagedIsSafe(p)'
      BY <3>3 DEF StagedIsSafe
    <3>5. WrapperStaged(p)'
      BY <1>4, <3>1 DEF WrapperStaged, WayKept, NoMore
    <3>6. NamedIsThere(p)'
      BY <1>1, <3>1 DEF Safe, NamedIsThere, Named, WayKept
    <3>7. QED BY <3>2, <3>4, <3>5, <3>6 DEF Safe
  <2>2. WithFiles' = WithFiles
    BY DEF WithFiles
  <2>3. QED BY <2>1, <2>2 DEF BootInv
<1>5. CASE stagedWrapper' = None /\ Costs(For(OnTheWay, {"remove", "rewrap"}))
  <2>1. doubt' = Everything /\ missing' = missing \cup (For(OnTheWay, {"remove", "rewrap"}) \cap WithFiles)
    BY <1>5 DEF Costs
  <2>2. ASSUME NEW p \in WithFiles \ missing' PROVE NoneLeft(Removes(p))
    <3>1. \A d \in OnTheWay : d \notin Removes(p)
      BY <2>1, <2>2 DEF For, Removes, OfAt
    <3>2. QED BY <3>1, LeftIsOnTheWay
  <2>3. BootInv'
    BY <1>4, <1>5, <2>1, <2>2
  <2>4. QED BY <2>1, <2>3, SpoiltPanel DEF Both
<1>6. CASE stagedWrapper' = None /\ ~Pending({"wrap", "remove", "rewrap"}) /\ SpoilsNothing
  <2>1. UNCHANGED <<doubt, missing>>
    BY <1>6 DEF SpoilsNothing, ghosts
  <2>2. ASSUME NEW p PROVE AllKept(p)
    BY <1>1, IdleKeeps
  <2>3. \A c \in OnTheWay : c.do \notin {"wrap", "remove", "rewrap"}
    BY <1>6 DEF Pending
  <2>4. BootInv'
    <3>1. ASSUME NEW p PROVE NoneLeft(Removes(p))
      <4>1. \A c \in OnTheWay : c \notin Removes(p)
        BY <2>3 DEF Removes, OfAt
      <4>2. QED BY <4>1, LeftIsOnTheWay
    <3>2. QED BY <1>4, <1>6, <2>1, <3>1
  <2>5. WrapperFollows'
    <3> SUFFICES ASSUME "wrapper" \notin doubt' PROVE WrapperFollows'
      BY DEF WrapperFollows
    <3>1. NoneLeft(WrapperCommands)' => active' = Named(wrapper)'
      BY <1>1, <2>1, <2>2 DEF Both, PanelInv, WrapperFollows, AllKept, Held, Named
    <3>2. ASSUME NEW c, Latest(WrapperCommands, c)' PROVE c.do = "removeAll" /\ active' = {}
      <4>1. Latest(WrapperCommands, c)
        BY <2>2, <3>2 DEF AllKept, Held
      <4>2. c \in OnTheWay /\ c \in WrapperCommands
        BY <4>1, LatestIsLeft
      <4>3. c.do = "removeAll"
        BY <2>3, <4>2 DEF WrapperCommands, Of
      <4>4. QED BY <1>1, <2>1, <4>1, <4>2, <4>3 DEF Both, PanelInv, WrapperFollows
    <3>3. QED BY <3>1, <3>2 DEF WrapperFollows
  <2>6. ASSUME NEW p \in WithFiles PROVE FileFollows(p)'
    BY <1>1, <1>2, <2>1, <2>2, FileFollowsKept DEF Both, PanelInv, AllKept
  <2>7. WithFiles' = WithFiles
    BY DEF WithFiles
  <2>8. QED BY <2>4, <2>5, <2>6, <2>7 DEF Both, PanelInv
<1>7. QED BY <1>3, <1>5, <1>6 DEF DropsWrapper

(* The device fetches a file.                                              *)
LEMMA FetchHolds ==
    ASSUME TInv, Both, NEW h \in Commands, h = Head(inbox), h.do = "fetch", Taken,
           UNCHANGED <<step, action, patcher, active, staged, stagedWrapper, queue, wrapper>>,
           onDevice' = IF h.on \in staged THEN onDevice \cup {h.on} ELSE onDevice,
           missing' = IF h.on \in staged /\ Steady(Tail(inbox)) THEN missing \ {h.on} ELSE missing
    PROVE  Both'
<1>1. WayTyped /\ inbox # <<>> /\ inbox' = Tail(inbox) /\ queue' = queue /\ doubt' = doubt
  BY DEF TInv, Taken
<1>2. ASSUME NEW K, NEW A
      PROVE  /\ NoneLeft(K) <=> h \notin K /\ NoneLeft(K)'
             /\ \A d : Latest(K, d)' => Latest(K, d)
             /\ h \in K /\ NoneLeft(K)' => Latest(K, h)
             /\ Never(A, K) => Never(A, K)'
  BY <1>1, HeadMoves
<1>3. ASSUME NEW p PROVE Claimed(p)' <=> Claimed(p)
  BY DEF Claimed
<1>4. h \notin WrapperCommands /\ h \notin Wraps
  BY KindsFacts
<1>5. ASSUME NEW p PROVE ~HalfRemoved(p)
  BY HalvesFacts
<1>6. WrapperFollows'
  <2>1. Held(WrapperCommands)
    BY <1>2, <1>4 DEF Held
  <2>2. QED BY <1>1, <2>1, WrapperFollowsKept DEF Both, PanelInv
<1>7. h \in OnTheWay
  BY <1>1 DEF OnTheWay, Among, WayTyped
<1>8. ASSUME NEW p \in WithFiles PROVE FileFollows(p)'
  <2> SUFFICES ASSUME p \notin doubt', Claimed(p)' PROVE FileFollows(p)'
    BY DEF FileFollows
  <2>1. FileFollows(p) /\ p \notin doubt /\ Claimed(p)
    BY <1>1, <1>3 DEF Both, PanelInv
  <2>2. ASSUME NEW d, Latest(FileCommands(p), d)' PROVE d.do = "fetch" /\ p \in staged'
    <3>1. Latest(FileCommands(p), d)
      BY <1>2, <2>2
    <3>2. d \in OnTheWay
      BY <3>1, LatestIsLeft
    <3>3. QED BY <2>1, <3>1, <3>2 DEF FileFollows
  <2>3. ASSUME NoneLeft(FileCommands(p))' PROVE p \in onDevice'
    <3>1. CASE h \in FileCommands(p)
      <4>1. Latest(FileCommands(p), h)
        BY <1>2, <2>3, <3>1
      <4>2. p \in staged
        BY <1>7, <2>1, <4>1 DEF FileFollows
      <4>3. h.on = p
        BY <3>1, KindsFacts
      <4>4. QED BY <4>2, <4>3
    <3>2. CASE h \notin FileCommands(p)
      <4>1. NoneLeft(FileCommands(p))
        BY <1>2, <2>3, <3>2
      <4>2. QED BY <2>1, <4>1 DEF FileFollows
    <3>3. QED BY <3>1, <3>2
  <2>4. QED BY <2>2, <2>3 DEF FileFollows
<1>9. ASSUME NEW p \in WithFiles \ missing' PROVE Safe(p)'
  <2>1. Named(stagedWrapper)' = Named(stagedWrapper) /\ Named(wrapper)' = Named(wrapper)
    OBVIOUS
  <2>2. CASE p \in missing
    <3>1. h.on = p /\ p \in staged /\ Steady(Tail(inbox)) /\ p \in onDevice'
      BY <1>9, <2>2
    <3>2. \A d \in OnTheWay' : d.do \notin {"fetch", "remove", "rewrap", "removeAll"}
      <4>1. \A d \in Among(Tail(inbox)) \cup Among(queue) : d.do \notin {"fetch", "remove", "rewrap", "removeAll"}
        BY <3>1 DEF Steady
      <4>2. OnTheWay' = Among(Tail(inbox)) \cup Among(queue)
        BY <1>1 DEF OnTheWay, Among
      <4>3. QED BY <4>1, <4>2
    <3>3. ASSUME NEW K, \A d \in OnTheWay' : d \notin K PROVE NoneLeft(K)'
      <4>1. NoneIn(inbox', K) /\ NoneIn(queue', K)
        BY <3>3, AmongSifted DEF OnTheWay
      <4>2. QED BY <4>1 DEF NoneLeft
    <3>4. NoneLeft(Fetches(p))' /\ NoneLeft(Removals(p))' /\ NoneLeft(Removes(p))' /\ NoneLeft(LastRemovals(p))'
      <4>1. \A d \in OnTheWay' : d \notin Fetches(p) /\ d \notin Removals(p) /\ d \notin Removes(p) /\ d \notin LastRemovals(p)
        BY <3>2 DEF Fetches, Removals, Removes, LastRemovals, OfAt
      <4>2. QED BY <3>3, <4>1
    <3>6. Never(Wraps, Fetches(p))' /\ Never(LastRemovals(p), Wraps)'
      <4>1. ASSUME NEW K, NEW A PROVE NoneLeft(K)' \/ NoneLeft(A)' => Never(A, K)'
        <5>1. (NoneLeft(K) \/ NoneLeft(A) => Never(A, K))'
          BY NeverNone, PTL
        <5>2. QED BY <5>1
      <4>2. QED BY <3>4, <4>1
    <3>7. QED
      BY <3>1, <3>4, <3>6 DEF Safe, ClaimedIsSafe, FetchedIsStaged, StagedIsSafe, WrapperStaged, NamedIsThere
  <2>3. CASE p \notin missing
    <3>1. Safe(p)
      BY <2>3 DEF Both, BootInv
    <3>2. h \notin Removals(p) /\ h \notin Removes(p)
      BY KindsFacts
    <3>3. Same(Wraps) /\ Same(Removals(p)) /\ Same(Removes(p))
      BY <1>2, <1>4, <3>2 DEF Same
    <3>4. /\ Never(Wraps, Fetches(p)) => Never(Wraps, Fetches(p))'
          /\ Never(LastRemovals(p), Wraps) => Never(LastRemovals(p), Wraps)'
      BY <1>2
    <3>5. CASE h \notin Fetches(p)
      <4>1. WayKept(p)
        BY <1>2, <1>5, <3>3, <3>4, <3>5 DEF WayKept, Same, NoMore
      <4>2. QED BY <1>3, <3>1, <4>1, SafeKept
    <3>6. CASE h \in Fetches(p)
      <4>1. p \in staged /\ h.on = p
        BY <1>2, <3>1, <3>6, KindsFacts DEF Safe, FetchedIsStaged
      <4>2. p \in onDevice'
        BY <4>1
      <4>3. ClaimedIsSafe(p)' /\ FetchedIsStaged(p)' /\ WrapperStaged(p)'
        BY <1>3, <3>1, <3>3, <3>4, <4>1, <4>2 DEF Safe, ClaimedIsSafe, FetchedIsStaged, WrapperStaged, Same
      <4>4. StagedIsSafe(p)' /\ NamedIsThere(p)'
        BY <2>1, <3>1, <3>3, <3>4, <4>2 DEF Safe, StagedIsSafe, NamedIsThere, Same
      <4>5. QED BY <4>3, <4>4 DEF Safe
    <3>7. QED BY <3>5, <3>6
  <2>4. QED BY <2>2, <2>3
<1>10. WithFiles' = WithFiles
  BY DEF WithFiles
<1>11. QED BY <1>6, <1>8, <1>9, <1>10 DEF Both, PanelInv, BootInv

(* It fetches a wrapper.                                                   *)
LEMMA WrappedHolds ==
    ASSUME TInv, Both, NEW h \in Commands, h = Head(inbox), h.do \in {"wrap", "rewrap"}, Taken,
           UNCHANGED <<step, action, patcher, active, staged, stagedWrapper, queue, onDevice, missing>>,
           wrapper' = IF stagedWrapper # None THEN stagedWrapper ELSE wrapper
    PROVE  Both'
<1>1. WayTyped /\ inbox # <<>> /\ inbox' = Tail(inbox) /\ queue' = queue /\ doubt' = doubt
  BY DEF TInv, Taken
<1>2. ASSUME NEW K, NEW A
      PROVE  /\ NoneLeft(K) <=> h \notin K /\ NoneLeft(K)'
             /\ \A d : Latest(K, d)' => Latest(K, d)
             /\ h \in K /\ NoneLeft(K)' => Latest(K, h)
             /\ Never(A, K) => Never(A, K)'
             /\ Never(A, K) /\ h \in A => NoneLeft(K)'
  BY <1>1, HeadMoves
<1>3. ASSUME NEW p PROVE Claimed(p)' <=> Claimed(p)
  BY DEF Claimed
<1>4. h \in WrapperCommands /\ h \in Wraps /\ h \in OnTheWay
  BY <1>1, KindsFacts DEF OnTheWay, Among, WayTyped
<1>5. WrapperFollows'
  <2> SUFFICES ASSUME "wrapper" \notin doubt' PROVE WrapperFollows'
    BY DEF WrapperFollows
  <2>1. WrapperFollows /\ "wrapper" \notin doubt
    BY <1>1 DEF Both, PanelInv
  <2>2. ASSUME NoneLeft(WrapperCommands)' PROVE active' = Named(wrapper)'
    <3>1. Latest(WrapperCommands, h)
      BY <1>2, <1>4, <2>2
    <3>2. stagedWrapper = active
      <4>1. h.do # "removeAll"
        OBVIOUS
      <4>2. QED BY <1>4, <2>1, <3>1, <4>1 DEF WrapperFollows
    <3>3. active # None
      BY PatchingAssumption DEF TInv, PatchingTypeOK
    <3>4. QED BY <3>2, <3>3 DEF Named
  <2>3. ASSUME NEW c, Latest(WrapperCommands, c)'
        PROVE  IF c.do = "removeAll" THEN active' = {} ELSE stagedWrapper' = active'
    <3>1. Latest(WrapperCommands, c)
      BY <1>2, <2>3
    <3>2. c \in OnTheWay
      BY <3>1, LatestIsLeft
    <3>3. QED BY <2>1, <3>1, <3>2 DEF WrapperFollows
  <2>4. QED BY <2>2, <2>3 DEF WrapperFollows
<1>6. ASSUME NEW p \in WithFiles PROVE FileFollows(p)'
  <2>1. h \notin FileCommands(p)
    BY KindsFacts
  <2>2. Held(FileCommands(p))
    BY <1>2, <2>1 DEF Held
  <2>3. QED BY <1>1, <1>3, <2>2, FileFollowsKept DEF Both, PanelInv
<1>7. ASSUME NEW p \in WithFiles \ missing' PROVE Safe(p)'
  <2>1. Safe(p)
    BY <1>7 DEF Both, BootInv
  <2>2. ~NoneLeft(Wraps)
    BY <1>2, <1>4
  <2>3. h \notin Fetches(p)
    BY KindsFacts
  <2>4. Same(Fetches(p)) /\ NoMore(Removals(p)) /\ NoMore(Removes(p))
    BY <1>2, <2>3 DEF Same, NoMore
  <2>5. /\ Never(Wraps, Fetches(p)) => Never(Wraps, Fetches(p))' /\ NoneLeft(Fetches(p))'
        /\ Never(LastRemovals(p), Wraps) => Never(LastRemovals(p), Wraps)'
    BY <1>2, <1>4
  <2>6. Named(stagedWrapper)' = Named(stagedWrapper)
    OBVIOUS
  <2>7. ClaimedIsSafe(p)' /\ FetchedIsStaged(p)' /\ WrapperStaged(p)'
    BY <1>3, <2>1, <2>4, <2>5 DEF Safe, ClaimedIsSafe, FetchedIsStaged, WrapperStaged, Same, NoMore
  <2>8. StagedIsSafe(p)'
    BY <2>1, <2>2, <2>4, <2>5, <2>6 DEF Safe, StagedIsSafe, Same, NoMore
  <2>9. NamedIsThere(p)'
    <3>1. CASE stagedWrapper = None
      <4>1. ~HalfRemoved(p)
        BY <2>1, <3>1, HalvesFacts DEF Safe, WrapperStaged
      <4>2. QED BY <2>1, <3>1, <4>1 DEF Safe, NamedIsThere, Named
    <3>2. CASE stagedWrapper # None
      <4>1. Named(wrapper)' = Named(stagedWrapper)
        BY <3>2 DEF Named
      <4>2. QED BY <2>1, <2>2, <2>4, <2>5, <4>1 DEF Safe, StagedIsSafe, NamedIsThere, Same
    <3>3. QED BY <3>1, <3>2
  <2>10. QED BY <2>7, <2>8, <2>9 DEF Safe
<1>8. WithFiles' = WithFiles
  BY DEF WithFiles
<1>9. QED BY <1>5, <1>6, <1>7, <1>8 DEF Both, PanelInv, BootInv

(* It removes a file, before it fetches the wrapper without it.            *)
LEMMA RemovedHolds ==
    ASSUME TInv, Both, NEW h \in Commands, h = Head(inbox), h.do = "remove", inbox # <<>>,
           inbox' = <<Command("rewrap", h.on)>> \o Tail(inbox), onDevice' = onDevice \ {h.on},
           UNCHANGED <<step, action, patcher, active, staged, stagedWrapper, queue, wrapper, doubt, missing>>
    PROVE  Both'
<1> DEFINE w == Command("rewrap", h.on)
<1>1. w \in Commands /\ w.do = "rewrap" /\ w.on = h.on /\ WayTyped /\ queue' = queue
  BY DEF Command, Commands, Dos, TInv
<1>2. inbox' = <<w>> \o Tail(inbox)
  OBVIOUS
<1> HIDE DEF w
<1>3. ASSUME NEW K, NEW A
      PROVE  /\ inbox' # <<>> /\ Head(inbox') = w
             /\ NoneLeft(K) /\ w \notin K => NoneLeft(K)'
             /\ NoneLeft(K)' /\ h \notin K => NoneLeft(K)
             /\ w \in K => ~NoneLeft(K)'
             /\ h \in K /\ NoneLeft(K)' => Latest(K, h)
             /\ Never(A, K) /\ (w \in A => h \in A) => Never(A, K)'
  BY <1>1, <1>2, SwapMoves
<1>4. ASSUME NEW K, NEW d, Latest(K, d)'
      PROVE  Latest(K, d) \/ (d = w /\ (h \in K => Latest(K, h)))
  BY <1>1, <1>2, <1>4, SwapMoves
<1>5. ASSUME NEW p PROVE Claimed(p)' <=> Claimed(p)
  BY DEF Claimed
<1>6. /\ h \in WrapperCommands /\ h \in Wraps /\ w \in WrapperCommands /\ w \in Wraps
      /\ h \in OnTheWay
  <2>1. h \in OnTheWay
    <3>1. 1 \in DOMAIN inbox /\ inbox[1] = h
      BY <1>1 DEF WayTyped
    <3>2. QED BY <3>1 DEF OnTheWay, Among
  <2>2. QED BY <1>1, <2>1, KindsFacts
<1>7. WrapperFollows'
  <2> SUFFICES ASSUME "wrapper" \notin doubt' PROVE WrapperFollows'
    BY DEF WrapperFollows
  <2>1. WrapperFollows /\ "wrapper" \notin doubt
    BY DEF Both, PanelInv
  <2>2. ~NoneLeft(WrapperCommands)'
    BY <1>3, <1>6
  <2>3. ASSUME NEW c, Latest(WrapperCommands, c)'
        PROVE  IF c.do = "removeAll" THEN active' = {} ELSE stagedWrapper' = active'
    <3>1. CASE Latest(WrapperCommands, c)
      <4>1. c \in OnTheWay
        BY <3>1, LatestIsLeft
      <4>2. QED BY <2>1, <3>1, <4>1 DEF WrapperFollows
    <3>2. CASE c = w /\ Latest(WrapperCommands, h)
      BY <1>1, <1>6, <2>1, <3>2 DEF WrapperFollows
    <3>3. Latest(WrapperCommands, c) \/ (c = w /\ Latest(WrapperCommands, h))
      BY <1>4, <1>6, <2>3
    <3>4. QED BY <3>1, <3>2, <3>3
  <2>4. QED BY <2>2, <2>3 DEF WrapperFollows
<1>8. ASSUME NEW p \in WithFiles PROVE FileFollows(p)'
  <2> SUFFICES ASSUME p \notin doubt', Claimed(p)' PROVE FileFollows(p)'
    BY DEF FileFollows
  <2>1. FileFollows(p) /\ p \notin doubt /\ Claimed(p)
    BY <1>5 DEF Both, PanelInv
  <2>2. w \notin FileCommands(p)
    BY <1>1, KindsFacts
  <2>3. ASSUME NEW d, Latest(FileCommands(p), d)' PROVE d.do = "fetch" /\ p \in staged'
    <3>1. d \in FileCommands(p)
      BY <2>3, AmongSifted DEF Latest
    <3>2. d # w
      BY <2>2, <3>1
    <3>3. Latest(FileCommands(p), d)
      BY <1>4, <2>3, <3>2
    <3>4. d \in OnTheWay
      BY <3>3, LatestIsLeft
    <3>5. QED BY <2>1, <3>3, <3>4 DEF FileFollows
  <2>4. ASSUME NoneLeft(FileCommands(p))' PROVE p \in onDevice'
    <3>1. h \notin FileCommands(p)
      <4> SUFFICES ASSUME h \in FileCommands(p) PROVE FALSE
        OBVIOUS
      <4>1. Latest(FileCommands(p), h)
        BY <1>3, <2>4
      <4>2. QED BY <1>6, <2>1, <4>1 DEF FileFollows
    <3>2. NoneLeft(FileCommands(p)) /\ h.on # p
      BY <1>3, <2>4, <3>1, KindsFacts
    <3>3. QED BY <2>1, <3>2 DEF FileFollows
  <2>5. QED BY <2>3, <2>4 DEF FileFollows
<1>9. ASSUME NEW p \in WithFiles \ missing' PROVE Safe(p)'
  <2>1. Safe(p)
    BY <1>9 DEF Both, BootInv
  <2>2. NoMore(Wraps)
    BY <1>6, LeftIsOnTheWay DEF NoMore
  <2>3. h \notin Fetches(p) /\ w \notin Fetches(p) /\ w \notin LastRemovals(p)
    BY <1>1, KindsFacts
  <2>4. /\ Same(Fetches(p))
        /\ Never(Wraps, Fetches(p)) => Never(Wraps, Fetches(p))'
        /\ Never(LastRemovals(p), Wraps) => Never(LastRemovals(p), Wraps)'
    BY <1>3, <1>6, <2>3 DEF Same
  <2>5. CASE h.on # p
    <3>1. w \notin Removals(p) /\ w \notin Removes(p)
      BY <1>1, <2>5, KindsFacts
    <3>2. NoMore(Removals(p)) /\ NoMore(Removes(p))
      BY <1>3, <3>1 DEF NoMore
    <3>3. ~HalfRemoved(p)
      BY HalvesFacts
    <3>4. WayKept(p)
      BY <2>2, <2>4, <3>2, <3>3 DEF WayKept
    <3>5. p \in onDevice => p \in onDevice'
      BY <2>5
    <3>6. QED BY <1>5, <2>1, <3>4, <3>5, SafeKept
  <2>6. CASE h.on = p
    <3>1. h \in Removals(p) /\ h \in Removes(p)
      BY <2>6, KindsFacts
    <3>2. ~NoneLeft(Removals(p)) /\ ~NoneLeft(Removes(p))
      BY <1>6, <3>1, LeftIsOnTheWay
    <3>3. ~Claimed(p) /\ p \notin Named(stagedWrapper) /\ stagedWrapper # None
      BY <2>1, <3>2 DEF Safe, ClaimedIsSafe, StagedIsSafe, WrapperStaged
    <3>4. Named(stagedWrapper)' = Named(stagedWrapper)
      OBVIOUS
    <3>5. HalfRemoved(p)'
      <4>1. inbox' # <<>> /\ Head(inbox') = w
        BY <1>3
      <4>2. w.do = "rewrap" /\ w.on = p /\ w \in Commands
        BY <1>1, <2>6
      <4>3. w \in OfAt({"rewrap"}, p) /\ OfAt({"rewrap"}, p)' = OfAt({"rewrap"}, p)
        BY <4>2 DEF OfAt, Commands
      <4>4. QED BY <4>1, <4>3 DEF HalfRemoved
    <3>6. ClaimedIsSafe(p)' /\ StagedIsSafe(p)' /\ NamedIsThere(p)'
      BY <1>5, <3>3, <3>4, <3>5 DEF ClaimedIsSafe, StagedIsSafe, NamedIsThere
    <3>7. FetchedIsStaged(p)' /\ WrapperStaged(p)'
      BY <2>1, <2>4, <3>3 DEF Safe, FetchedIsStaged, WrapperStaged, Same
    <3>8. QED BY <3>6, <3>7 DEF Safe
  <2>7. QED BY <2>5, <2>6
<1>10. WithFiles' = WithFiles
  BY DEF WithFiles
<1>11. QED BY <1>7, <1>8, <1>9, <1>10 DEF Both, PanelInv, BootInv

(* It removes the last file and the wrapper, and reboots.                  *)
LEMMA ClearedHolds ==
    ASSUME TInv, Both, NEW h \in Commands, h = Head(inbox), h.do = "removeAll", inbox # <<>>,
           Boot(Tail(inbox)), onDevice' = onDevice \ {h.on}, wrapper' = None,
           UNCHANGED <<step, action, patcher, active, staged, stagedWrapper, queue>>
    PROVE  Both'
<1>1. WayTyped /\ inbox' = <<>> /\ queue' = queue /\ Lost(Among(Tail(inbox)))
  BY DEF Boot, TInv
<1>2. ASSUME NEW K, NEW A
      PROVE  /\ NoneLeft(K) => NoneLeft(K)'
             /\ \A d : Latest(K, d)' => Latest(K, d)
             /\ Never(A, K) => Never(A, K)'
  BY <1>1, DownMoves
<1>3. ASSUME NEW K, \A d \in Among(Tail(inbox)) : d \notin K
      PROVE  /\ h \notin K /\ NoneLeft(K)' => NoneLeft(K)
             /\ h \in K /\ NoneLeft(K)' => Latest(K, h)
  <2>1. NoneIn(Tail(inbox), K)
    BY <1>3, AmongSifted
  <2>2. /\ NoneIn(inbox, K) <=> h \notin K /\ NoneIn(Tail(inbox), K)
        /\ h \in K /\ NoneIn(Tail(inbox), K) => LastIn(inbox, K, h)
    BY <1>1, TailSifted DEF WayTyped
  <2>3. NoneLeft(K)' => NoneIn(queue, K)
    BY <1>1 DEF NoneLeft
  <2>4. QED BY <2>1, <2>2, <2>3 DEF NoneLeft, Latest
<1>4. ASSUME NEW p PROVE Claimed(p)' <=> Claimed(p)
  BY DEF Claimed
<1>5. h \in WrapperCommands /\ h \notin Wraps /\ h \in OnTheWay
  <2>1. h \in OnTheWay
    <3>1. 1 \in DOMAIN inbox /\ inbox[1] = h
      BY <1>1 DEF WayTyped
    <3>2. QED BY <3>1 DEF OnTheWay, Among
  <2>2. QED BY <2>1, KindsFacts
<1>6. Named(wrapper)' = {}
  BY DEF Named
<1>7. WithFiles' = WithFiles
  BY DEF WithFiles
(* The panel. *)
<1>8. ASSUME \E d \in Among(Tail(inbox)) : d.do \in Content PROVE PanelInv'
  BY <1>1, <1>8, SpoiltPanel DEF Lost, Costs
<1>9. ASSUME ~\E d \in Among(Tail(inbox)) : d.do \in Content PROVE PanelInv'
  <2>1. doubt' = doubt
    BY <1>1, <1>9 DEF Lost, SpoilsNothing, ghosts
  <2>2. WrapperFollows'
    <3> SUFFICES ASSUME "wrapper" \notin doubt' PROVE WrapperFollows'
      BY DEF WrapperFollows
    <3>1. WrapperFollows /\ "wrapper" \notin doubt
      BY <2>1 DEF Both, PanelInv
    <3>2. ASSUME NoneLeft(WrapperCommands)' PROVE active' = {}
      <4>1. \A d \in Among(Tail(inbox)) : d \notin WrapperCommands
        BY <1>9 DEF WrapperCommands, Of, Content
      <4>2. Latest(WrapperCommands, h)
        BY <1>3, <1>5, <3>2, <4>1
      <4>3. QED BY <1>5, <3>1, <4>2 DEF WrapperFollows
    <3>3. ASSUME NEW c, Latest(WrapperCommands, c)'
          PROVE  IF c.do = "removeAll" THEN active' = {} ELSE stagedWrapper' = active'
      <4>1. Latest(WrapperCommands, c)
        BY <1>2, <3>3
      <4>2. c \in OnTheWay
        BY <4>1, LatestIsLeft
      <4>3. QED BY <3>1, <4>1, <4>2 DEF WrapperFollows
    <3>4. QED BY <1>6, <3>2, <3>3 DEF WrapperFollows
  <2>3. ASSUME NEW p \in WithFiles PROVE FileFollows(p)'
    <3> SUFFICES ASSUME p \notin doubt', Claimed(p)' PROVE FileFollows(p)'
      BY DEF FileFollows
    <3>1. FileFollows(p) /\ p \notin doubt /\ Claimed(p)
      BY <1>4, <2>1 DEF Both, PanelInv
    <3>2. ASSUME NEW d, Latest(FileCommands(p), d)' PROVE d.do = "fetch" /\ p \in staged'
      <4>1. Latest(FileCommands(p), d)
        BY <1>2, <3>2
      <4>2. d \in OnTheWay
        BY <4>1, LatestIsLeft
      <4>3. QED BY <3>1, <4>1, <4>2 DEF FileFollows
    <3>3. ASSUME NoneLeft(FileCommands(p))' PROVE p \in onDevice'
      <4>1. \A d \in Among(Tail(inbox)) : d \notin FileCommands(p)
        BY <1>9 DEF FileCommands, OfAt, Content
      <4>2. h \notin FileCommands(p)
        <5> SUFFICES ASSUME h \in FileCommands(p) PROVE FALSE
          OBVIOUS
        <5>1. Latest(FileCommands(p), h)
          BY <1>3, <3>3, <4>1
        <5>2. QED BY <1>5, <3>1, <5>1 DEF FileFollows
      <4>3. NoneLeft(FileCommands(p)) /\ h.on # p
        BY <1>3, <3>3, <4>1, <4>2, KindsFacts
      <4>4. QED BY <3>1, <4>3 DEF FileFollows
    <3>4. QED BY <3>2, <3>3 DEF FileFollows
  <2>4. QED BY <1>7, <2>2, <2>3 DEF PanelInv
(* The device. *)
<1>10. ASSUME NEW p \in WithFiles \ missing' PROVE Safe(p)'
  <2>1. p \notin missing /\ \A d \in Among(Tail(inbox)) : ~(d.do \in {"fetch", "rewrap"} /\ d.on = p)
    BY <1>1, LostSpares
  <2>2. Safe(p)
    BY <2>1 DEF Both, BootInv
  <2>3. \A d \in Among(Tail(inbox)) : d \notin Fetches(p)
    BY <2>1 DEF Fetches, OfAt
  <2>4. h \notin Fetches(p)
    BY KindsFacts
  <2>5. NoneLeft(Fetches(p))' <=> NoneLeft(Fetches(p))
    BY <1>2, <1>3, <2>3, <2>4
  <2>6. /\ Never(Wraps, Fetches(p)) => Never(Wraps, Fetches(p))'
        /\ Never(LastRemovals(p), Wraps) => Never(LastRemovals(p), Wraps)'
        /\ NoneLeft(Removals(p)) => NoneLeft(Removals(p))'
        /\ NoneLeft(Removes(p)) => NoneLeft(Removes(p))'
        /\ NoneLeft(Wraps) => NoneLeft(Wraps)'
    BY <1>2
  <2>7. ClaimedIsSafe(p)'
    <3>1. Claimed(p) => h.on # p
      <4> SUFFICES ASSUME Claimed(p), h.on = p PROVE FALSE
        OBVIOUS
      <4>1. h \in Removals(p)
        BY KindsFacts
      <4>2. QED BY <1>5, <2>2, <4>1, LeftIsOnTheWay DEF Safe, ClaimedIsSafe
    <3>2. QED BY <1>4, <2>2, <2>5, <2>6, <3>1 DEF Safe, ClaimedIsSafe
  <2>8. FetchedIsStaged(p)' /\ WrapperStaged(p)'
    BY <2>2, <2>5, <2>6 DEF Safe, FetchedIsStaged, WrapperStaged
  <2>9. StagedIsSafe(p)'
    <3> SUFFICES ASSUME p \in Named(stagedWrapper) PROVE StagedIsSafe(p)'
      BY DEF StagedIsSafe, Named
    <3>1. StagedIsSafe(p)
      BY <2>2 DEF Safe
    <3>2. CASE h.on = p
      <4>1. h \in LastRemovals(p)
        BY <3>2, KindsFacts
      <4>2. NoneLeft(Wraps)
        BY <1>1, <1>5, <3>1, <4>1, FirstOfNever DEF StagedIsSafe
      <4>3. QED BY <2>6, <3>1, <4>2 DEF StagedIsSafe
    <3>3. CASE h.on # p
      BY <2>5, <2>6, <3>1, <3>3 DEF StagedIsSafe
    <3>4. QED BY <3>2, <3>3
  <2>10. NamedIsThere(p)'
    BY <1>6 DEF NamedIsThere
  <2>11. QED BY <2>7, <2>8, <2>9, <2>10 DEF Safe
<1>11. BootInv'
  BY <1>7, <1>10 DEF BootInv
<1>12. PanelInv'
  BY <1>8, <1>9
<1>13. QED BY <1>11, <1>12 DEF Both

LEMMA HeadIsAmong ==
    ASSUME TInv, inbox # <<>>
    PROVE  /\ Head(inbox) \in Among(inbox)
           /\ \A c \in Among(inbox) : c = Head(inbox) \/ c \in Among(Tail(inbox))
<1> DEFINE n == Len(inbox)
           t == Tail(inbox)
<1>1. n \in Nat /\ n >= 1 /\ DOMAIN inbox = 1..n /\ Head(inbox) = inbox[1]
  BY DEF TInv, WayTyped
<1>2. DOMAIN t = 1..(n - 1) /\ \A i \in 1..(n - 1) : t[i] = inbox[i + 1]
  BY <1>1 DEF TInv, WayTyped
<1> HIDE DEF n, t
<1>3. ASSUME NEW i \in DOMAIN inbox, i # 1 PROVE inbox[i] \in Among(t)
  <2>1. i - 1 \in DOMAIN t /\ (i - 1) + 1 = i
    BY <1>1, <1>2, <1>3
  <2>2. t[i - 1] = inbox[i]
    BY <1>2, <2>1
  <2>3. QED BY <2>1, <2>2 DEF Among
<1>4. 1 \in DOMAIN inbox
  BY <1>1
<1>5. QED BY <1>1, <1>3, <1>4 DEF Among, t

LEMMA ExecutesHolds ==
    ASSUME TInv, Both, Executes
    PROVE  Both'
<1>1. PICK h : h = Head(inbox)
  OBVIOUS
<1>2. /\ inbox # <<>> /\ h \in Commands
      /\ UNCHANGED <<step, action, patcher, nonces, active, staged, stagedWrapper, queue>>
  BY <1>1, ExecutesCases
<1>3. CASE h.do \in {"probe", "serve", "kill"}
  <2>1. Taken /\ UNCHANGED <<onDevice, wrapper, booted, missing>>
    BY <1>1, <1>3, ExecutesCases
  <2>2. Head(inbox).do \notin Content
    BY <1>1, <1>3 DEF Content
  <2>3. ASSUME NEW p PROVE AllKept(p)
    BY <1>2, <2>1, <2>2, HeadKeeps
  <2>4. \A p \in WithFiles : Claimed(p)' => Claimed(p)
    BY <1>2 DEF Claimed
  <2>5. doubt' = doubt
    BY <2>1 DEF Taken
  <2>6. QED BY <1>2, <2>1, <2>3, <2>4, <2>5, KeptHolds
<1>4. CASE h.do = "fetch"
  <2>1. Taken /\ UNCHANGED <<wrapper, booted, servers>>
    BY <1>1, <1>4, ExecutesCases
  <2>2. onDevice' = IF h.on \in staged THEN onDevice \cup {h.on} ELSE onDevice
    BY <1>1, <1>4, ExecutesCases
  <2>3. missing' = IF h.on \in staged /\ Steady(Tail(inbox)) THEN missing \ {h.on} ELSE missing
    BY <1>1, <1>4, ExecutesCases
  <2>4. QED BY <1>1, <1>2, <1>4, <2>1, <2>2, <2>3, FetchHolds
<1>5. CASE h.do \in {"wrap", "rewrap"}
  <2>1. Taken /\ UNCHANGED <<onDevice, booted, servers, missing>>
    BY <1>1, <1>5, ExecutesCases
  <2>2. wrapper' = IF stagedWrapper # None THEN stagedWrapper ELSE wrapper
    BY <1>1, <1>5, ExecutesCases
  <2>3. QED BY <1>1, <1>2, <1>5, <2>1, <2>2, WrappedHolds
<1>6. CASE h.do = "remove"
  <2>1. /\ inbox' = <<Command("rewrap", h.on)>> \o Tail(inbox)
        /\ UNCHANGED <<onMqtt, doubt, wrapper, booted, servers, missing>>
        /\ onDevice' = onDevice \ {h.on}
    BY <1>1, <1>6, ExecutesCases
  <2>2. QED BY <1>1, <1>2, <1>6, <2>1, RemovedHolds
<1>7. CASE h.do = "removeAll"
  <2>1. onDevice' = onDevice \ {h.on} /\ wrapper' = None /\ Boot(Tail(inbox))
    BY <1>1, <1>7, ExecutesCases
  <2>2. QED BY <1>1, <1>2, <1>7, <2>1, ClearedHolds
<1>8. CASE h.do = "reboot"
  <2>1. UNCHANGED <<onDevice, wrapper>> /\ Boot(Tail(inbox))
    BY <1>1, <1>8, ExecutesCases
  <2>2. \A c \in Among(inbox) : c \in Among(Tail(inbox)) \/ c.do \notin Content
    BY <1>1, <1>2, <1>8, HeadIsAmong DEF Content
  <2>3. Loses(Among(inbox)) /\ Lost(Among(Tail(inbox)))
    BY <1>2, <2>1 DEF Boot, Loses
  <2>4. \A p \in WithFiles : Claimed(p)' => Claimed(p)
    BY <1>2 DEF Claimed
  <2>5. QED BY <1>2, <2>1, <2>2, <2>3, <2>4, LossHolds
<1>9. h.do \in Dos
  BY <1>2 DEF Commands
<1>10. QED BY <1>3, <1>4, <1>5, <1>6, <1>7, <1>8, <1>9 DEF Dos

(* The add-on restarts, and what it had staged and queued is gone.         *)
LEMMA RestartHolds ==
    ASSUME TInv, Both, AddonRestarts
    PROVE  Both'
<1>1. /\ inbox' = inbox /\ queue' = <<>> /\ staged' = {} /\ stagedWrapper' = None
      /\ UNCHANGED <<active, wrapper, onDevice>> /\ step' = [r \in Jobs |-> "idle"]
  BY DEF AddonRestarts, deviceVars
<1>2. doubt' = Everything /\ missing' = missing \cup (For(OnTheWay, {"fetch", "remove", "rewrap"}) \cap WithFiles)
  BY DEF AddonRestarts, Costs
<1>3. Loses(Among(queue)) /\ WayTyped
  BY <1>1 DEF Loses, TInv
<1>4. ASSUME NEW p \in WithFiles \ missing' PROVE Safe(p)'
  <2>1. Safe(p)
    BY <1>2, <1>4 DEF Both, BootInv
  <2>2. NoneLeft(Fetches(p)) /\ NoneLeft(Removes(p))
    <3>1. \A d \in OnTheWay : d \notin Fetches(p) /\ d \notin Removes(p)
      BY <1>2, <1>4 DEF For, Fetches, Removes, OfAt
    <3>2. QED BY <3>1, LeftIsOnTheWay
  <2>3. ASSUME NEW K, NEW A PROVE NoMore(K) /\ (Never(A, K) => Never(A, K)')
    BY <1>3, LossMoves
  <2>4. NoneLeft(Fetches(p))' /\ NoneLeft(Removes(p))'
    BY <2>2, <2>3 DEF NoMore
  <2>5. Claimed(p)' => Claimed(p)
    BY <1>1 DEF Claimed
  <2>6. ClaimedIsSafe(p)' /\ FetchedIsStaged(p)'
    BY <1>1, <2>1, <2>2, <2>3, <2>4, <2>5 DEF Safe, ClaimedIsSafe, FetchedIsStaged, NoMore
  <2>7. StagedIsSafe(p)' /\ WrapperStaged(p)'
    BY <1>1, <2>4 DEF StagedIsSafe, WrapperStaged, Named
  <2>8. NamedIsThere(p)'
    <3>1. ~HalfRemoved(p)
      BY <2>2, HalvesFacts
    <3>2. QED BY <1>1, <2>1, <3>1 DEF Safe, NamedIsThere, Named
  <2>9. QED BY <2>6, <2>7, <2>8 DEF Safe
<1>5. WithFiles' = WithFiles
  BY DEF WithFiles
<1>6. QED BY <1>2, <1>4, <1>5, SpoiltPanel DEF Both, BootInv

LEMMA RunHolds ==
    ASSUME TInv, Both, NEW r \in Jobs, RunSteps(r)
    PROVE  Both'
<1>1. step[r] # "idle" => patcher[r] \in Patchers
  BY DEF TInv, RunsOK
<1>2. ASSUME active' = active, ~Stages(r) PROVE \A p \in WithFiles : Claimed(p)' => Claimed(p)
  BY <1>2, ClaimsOf
<1>3. CASE Begins(r) \/ Reads(r)
  <2>1. /\ UNCHANGED <<inbox, queue, doubt, missing, active, staged, stagedWrapper, wrapper, onDevice>>
        /\ ~Stages(r)
    BY <1>3 DEF Begins, Reads, Stages, At, SendsNothing, deviceVars, ghosts
  <2>2. \A p \in WithFiles : Claimed(p)' => Claimed(p)
    BY <1>2, <2>1
  <2>3. staged \subseteq staged' /\ onDevice \subseteq onDevice'
    BY <2>1
  <2>4. QED BY <2>1, <2>2, <2>3, QuietHolds
<1>4. ASSUME NEW do \in {"probe", "serve", "kill", "reboot"}, NEW on \in Nat \cup Patchers \cup {None},
             Send(Command(do, on)), UNCHANGED <<active, staged, stagedWrapper, deviceVars>>, ~Stages(r)
      PROVE  Both'
  <2>1. do \in Dos \ Content
    BY DEF Dos, Content
  <2>2. UNCHANGED <<active, stagedWrapper, wrapper, staged, onDevice>>
    BY <1>4 DEF deviceVars
  <2>3. \A p \in WithFiles : Claimed(p)' => Claimed(p)
    BY <1>2, <1>4, <2>2
  <2>4. QED BY <1>4, <2>1, <2>2, <2>3, SendHolds
<1>5. CASE Probes(r)
  <2>1. nonces' \in Nat
    BY <1>5 DEF Probes, TInv
  <2>2. ~Stages(r)
    BY <1>5 DEF Probes, Stages, At
  <2>3. QED BY <1>4, <1>5, <2>1, <2>2 DEF Probes
<1>6. CASE Serves(r)
  <2>1. ~Stages(r)
    BY <1>6 DEF Serves, Stages, At
  <2>2. QED BY <1>4, <1>6, <2>1 DEF Serves
<1>7. CASE Downloads(r)
  <2>1. ~Stages(r)
    BY <1>7 DEF Downloads, Stages, At
  <2>2. QED BY <1>4, <1>7, <2>1 DEF Downloads
<1>8. CASE Reboots(r)
  <2>1. ~Stages(r)
    BY <1>8 DEF Reboots, Stages, At
  <2>2. QED BY <1>4, <1>8, <2>1 DEF Reboots
<1>9. CASE Stages(r)
  BY <1>9, StagesHolds
<1>10. CASE Drops(r)
  BY <1>10, DropsHolds
<1>11. CASE DropsWrapper(r)
  BY <1>11, DropsWrapperHolds
<1>12. CASE RecordsApply(r)
  <2>1. step[r] = "recording" /\ action[r] = "apply" /\ patcher[r] \in Patchers
    BY <1>1, <1>12 DEF RecordsApply, At
  <2>a. PICK f \in Patchers : f = patcher[r]
    BY <2>1
  <2>2. PICK set : set = active \cup {f}
    OBVIOUS
  <2>3. set \in SUBSET Patchers /\ Wrap(r, set, "wrap")
    BY <1>12, <2>a, <2>2 DEF RecordsApply, TInv, PatchingTypeOK
  <2>4. QED BY <2>1, <2>a, <2>2, <2>3, WrapHolds
<1>13. CASE RecordsRemove(r)
  <2>1. step[r] = "recording" /\ patcher[r] \in Patchers
    BY <1>1, <1>13 DEF RecordsRemove, At
  <2>a. PICK f \in Patchers : f = patcher[r]
    BY <2>1
  <2>2. PICK set : set = active \ {f}
    OBVIOUS
  <2>3. CASE Wrap(r, active \ {patcher[r]}, "remove")
    <3>1. set \in SUBSET Patchers /\ Wrap(r, set, "remove")
      BY <2>a, <2>2, <2>3 DEF TInv, PatchingTypeOK
    <3>2. QED BY <2>1, <2>a, <2>2, <3>1, WrapHolds
  <2>4. CASE /\ active' = {} /\ Send(Command("removeAll", patcher[r]))
             /\ UNCHANGED <<probe, nonces, staged, stagedWrapper, deviceVars>>
    <3>1. UNCHANGED <<staged, stagedWrapper, wrapper, onDevice>>
      BY <2>4 DEF deviceVars
    <3>2. QED BY <2>1, <2>4, <3>1, RemoveAllHolds
  <2>5. QED BY <1>13, <2>3, <2>4 DEF RecordsRemove
<1>14. QED
  BY <1>3, <1>5, <1>6, <1>7, <1>8, <1>9, <1>10, <1>11, <1>12, <1>13 DEF RunSteps

LEMMA BothInit == PatchingInit => Both
<1> SUFFICES ASSUME PatchingInit PROVE Both
  OBVIOUS
<1>1. ASSUME NEW K PROVE NoneLeft(K) /\ (\A A : Never(A, K)) /\ \A c : ~Latest(K, c)
  BY EmptySifted DEF PatchingInit, NoneLeft, Never, Latest
<1>2. ASSUME NEW p PROVE Claimed(p) => p \in active
  BY DEF PatchingInit, Claimed
<1>3. active \in SUBSET Patchers /\ onDevice = active \cap WithFiles
  BY DEF PatchingInit
<1>4. Named(wrapper) = active
  BY <1>3, PatchingAssumption DEF PatchingInit, Named
<1>5. Named(stagedWrapper) = {}
  BY DEF PatchingInit, Named
<1>6. WrapperFollows
  BY <1>1, <1>4 DEF WrapperFollows
<1>7. ASSUME NEW p \in WithFiles PROVE FileFollows(p) /\ Safe(p)
  <2>1. FileFollows(p)
    BY <1>1, <1>2, <1>3 DEF FileFollows
  <2>2. ClaimedIsSafe(p) /\ FetchedIsStaged(p) /\ StagedIsSafe(p) /\ WrapperStaged(p)
    BY <1>1, <1>2, <1>3, <1>5 DEF ClaimedIsSafe, FetchedIsStaged, StagedIsSafe, WrapperStaged
  <2>3. NamedIsThere(p)
    BY <1>3, <1>4 DEF NamedIsThere
  <2>4. QED BY <2>1, <2>2, <2>3 DEF Safe
<1>8. QED BY <1>6, <1>7 DEF Both, PanelInv, BootInv

LEMMA BothStep == TInv /\ Both /\ [PatchingNext]_patchingVars => Both'
<1> SUFFICES ASSUME TInv, Both, [PatchingNext]_patchingVars PROVE Both'
  OBVIOUS
<1>1. CASE \E r \in Jobs : Accepted(r)
  <2>1. PICK r \in Jobs : Accepted(r)
    BY <1>1
  <2>2. UNCHANGED <<inbox, queue, doubt, missing, active, staged, stagedWrapper, wrapper, onDevice>>
    BY <2>1 DEF Accepted, SendsNothing, deviceVars, ghosts
  <2>3. \A p \in WithFiles : Claimed(p)' => Claimed(p)
    BY <2>1, ClaimsAccepted
  <2>4. staged \subseteq staged' /\ onDevice \subseteq onDevice'
    BY <2>2
  <2>5. QED BY <2>2, <2>3, <2>4, QuietHolds
<1>2. CASE \E r \in Jobs : RunSteps(r)
  BY <1>2, RunHolds
<1>3. CASE TakesQueue
  <2>1. ASSUME NEW p PROVE AllKept(p)
    BY <1>3, TakenKeeps
  <2>2. UNCHANGED <<step, action, patcher, doubt, missing, active, staged, stagedWrapper, wrapper, onDevice>>
    BY <1>3 DEF TakesQueue, runVars, deviceVars, ghosts
  <2>3. \A p \in WithFiles : Claimed(p)' => Claimed(p)
    BY <2>2 DEF Claimed
  <2>4. staged \subseteq staged' /\ onDevice \subseteq onDevice'
    BY <2>2
  <2>5. QED BY <2>1, <2>2, <2>3, <2>4, KeptHolds
<1>4. CASE Executes
  BY <1>4, ExecutesHolds
<1>5. CASE PowerCut
  <2>1. /\ UNCHANGED <<step, action, patcher, active, staged, stagedWrapper, queue, onDevice, wrapper>>
        /\ Lost(Among(inbox)) /\ Loses(Among(inbox))
    BY <1>5 DEF PowerCut, runVars, Boot, Loses
  <2>2. \A p \in WithFiles : Claimed(p)' => Claimed(p)
    BY <2>1 DEF Claimed
  <2>3. QED BY <2>1, <2>2, LossHolds
<1>6. CASE JoinsOrLeavesMqtt \/ UNCHANGED patchingVars
  <2>1. UNCHANGED <<step, action, patcher, inbox, queue, doubt, missing, active, staged, stagedWrapper, wrapper, onDevice>>
    BY <1>6 DEF JoinsOrLeavesMqtt, patchingVars, runVars, deviceVars, ghosts
  <2>2. \A p \in WithFiles : Claimed(p)' => Claimed(p)
    BY <2>1 DEF Claimed
  <2>3. staged \subseteq staged' /\ onDevice \subseteq onDevice'
    BY <2>1
  <2>4. QED BY <2>1, <2>2, <2>3, QuietHolds
<1>7. CASE CommandsLost
  <2>1. UNCHANGED <<step, action, patcher, active, staged, stagedWrapper, onDevice, wrapper>>
    BY <1>7 DEF CommandsLost, runVars, deviceVars
  <2>2. PICK lost : Loses(lost) /\ Lost(lost)
    BY <1>7 DEF CommandsLost, Loses
  <2>3. \A p \in WithFiles : Claimed(p)' => Claimed(p)
    BY <2>1 DEF Claimed
  <2>4. QED BY <2>1, <2>2, <2>3, LossHolds
<1>8. CASE AddonRestarts
  BY <1>8, RestartHolds
<1>9. QED BY <1>1, <1>2, <1>3, <1>4, <1>5, <1>6, <1>7, <1>8 DEF PatchingNext

LEMMA Invariance == PatchingSpec => [](TInv /\ Both)
<1>1. PatchingInit => TInv /\ Both
  BY TypesInit, BothInit
<1>2. TInv /\ Both /\ [PatchingNext]_patchingVars => (TInv /\ Both)'
  BY TypesStep, BothStep
<1>3. QED BY <1>1, <1>2, PTL DEF PatchingSpec
-----------------------------------------------------------------------------
(* What the panel shows as applied is what the device boots with, once the *)
(* runs are over and every command sent since a trouble has arrived        *)
(* (_patcher_apply, _patcher_remove).                                      *)
THEOREM PanelShowsPatches == PatchingSpec => []PatchesInPlace
<1>1. TInv /\ Both => PatchesInPlace
  <2> SUFFICES ASSUME TInv, Both, AtRest PROVE WrapperComposed /\ AppliedIsThere
    BY DEF PatchesInPlace, WrapperComposed, AppliedIsThere
  <2>1. ASSUME NEW K PROVE NoneLeft(K)
    BY EmptySifted DEF AtRest, NoneLeft
  <2>2. WrapperComposed
    BY <2>1 DEF WrapperComposed, Both, PanelInv, WrapperFollows, Named
  <2>3. ASSUME NEW p \in active \cap WithFiles, p \notin doubt PROVE p \in onDevice
    <3>1. Claimed(p) /\ FileFollows(p)
      BY DEF Claimed, Both, PanelInv
    <3>2. QED BY <2>1, <2>3, <3>1 DEF FileFollows
  <2>4. QED BY <2>2, <2>3 DEF AppliedIsThere
<1>2. QED BY <1>1, Invariance, PTL

(* "The device never boots with a wrapper that references files that no    *)
(* longer exist" (_patcher_remove), at any boot, but for those whose fetch *)
(* was lost, late or overtaken and those whose removal was cut in two,     *)
(* until it fetches them again.                                            *)
THEOREM BootsWithItsFiles == PatchingSpec => BootsComplete
<1>1. TInv /\ Both /\ [PatchingNext]_patchingVars =>
        [DeviceBoots => booted' \cap WithFiles \subseteq onDevice' \cup missing']_patchingVars
  <2> SUFFICES ASSUME TInv, Both, DeviceBoots, NEW p \in booted' \cap WithFiles, p \notin missing'
               PROVE  p \in onDevice'
    OBVIOUS
  <2>1. ASSUME booted' = Named(wrapper), onDevice' = onDevice, NEW told, Lost(told), ~HalfRemoved(p) PROVE p \in onDevice'
    <3>1. p \notin missing
      BY <2>1, LostSpares
    <3>2. NamedIsThere(p)
      BY <3>1 DEF Both, BootInv, Safe
    <3>3. QED BY <2>1, <3>2 DEF NamedIsThere
  <2>2. CASE PowerCut
    <3>1. booted' = Named(wrapper) /\ onDevice' = onDevice /\ Lost(Among(inbox))
      BY <2>2 DEF PowerCut, Named, Boot
    <3>2. ~HalfRemoved(p)
      <4>1. \A c \in Among(inbox) : ~(c.do \in {"fetch", "rewrap"} /\ c.on = p)
        BY <3>1, LostSpares
      <4>2. QED BY <4>1, HalvesFacts, HeadIsAmong
    <3>3. QED BY <2>1, <3>1, <3>2
  <2>3. CASE Executes /\ Head(inbox).do \in {"reboot", "removeAll"}
    <3>1. PICK h : h = Head(inbox)
      OBVIOUS
    <3>2. h.do = "reboot" \/ (h.do = "removeAll" /\ booted' = {})
      BY <2>3, <3>1, ExecutesCases
    <3>3. h.do = "reboot"
      BY <3>2
    <3>4. booted' = Named(wrapper) /\ onDevice' = onDevice /\ Lost(Among(Tail(inbox)))
      BY <2>3, <3>1, <3>3, ExecutesCases DEF Named, Boot
    <3>5. ~HalfRemoved(p)
      BY <3>1, <3>3, HalvesFacts
    <3>6. QED BY <2>1, <3>4, <3>5
  <2>4. QED BY <2>2, <2>3 DEF DeviceBoots
<1>2. QED BY <1>1, Invariance, PTL DEF PatchingSpec, BootsComplete
=============================================================================

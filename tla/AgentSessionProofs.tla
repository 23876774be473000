------------------------- MODULE AgentSessionProofs -------------------------
(***************************************************************************)
(* What AgentSession keeps for every number of entries, of deaths and of   *)
(* compactions: a resume rebuilds the live conversation, nothing that was  *)
(* acknowledged is lost, no round is parted, and no summary stands for a   *)
(* message it was not written from.                                        *)
(*                                                                         *)
(* pathToLeaf and materializeBranch are recursive, so the first part is    *)
(* about the recursion: functions with the equations exist, any of them    *)
(* will do, and what holds at 0 and climbs holds at every length.          *)
(***************************************************************************)
EXTENDS AgentSession, WellFoundedInduction, TLAPS

-----------------------------------------------------------------------------
(* Induction, and functions defined by recursion. *)

\* Induction: a set of numbers that is not empty has a least element.
LEMMA Least ==
  ASSUME NEW B \in SUBSET Nat, B # {}
  PROVE  \E k \in B : \A j \in B : k <= j
<1> DEFINE R == {ss \in Nat \X Nat : ss[1] < ss[2]}
<1>1. IsWellFoundedOn(R, Nat)
  BY NatLessThanWellFounded DEF OpToRel
<1> HIDE DEF R
<1>2. PICK k \in B : \A j \in B : ~ (<<j, k>> \in R)
  BY <1>1, WFMin
<1>3. \A j \in B : ~(j < k)
  BY <1>2 DEF R
<1>4. QED
  BY <1>3

\* f[i] comes from its value at up[i], or is b[i] where up[i] is not smaller.
Solves(f, n, up, b, G) ==
  \A i \in 0..n : f[i] = IF up[i] < i THEN G[i][f[up[i]]] ELSE b[i]

\* A function on 0..n may be defined at i from its value at a smaller number.
LEMMA Recursion ==
  ASSUME NEW n \in Nat, NEW S, NEW up \in [0..n -> 0..n], NEW b \in [0..n -> S],
         NEW G \in [0..n -> [S -> S]]
  PROVE  \E f \in [0..n -> S] : Solves(f, n, up, b, G)
<1> DEFINE Good(k) == \E f \in [0..k -> S] :
             \A i \in 0..k : f[i] = IF up[i] < i THEN G[i][f[up[i]]] ELSE b[i]
<1> DEFINE B == {k \in 0..n : ~Good(k)}
<1> HIDE DEF Good
<1>0. B \in SUBSET Nat /\ \A k \in 0..n : k \notin B <=> Good(k)
  OBVIOUS
<1> HIDE DEF B
<1>1. SUFFICES B = {}
  <2>1. n \in 0..n
    OBVIOUS
  <2>2. Good(n)
    BY <2>1, <1>0, <1>1
  <2>3. QED
    BY <2>2 DEF Good, Solves
<1>2. SUFFICES ASSUME B # {} PROVE FALSE
  OBVIOUS
<1>3. PICK k \in B : \A j \in B : k <= j
  BY <1>0, <1>2, Least
<1>4. CASE k = 0
  <2>1. 0 \in 0..n /\ up[0] \in 0..n /\ ~(up[0] < 0) /\ b[0] \in S
    OBVIOUS
  <2> DEFINE f == [i \in 0..0 |-> b[0]]
  <2>2. f \in [0..0 -> S]
    BY <2>1
  <2>3. \A i \in 0..0 : f[i] = IF up[i] < i THEN G[i][f[up[i]]] ELSE b[i]
    BY <2>1
  <2>4. Good(0)
    BY <2>2, <2>3 DEF Good
  <2>5. QED
    BY <2>4, <1>0, <1>3, <1>4
<1>5. CASE k # 0
  <2>1. k \in 0..n /\ k \in Nat /\ k - 1 \in 0..n
    BY <1>5, <1>3 DEF B
  <2>a. k - 1 \notin B
    BY <2>1, <1>3
  <2>2. PICK f \in [0..(k - 1) -> S] :
          \A i \in 0..(k - 1) : f[i] = IF up[i] < i THEN G[i][f[up[i]]] ELSE b[i]
    BY <2>1, <2>a, <1>0 DEF Good
  <2> DEFINE v == IF up[k] < k THEN G[k][f[up[k]]] ELSE b[k]
  <2> DEFINE g == [i \in 0..k |-> IF i = k THEN v ELSE f[i]]
  <2>3. up[k] \in 0..n /\ b[k] \in S
    BY <2>1
  <2>4. ASSUME up[k] < k PROVE f[up[k]] \in S /\ G[k][f[up[k]]] \in S
    <3>1. up[k] \in 0..(k - 1)
      BY <2>1, <2>3, <2>4
    <3>2. f[up[k]] \in S
      BY <3>1
    <3>3. G[k] \in [S -> S]
      BY <2>1, <3>2
    <3>4. QED
      BY <3>2, <3>3
  <2>5. v \in S
    BY <2>3, <2>4
  <2> HIDE DEF v
  <2>6. g \in [0..k -> S]
    BY <2>1, <2>5
  <2>7. ASSUME NEW i \in 0..k
        PROVE  g[i] = IF up[i] < i THEN G[i][g[up[i]]] ELSE b[i]
    <3>1. up[i] \in 0..n
      BY <2>1
    <3>2. CASE i = k
      <4>1. up[k] < k => up[k] \in 0..k /\ up[k] # k
        BY <3>1, <3>2, <2>1
      <4>2. up[k] < k => g[up[k]] = f[up[k]]
        BY <4>1
      <4>3. g[k] = v
        BY <2>1
      <4>4. QED
        BY <3>2, <4>2, <4>3 DEF v
    <3>3. CASE i # k
      <4>1. i \in 0..(k - 1) /\ g[i] = f[i]
        BY <3>3, <2>1
      <4>2. up[i] < i => up[i] \in 0..k /\ up[i] # k
        <5>1. ASSUME NEW u \in 0..n, u < i PROVE u \in 0..k /\ u # k
          BY <5>1, <2>1, <4>1
        <5>2. QED
          BY <3>1, <4>1, <5>1
      <4>3. up[i] < i => g[up[i]] = f[up[i]]
        BY <4>2
      <4>4. QED
        BY <4>1, <4>3, <2>2
    <3>4. QED
      BY <3>2, <3>3
  <2>8. Good(k)
    BY <2>6, <2>7 DEF Good
  <2>9. QED
    BY <2>8, <2>1, <1>0, <1>3
<1>6. QED
  BY <1>4, <1>5

-----------------------------------------------------------------------------
(* The branch of an entry. *)

Rooted(f, path, i) ==
  IF ~OnDisk(f, i) THEN <<>>
  ELSE (IF EntryOf(f, i).parent < i THEN path[EntryOf(f, i).parent] ELSE <<>>) \o <<EntryOf(f, i)>>

LEMMA EntryOfDisk ==
  ASSUME NEW f \in Seq(EntrySet), NEW i, OnDisk(f, i)
  PROVE  EntryOf(f, i) \in ToSet(f) /\ EntryOf(f, i) \in EntrySet /\ EntryOf(f, i).id = i
<1>1. \E e \in ToSet(f) : e.id = i
  BY DEF OnDisk
<1>2. EntryOf(f, i) \in ToSet(f) /\ EntryOf(f, i).id = i
  BY <1>1 DEF EntryOf
<1>3. ToSet(f) \subseteq EntrySet
  BY DEF ToSet
<1>4. QED
  BY <1>2, <1>3

\* pathToLeaf by its recursion.
LEMMA PathsDef ==
  ASSUME NEW f \in Seq(EntrySet)
  PROVE  /\ Paths(f) \in [0..MaxEntries -> Seq(EntrySet)]
         /\ \A i \in 0..MaxEntries : Paths(f)[i] = Rooted(f, Paths(f), i)
<1> DEFINE T == Seq(EntrySet)
<1> DEFINE up == [i \in 0..MaxEntries |->
                    IF OnDisk(f, i) /\ EntryOf(f, i).parent < i THEN EntryOf(f, i).parent ELSE i]
<1> DEFINE b == [i \in 0..MaxEntries |-> IF OnDisk(f, i) THEN <<EntryOf(f, i)>> ELSE <<>>]
<1> DEFINE G == [i \in 0..MaxEntries |-> [s \in T |-> IF OnDisk(f, i) THEN s \o <<EntryOf(f, i)>> ELSE s]]
<1>1. \A i \in 0..MaxEntries : OnDisk(f, i) =>
        EntryOf(f, i) \in EntrySet /\ EntryOf(f, i).parent \in 0..MaxEntries
  BY EntryOfDisk DEF EntrySet
<1>2. \A i \in 0..MaxEntries : up[i] \in 0..MaxEntries
  BY <1>1
<1>3. up \in [0..MaxEntries -> 0..MaxEntries]
  BY <1>2
<1>4. b \in [0..MaxEntries -> T]
  <2>1. \A i \in 0..MaxEntries : b[i] \in T
    BY <1>1
  <2>2. QED
    BY <2>1
<1>5. G \in [0..MaxEntries -> [T -> T]]
  <2>1. ASSUME NEW i \in 0..MaxEntries, NEW s \in T PROVE G[i][s] \in T
    <3>1. OnDisk(f, i) => s \o <<EntryOf(f, i)>> \in T
      BY <1>1
    <3>2. QED
      BY <3>1
  <2>2. \A i \in 0..MaxEntries : G[i] \in [T -> T]
    BY <2>1
  <2>3. QED
    BY <2>2
<1>6. MaxEntries \in Nat
  BY BoundsAssumption
<1> HIDE DEF up, b, G, T
<1>7. PICK p \in [0..MaxEntries -> T] : Solves(p, MaxEntries, up, b, G)
  BY <1>3, <1>4, <1>5, <1>6, Recursion
<1>8. \A i \in 0..MaxEntries : p[i] = Rooted(f, p, i)
  <2> SUFFICES ASSUME NEW i \in 0..MaxEntries PROVE p[i] = Rooted(f, p, i)
    OBVIOUS
  <2>1. CASE ~OnDisk(f, i)
    <3>1. up[i] = i /\ b[i] = <<>> /\ ~(up[i] < i)
      BY <2>1 DEF up, b
    <3>2. QED
      BY <3>1, <2>1, <1>7 DEF Rooted, Solves
  <2>2. CASE OnDisk(f, i) /\ EntryOf(f, i).parent < i
    <3>1. up[i] = EntryOf(f, i).parent /\ up[i] \in 0..MaxEntries
      BY <2>2, <1>2 DEF up
    <3>2. p[up[i]] \in T
      BY <3>1
    <3>3. G[i][p[up[i]]] = p[up[i]] \o <<EntryOf(f, i)>>
      BY <2>2, <3>2 DEF G
    <3>4. QED
      BY <3>1, <3>3, <2>2, <1>7 DEF Rooted, Solves
  <2>3. CASE OnDisk(f, i) /\ ~(EntryOf(f, i).parent < i)
    <3>1. up[i] = i /\ b[i] = <<EntryOf(f, i)>> /\ ~(up[i] < i)
      BY <2>3 DEF up, b
    <3>2. <<>> \o <<EntryOf(f, i)>> = <<EntryOf(f, i)>>
      BY <1>1, <2>3
    <3>3. QED
      BY <3>1, <3>2, <2>3, <1>7 DEF Rooted, Solves
  <2>4. QED
    BY <2>1, <2>2, <2>3
<1> DEFINE Q(path) == path = [i \in 0..MaxEntries |->
        IF ~OnDisk(f, i) THEN <<>>
        ELSE LET e == EntryOf(f, i)
             IN  (IF e.parent < i THEN path[e.parent] ELSE <<>>) \o <<e>>]
<1>9. Q(p)
  BY <1>8 DEF Rooted
<1>10. Q(Paths(f))
  BY <1>9 DEF Paths
<1>11. \A i \in 0..MaxEntries : Paths(f)[i] = Rooted(f, Paths(f), i)
  BY <1>10 DEF Rooted
\* What the walk returns is a branch, whichever function the recursion is.
<1>12. \A i \in 0..MaxEntries : Paths(f)[i] \in T
  <2> DEFINE B == {i \in 0..MaxEntries : Paths(f)[i] \notin T}
  <2>1. B \in SUBSET Nat
    OBVIOUS
  <2>2. SUFFICES ASSUME B # {} PROVE FALSE
    OBVIOUS
  <2>3. PICK k \in B : \A j \in B : k <= j
    <3> HIDE DEF B
    <3>1. QED
      BY <2>1, <2>2, Least
  <2>4. k \in 0..MaxEntries /\ Paths(f)[k] = Rooted(f, Paths(f), k)
    BY <1>11
  <2>5. OnDisk(f, k) /\ EntryOf(f, k).parent < k => Paths(f)[EntryOf(f, k).parent] \in T
    BY <2>3, <2>4, <1>1
  <2>6. OnDisk(f, k) => <<EntryOf(f, k)>> \in T /\ <<>> \in T
    BY <1>1, <2>4 DEF T
  <2>7. Rooted(f, Paths(f), k) \in T
    BY <2>5, <2>6 DEF Rooted, T
  <2>8. QED
    BY <2>7, <2>4
<1>13. Paths(f) \in [0..MaxEntries -> T]
  <2>1. Paths(f) = [i \in 0..MaxEntries |-> Paths(f)[i]]
    BY <1>10
  <2>2. QED
    BY <2>1, <1>12
<1>14. QED
  BY <1>13, <1>11 DEF T

-----------------------------------------------------------------------------
(* Functions defined step by step. *)

StayAlike(f, g, n) == \A i \in 1..n : f[i - 1] = g[i - 1] => f[i] = g[i]

\* Two functions that agree at 0, and at i if they agree at i - 1, agree.
LEMMA Alike ==
  ASSUME NEW n \in Nat, NEW f, NEW g, f[0] = g[0], StayAlike(f, g, n)
  PROVE  \A i \in 0..n : f[i] = g[i]
<1> DEFINE B == {i \in 0..n : f[i] # g[i]}
<1>1. B \in SUBSET Nat /\ \A i \in 0..n : i \notin B => f[i] = g[i]
  OBVIOUS
<1>2. SUFFICES ASSUME B # {} PROVE FALSE
  BY <1>1
<1>3. PICK k \in B : \A j \in B : k <= j
  <2> HIDE DEF B
  <2>1. QED
    BY <1>1, <1>2, Least
<1>4. k \in 0..n /\ f[k] # g[k]
  OBVIOUS
<1>5. k # 0
  BY <1>4
<1> HIDE DEF B
<1>6. k \in 1..n /\ k - 1 \in 0..n /\ k - 1 < k
  BY <1>4, <1>5
<1>7. k - 1 \notin B
  BY <1>3, <1>6
<1>8. QED
  BY <1>1, <1>4, <1>6, <1>7 DEF StayAlike

\* A sequence built one step at a time.
Steps(f, n, G) == \A i \in 0..n : f[i] = IF i = 0 THEN <<>> ELSE G[i][f[i - 1]]

LEMMA StepsExist ==
  ASSUME NEW n \in Nat, NEW S, <<>> \in S, NEW G \in [1..n -> [S -> S]]
  PROVE  \E f \in [0..n -> S] : Steps(f, n, G)
<1> DEFINE up == [i \in 0..n |-> IF i = 0 THEN 0 ELSE i - 1]
<1> DEFINE b == [i \in 0..n |-> <<>>]
<1> DEFINE H == [i \in 0..n |-> IF i = 0 THEN [s \in S |-> s] ELSE G[i]]
<1>1. up \in [0..n -> 0..n]
  OBVIOUS
<1>2. b \in [0..n -> S]
  OBVIOUS
<1>3. H \in [0..n -> [S -> S]]
  <2>1. \A i \in 0..n : i # 0 => i \in 1..n
    OBVIOUS
  <2>2. \A i \in 0..n : H[i] \in [S -> S]
    BY <2>1
  <2>3. QED
    BY <2>2
<1>4. \A i \in 0..n : up[i] < i <=> i # 0
  OBVIOUS
<1>5. \A i \in 0..n : i # 0 => up[i] = i - 1 /\ H[i] = G[i] 
  OBVIOUS
<1>6. \A i \in 0..n : b[i] = <<>>
  OBVIOUS
<1> HIDE DEF up, b, H
<1>7. PICK f \in [0..n -> S] : Solves(f, n, up, b, H)
  BY <1>1, <1>2, <1>3, Recursion
<1>8. Steps(f, n, G)
  BY <1>4, <1>5, <1>6, <1>7 DEF Solves, Steps
<1>9. QED
  BY <1>8

Thinks(items) == [n \in 1..Len(items) |-> [s \in Seq(ItemSet) |->
                    IF items[n].kind = "thought" THEN s ELSE Append(s, items[n])]]

\* WithoutThinking by its recursion.
LEMMA KeptDef ==
  ASSUME NEW items \in Seq(ItemSet)
  PROVE  \E kept \in [0..Len(items) -> Seq(ItemSet)] :
           /\ WithoutThinking(items) = kept[Len(items)]
           /\ \A n \in 0..Len(items) : kept[n] =
                IF n = 0 THEN <<>>
                ELSE IF items[n].kind = "thought" THEN kept[n - 1] ELSE Append(kept[n - 1], items[n])
<1> DEFINE T == Seq(ItemSet)
<1>1. Len(items) \in Nat /\ <<>> \in T
  OBVIOUS
<1>2. \A n \in 1..Len(items) : items[n] \in ItemSet
  OBVIOUS
<1>3. Thinks(items) \in [1..Len(items) -> [T -> T]]
  <2>1. ASSUME NEW n \in 1..Len(items) PROVE Thinks(items)[n] \in [T -> T]
    <3>1. \A s \in T : Append(s, items[n]) \in T
      BY <1>2
    <3>2. QED
      BY <3>1 DEF Thinks
  <2>2. QED
    BY <2>1 DEF Thinks
<1> HIDE DEF T
<1>4. PICK p \in [0..Len(items) -> T] : Steps(p, Len(items), Thinks(items))
  BY <1>1, <1>3, StepsExist
<1> DEFINE Q(kept) == kept = [n \in 0..Len(items) |->
        IF n = 0 THEN <<>>
        ELSE IF items[n].kind = "thought" THEN kept[n - 1] ELSE Append(kept[n - 1], items[n])]
<1>5. ASSUME NEW n \in 0..Len(items)
      PROVE  p[n] = IF n = 0 THEN <<>>
             ELSE IF items[n].kind = "thought" THEN p[n - 1] ELSE Append(p[n - 1], items[n])
  <2>1. CASE n = 0
    BY <2>1, <1>4 DEF Steps
  <2>2. CASE n # 0
    <3>1. n \in 1..Len(items) /\ n - 1 \in 0..Len(items)
      BY <2>2, <1>1
    <3>2. p[n - 1] \in Seq(ItemSet)
      BY <3>1 DEF T
    <3>3. Thinks(items)[n][p[n - 1]] =
            IF items[n].kind = "thought" THEN p[n - 1] ELSE Append(p[n - 1], items[n])
      BY <3>1, <3>2 DEF Thinks
    <3>4. p[n] = Thinks(items)[n][p[n - 1]]
      BY <2>2, <1>4 DEF Steps
    <3>5. QED
      BY <2>2, <3>3, <3>4
  <2>3. QED
    BY <2>1, <2>2
<1>6. Q(p)
  BY <1>5
<1> DEFINE w == CHOOSE kept : Q(kept)
<1>7. Q(w)
  BY <1>6
<1>8. WithoutThinking(items) = w[Len(items)]
  BY DEF WithoutThinking
<1> HIDE DEF w
<1>a. \A n \in 0..Len(items) : w[n] =
        IF n = 0 THEN <<>>
        ELSE IF items[n].kind = "thought" THEN w[n - 1] ELSE Append(w[n - 1], items[n])
  BY <1>7
<1> HIDE DEF Q
<1>9. \A n \in 0..Len(items) : p[n] = w[n]
  <2>1. p[0] = w[0]
    BY <1>5, <1>a, <1>1
  <2>2. ASSUME NEW n \in 1..Len(items), p[n - 1] = w[n - 1] PROVE p[n] = w[n]
    <3>1. n \in 0..Len(items) /\ n # 0
      BY <1>1
    <3>2. QED
      BY <3>1, <2>2, <1>5, <1>a
  <2>3. StayAlike(p, w, Len(items))
    BY <2>2 DEF StayAlike
  <2>4. QED
    BY <2>1, <2>3, <1>1, Alike
<1>10. WithoutThinking(items) = p[Len(items)]
  BY <1>1, <1>8, <1>9
<1>11. QED
  BY <1>5, <1>10 DEF T

-----------------------------------------------------------------------------
(* Induction upward, and a conversation without its thoughts. *)

\* Induction: a set that has 0, and i whenever it has i - 1, has every number.
LEMMA Climb ==
  ASSUME NEW n \in Nat, NEW A, 0 \in A, \A i \in 1..n : i - 1 \in A => i \in A
  PROVE  \A i \in 0..n : i \in A
<1> DEFINE B == {i \in 0..n : i \notin A}
<1>1. B \in SUBSET Nat /\ \A i \in 0..n : i \notin B => i \in A
  OBVIOUS
<1>2. SUFFICES ASSUME B # {} PROVE FALSE
  BY <1>1
<1>3. PICK k \in B : \A j \in B : k <= j
  <2> HIDE DEF B
  <2>1. QED
    BY <1>1, <1>2, Least
<1>4. k \in 0..n /\ k \notin A /\ k # 0
  OBVIOUS
<1> HIDE DEF B
<1>6. k \in 1..n /\ k - 1 \in 0..n /\ k - 1 < k
  BY <1>4
<1>7. k - 1 \notin B
  BY <1>3, <1>6
<1>8. QED
  BY <1>1, <1>4, <1>6, <1>7

Distinct(items) == \A i, j \in DOMAIN items : items[i].id = items[j].id => i = j
Rounds(items) ==
  \A i \in DOMAIN items : items[i].kind = "result" => i > 1 /\ items[i - 1].kind = "call"

\* Dropping thoughts leaves messages of the conversation, in their rounds.
LEMMA WithoutThinkingKeeps ==
  ASSUME NEW items \in Seq(ItemSet)
  PROVE  /\ WithoutThinking(items) \in Seq(ItemSet)
         /\ \A k \in DOMAIN WithoutThinking(items) :
              \E i \in DOMAIN items : WithoutThinking(items)[k] = items[i]
         /\ Distinct(items) => Distinct(WithoutThinking(items))
         /\ Rounds(items) => Rounds(WithoutThinking(items))
<1>1. PICK kept \in [0..Len(items) -> Seq(ItemSet)] :
           /\ WithoutThinking(items) = kept[Len(items)]
           /\ \A n \in 0..Len(items) : kept[n] =
                IF n = 0 THEN <<>>
                ELSE IF items[n].kind = "thought" THEN kept[n - 1] ELSE Append(kept[n - 1], items[n])
  BY KeptDef
<1> DEFINE From(n) == \A k \in DOMAIN kept[n] : \E i \in 1..n : kept[n][k] = items[i]
<1> DEFINE Ends(n) == n > 0 /\ items[n].kind # "thought" =>
                        kept[n] # <<>> /\ kept[n][Len(kept[n])] = items[n]
<1> DEFINE A == {n \in 0..Len(items) : From(n)}
<1> DEFINE C == {n \in 0..Len(items) : Distinct(items) => Distinct(kept[n])}
<1> DEFINE D == {n \in 0..Len(items) : Rounds(items) => Rounds(kept[n]) /\ Ends(n)}
<1>2. Len(items) \in Nat /\ \A n \in 1..Len(items) : items[n] \in ItemSet
  OBVIOUS
<1>3. ASSUME NEW n \in 1..Len(items)
      PROVE  /\ n \in 0..Len(items) /\ n - 1 \in 0..Len(items) /\ n # 0 /\ n \in DOMAIN items
             /\ kept[n] \in Seq(ItemSet) /\ kept[n - 1] \in Seq(ItemSet)
             /\ items[n].kind = "thought" => kept[n] = kept[n - 1]
             /\ items[n].kind # "thought" => kept[n] = Append(kept[n - 1], items[n])
  <2>1. n \in 0..Len(items) /\ n - 1 \in 0..Len(items) /\ n # 0 /\ n \in DOMAIN items
    BY <1>2
  <2>2. QED
    BY <2>1, <1>1
<1>4. kept[0] = <<>>
  BY <1>1, <1>2
<1>5. \A n \in 0..Len(items) : n \in A
  <2>1. 0 \in A
    BY <1>4, <1>2
  <2>2. ASSUME NEW n \in 1..Len(items), n - 1 \in A PROVE n \in A
    <3>1. ASSUME NEW k \in DOMAIN kept[n] PROVE \E i \in 1..n : kept[n][k] = items[i]
      <4>1. CASE k \in DOMAIN kept[n - 1] /\ kept[n][k] = kept[n - 1][k]
        <5>1. PICK i \in 1..(n - 1) : kept[n - 1][k] = items[i]
          BY <2>2, <4>1
        <5>2. i \in 1..n
          BY <5>1
        <5>3. QED
          BY <4>1, <5>1, <5>2
      <4>2. CASE kept[n][k] = items[n]
        BY <4>2
      <4>3. \/ k \in DOMAIN kept[n - 1] /\ kept[n][k] = kept[n - 1][k]
            \/ kept[n][k] = items[n]
        <5>1. CASE kept[n] = kept[n - 1]
          BY <3>1, <5>1
        <5>2. CASE kept[n] = Append(kept[n - 1], items[n])
          <6>1. DOMAIN kept[n] = 1..(Len(kept[n - 1]) + 1) /\ DOMAIN kept[n - 1] = 1..Len(kept[n - 1])
            BY <5>2, <1>3
          <6>2. CASE k = Len(kept[n - 1]) + 1
            BY <6>2, <5>2, <1>3
          <6>3. CASE k # Len(kept[n - 1]) + 1
            BY <6>1, <6>3, <5>2, <1>3, <3>1
          <6>4. QED
            BY <6>2, <6>3
        <5>3. QED
          BY <5>1, <5>2, <1>3
      <4>4. QED
        BY <4>1, <4>2, <4>3
    <3>2. QED
      BY <3>1, <1>3
  <2> HIDE DEF A
  <2>3. QED
    BY <2>1, <2>2, <1>2, Climb
<1>6. \A n \in 0..Len(items) : From(n)
  BY <1>5
<1>7. \A n \in 0..Len(items) : n \in C
  <2>1. 0 \in C
    BY <1>4, <1>2 DEF Distinct
  <2>2. ASSUME NEW n \in 1..Len(items), n - 1 \in C, Distinct(items) PROVE Distinct(kept[n])
    <3>1. Distinct(kept[n - 1])
      BY <2>2
    <3>2. CASE items[n].kind = "thought"
      BY <3>1, <3>2, <1>3
    <3>3. CASE items[n].kind # "thought"
      <4>1. ASSUME NEW k \in DOMAIN kept[n - 1] PROVE kept[n - 1][k].id # items[n].id
        <5>1. PICK i \in 1..(n - 1) : kept[n - 1][k] = items[i]
          BY <1>3, <1>6, <4>1
        <5>2. i \in DOMAIN items /\ i # n
          BY <5>1, <1>2
        <5>3. QED
          BY <5>1, <5>2, <2>2, <1>3 DEF Distinct
      <4>2. kept[n] = Append(kept[n - 1], items[n]) /\ kept[n - 1] \in Seq(ItemSet)
        BY <1>3, <3>3
      <4>3. QED
        BY <4>1, <4>2, <3>1 DEF Distinct
    <3>4. QED
      BY <3>2, <3>3
  <2>3. ASSUME NEW n \in 1..Len(items), n - 1 \in C PROVE n \in C
    BY <2>2, <2>3, <1>3
  <2> HIDE DEF C
  <2>4. QED
    BY <2>1, <2>3, <1>2, Climb
<1>8. \A n \in 0..Len(items) : n \in D
  <2>1. 0 \in D
    BY <1>4, <1>2 DEF Rounds
  <2>2. ASSUME NEW n \in 1..Len(items), n - 1 \in D, Rounds(items) PROVE Rounds(kept[n]) /\ Ends(n)
    <3>1. Rounds(kept[n - 1]) /\ Ends(n - 1)
      BY <2>2
    <3>2. CASE items[n].kind = "thought"
      BY <3>1, <3>2, <1>3
    <3>3. CASE items[n].kind # "thought"
      <4>1. kept[n] = Append(kept[n - 1], items[n]) /\ kept[n - 1] \in Seq(ItemSet)
        BY <1>3, <3>3
      <4>2. Ends(n)
        <5>1. \A s \in Seq(ItemSet), m \in ItemSet :
                 Append(s, m) # <<>> /\ Append(s, m)[Len(Append(s, m))] = m
          OBVIOUS
        <5>2. QED
          BY <4>1, <5>1, <1>2
      <4>3. ASSUME items[n].kind = "result"
            PROVE  kept[n - 1] # <<>> /\ kept[n - 1][Len(kept[n - 1])].kind = "call"
        <5>1. n > 1 /\ items[n - 1].kind = "call"
          BY <4>3, <2>2, <1>3 DEF Rounds
        <5>2. QED
          BY <5>1, <3>1, <1>2
      <4>4. Rounds(kept[n])
        BY <4>1, <4>3, <3>1 DEF Rounds
      <4>5. QED
        BY <4>2, <4>4
    <3>4. QED
      BY <3>2, <3>3
  <2>3. ASSUME NEW n \in 1..Len(items), n - 1 \in D PROVE n \in D
    BY <2>2, <2>3, <1>3
  <2> HIDE DEF D
  <2>4. QED
    BY <2>1, <2>3, <1>2, Climb
<1>9. Len(items) \in 0..Len(items)
  BY <1>2
<1> DEFINE w == kept[Len(items)]
<1>10. w \in Seq(ItemSet) /\ (Distinct(items) => Distinct(w)) /\ (Rounds(items) => Rounds(w))
  BY <1>7, <1>8, <1>9
<1>11. \A k \in DOMAIN w : \E i \in DOMAIN items : w[k] = items[i]
  BY SMTT(30), <1>6, <1>9
<1> HIDE DEF w
<1>12. WithoutThinking(items) = w
  BY <1>1 DEF w
<1>13. QED
  BY <1>10, <1>11, <1>12

-----------------------------------------------------------------------------
(* Parts of a conversation. *)

\* The end of a conversation after its first c messages.
LEMMA SuffixKeeps ==
  ASSUME NEW items \in Seq(ItemSet), NEW c \in 0..Len(items)
  PROVE  LET s == SubSeq(items, c + 1, Len(items)) IN
         /\ s \in Seq(ItemSet) /\ Len(s) = Len(items) - c
         /\ \A k \in DOMAIN s : k + c \in DOMAIN items /\ s[k] = items[k + c]
         /\ Distinct(items) => Distinct(s)
         /\ Rounds(items) /\ (c < Len(items) => items[c + 1].kind # "result") => Rounds(s)
<1> DEFINE s == SubSeq(items, c + 1, Len(items))
<1>1. s \in Seq(ItemSet) /\ Len(s) = Len(items) - c /\ Len(items) \in Nat
  OBVIOUS
<1>2. DOMAIN s = 1..(Len(items) - c) /\ DOMAIN items = 1..Len(items)
  BY <1>1
<1>3. \A k \in DOMAIN s : k \in Int /\ k + c \in DOMAIN items /\ s[k] = items[k + c]
  <2>1. ASSUME NEW k \in 1..(Len(items) - c) PROVE s[k] = items[k + c]
    <3>1. s[k] = items[c + 1 + k - 1]
      BY <1>1
    <3>2. c + 1 + k - 1 = k + c
      BY <1>1
    <3>3. QED
      BY <3>1, <3>2
  <2>2. \A k \in 1..(Len(items) - c) : k \in Int /\ k + c \in 1..Len(items)
    BY <1>1
  <2>3. QED
    BY <2>1, <2>2, <1>2
<1> HIDE DEF s
<1>4. ASSUME Distinct(items) PROVE Distinct(s)
  <2>1. ASSUME NEW i \in DOMAIN s, NEW j \in DOMAIN s, s[i].id = s[j].id PROVE i = j
    <3>1. i + c = j + c
      BY <1>3, <1>4, <2>1 DEF Distinct
    <3>2. QED
      BY <3>1, <1>3
  <2>2. QED
    BY <2>1 DEF Distinct
<1>5. ASSUME Rounds(items), c < Len(items) => items[c + 1].kind # "result" PROVE Rounds(s)
  <2>1. ASSUME NEW i \in DOMAIN s, s[i].kind = "result" PROVE i > 1 /\ s[i - 1].kind = "call"
    <3> DEFINE j == i + c
    <3>1. j \in DOMAIN items /\ items[j].kind = "result" /\ i \in Int
      BY <1>3, <2>1
    <3>3. i # 1
      <4>1. CASE i = 1
        <5>1. j = c + 1 /\ c < Len(items)
          BY <4>1, <1>2
        <5>2. QED
          BY <5>1, <3>1, <1>5
      <4>2. QED
        BY <4>1
    <3>4. i - 1 \in DOMAIN s /\ (i - 1) + c = j - 1 /\ i > 1
      BY <3>3, <1>2
    <3> HIDE DEF j
    <3>2. j > 1 /\ items[j - 1].kind = "call"
      BY <3>1, <1>5 DEF Rounds
    <3>5. s[i - 1] = items[j - 1]
      BY <3>4, <1>3
    <3>6. QED
      BY <3>2, <3>4, <3>5
  <2>2. QED
    BY <2>1 DEF Rounds
<1>6. QED
  BY <1>1, <1>3, <1>4, <1>5 DEF s

\* A cut the replay finds is where the snapshot was cut.
LEMMA KeptCut ==
  ASSUME NEW items \in Seq(ItemSet), Distinct(items), NEW c \in DOMAIN items, NEW upTo,
         items[c].id = upTo
  PROVE  Kept(items, upTo) = SubSeq(items, c + 1, Len(items))
<1> DEFINE cut == {i \in DOMAIN items : items[i].id = upTo}
<1>1. c \in cut /\ \A i \in cut : i = c
  BY DEF Distinct
<1>2. cut # {} /\ (CHOOSE i \in cut : TRUE) = c
  BY <1>1
<1>3. QED
  BY <1>2 DEF Kept

LEMMA KeptIsSuffix ==
  ASSUME NEW items \in Seq(ItemSet), NEW upTo
  PROVE  \E c \in 0..Len(items) : Kept(items, upTo) = SubSeq(items, c + 1, Len(items))
<1> DEFINE cut == {i \in DOMAIN items : items[i].id = upTo}
<1>1. CASE cut = {}
  <2>1. Kept(items, upTo) = items
    BY <1>1 DEF Kept
  <2>2. items = SubSeq(items, 0 + 1, Len(items)) /\ 0 \in 0..Len(items)
    OBVIOUS
  <2>3. QED
    BY <2>1, <2>2
<1>2. CASE cut # {}
  <2> DEFINE c == CHOOSE i \in cut : TRUE
  <2>1. c \in cut
    BY <1>2
  <2>2. c \in 0..Len(items)
    BY <2>1
  <2>3. Kept(items, upTo) = SubSeq(items, c + 1, Len(items))
    BY <1>2 DEF Kept
  <2>4. QED
    BY <2>2, <2>3
<1>3. QED
  BY <1>1, <1>2

\* A summary before some messages.
LEMMA SummaryFirst ==
  ASSUME NEW m \in ItemSet, NEW t \in Seq(ItemSet)
  PROVE  LET r == <<m>> \o t IN
         /\ r \in Seq(ItemSet) /\ Len(r) = Len(t) + 1 /\ r[1] = m
         /\ \A k \in DOMAIN r : r[k] = m \/ \E i \in DOMAIN t : r[k] = t[i]
         /\ Distinct(t) /\ (\A i \in DOMAIN t : t[i].id # m.id) => Distinct(r)
         /\ Rounds(t) /\ m.kind # "result" => Rounds(r)
<1> DEFINE r == <<m>> \o t
<1>1. r \in Seq(ItemSet) /\ Len(r) = Len(t) + 1 /\ r[1] = m /\ Len(t) \in Nat
  OBVIOUS
<1>2. DOMAIN r = 1..(Len(t) + 1) /\ DOMAIN t = 1..Len(t)
  BY <1>1
<1>3. \A k \in DOMAIN r : k # 1 => k - 1 \in DOMAIN t /\ r[k] = t[k - 1]
  BY <1>1, <1>2
<1> HIDE DEF r
<1>4. \A k \in DOMAIN r : r[k] = m \/ \E i \in DOMAIN t : r[k] = t[i]
  BY <1>1, <1>3
<1>5. ASSUME Distinct(t), \A i \in DOMAIN t : t[i].id # m.id PROVE Distinct(r)
  <2>1. ASSUME NEW i \in DOMAIN r, NEW j \in DOMAIN r, r[i].id = r[j].id PROVE i = j
    <3>1. CASE i = 1 \/ j = 1
      BY <3>1, <2>1, <1>5, <1>3, <1>1
    <3>2. CASE i # 1 /\ j # 1
      <4>1. i - 1 = j - 1
        BY <3>2, <2>1, <1>5, <1>3 DEF Distinct
      <4>2. QED
        BY <4>1, <1>2
    <3>3. QED
      BY <3>1, <3>2
  <2>2. QED
    BY <2>1 DEF Distinct
<1>6. ASSUME Rounds(t), m.kind # "result" PROVE Rounds(r)
  <2>1. ASSUME NEW i \in DOMAIN r, r[i].kind = "result" PROVE i > 1 /\ r[i - 1].kind = "call"
    <3>1. i # 1
      BY <2>1, <1>6, <1>1
    <3>2. i - 1 \in DOMAIN t /\ t[i - 1].kind = "result"
      BY <2>1, <3>1, <1>3
    <3>3. i - 1 > 1 /\ t[i - 1 - 1].kind = "call"
      BY <3>2, <1>6 DEF Rounds
    <3>4. i - 1 \in DOMAIN r /\ i - 1 # 1 /\ i > 1
      BY <3>3, <1>2
    <3>5. r[i - 1] = t[i - 1 - 1]
      BY <3>4, <1>3
    <3>6. QED
      BY <3>3, <3>4, <3>5
  <2>2. QED
    BY <2>1 DEF Rounds
<1>7. QED
  BY <1>1, <1>4, <1>5, <1>6 DEF r

\* A message after some messages.
LEMMA MessageLast ==
  ASSUME NEW t \in Seq(ItemSet), NEW m \in ItemSet
  PROVE  LET r == Append(t, m) IN
         /\ r \in Seq(ItemSet) /\ Len(r) = Len(t) + 1 /\ r[Len(t) + 1] = m
         /\ DOMAIN r = 1..(Len(t) + 1) /\ \A k \in 1..Len(t) : r[k] = t[k]
         /\ \A k \in DOMAIN r : r[k] = m \/ \E i \in DOMAIN t : r[k] = t[i]
         /\ Distinct(t) /\ (\A i \in DOMAIN t : t[i].id # m.id) => Distinct(r)
         /\ Rounds(t) /\ (m.kind = "result" => t # <<>> /\ t[Len(t)].kind = "call") => Rounds(r)
<1> DEFINE r == Append(t, m)
<1>1. r \in Seq(ItemSet) /\ Len(r) = Len(t) + 1 /\ r[Len(t) + 1] = m /\ Len(t) \in Nat
  OBVIOUS
<1>2. DOMAIN r = 1..(Len(t) + 1) /\ DOMAIN t = 1..Len(t)
  BY <1>1
<1>3. \A k \in 1..Len(t) : r[k] = t[k]
  OBVIOUS
<1>4. \A k \in DOMAIN r : k # Len(t) + 1 => k \in 1..Len(t)
  BY <1>2, <1>1
<1>9. t # <<>> => Len(t) \in DOMAIN t
  BY <1>2
<1> HIDE DEF r
<1>5. \A k \in DOMAIN r : r[k] = m \/ \E i \in DOMAIN t : r[k] = t[i]
  BY <1>1, <1>2, <1>3, <1>4
<1>6. ASSUME Distinct(t), \A i \in DOMAIN t : t[i].id # m.id PROVE Distinct(r)
  BY <1>6, <1>1, <1>2, <1>3, <1>4 DEF Distinct
<1>7. ASSUME Rounds(t), m.kind = "result" => t # <<>> /\ t[Len(t)].kind = "call" PROVE Rounds(r)
  <2>1. ASSUME NEW i \in DOMAIN r, r[i].kind = "result" PROVE i > 1 /\ r[i - 1].kind = "call"
    <3>1. CASE i = Len(t) + 1
      <4>1. Len(t) \in DOMAIN t /\ t[Len(t)].kind = "call" /\ i - 1 = Len(t)
        BY <3>1, <2>1, <1>7, <1>1, <1>9
      <4>2. QED
        BY <4>1, <3>1, <1>2, <1>3
    <3>2. CASE i # Len(t) + 1
      <4>1. i \in DOMAIN t /\ t[i].kind = "result"
        BY <3>2, <2>1, <1>2, <1>3, <1>4
      <4>2. i > 1 /\ t[i - 1].kind = "call"
        BY <4>1, <1>7 DEF Rounds
      <4>3. i - 1 \in 1..Len(t)
        BY <4>1, <4>2, <1>2
      <4>4. QED
        BY <4>2, <4>3, <1>3
    <3>3. QED
      BY <3>1, <3>2
  <2>2. QED
    BY <2>1 DEF Rounds
<1>8. QED
  BY <1>1, <1>2, <1>3, <1>5, <1>6, <1>7 DEF r

-----------------------------------------------------------------------------
(* Replaying a branch. *)

LEMMA StripKeeps ==
  ASSUME NEW items \in Seq(ItemSet), NEW strip
  PROVE  /\ Strip(items, strip) \in Seq(ItemSet)
         /\ \A k \in DOMAIN Strip(items, strip) :
              \E i \in DOMAIN items : Strip(items, strip)[k] = items[i]
         /\ Distinct(items) => Distinct(Strip(items, strip))
         /\ Rounds(items) => Rounds(Strip(items, strip))
<1>1. CASE strip
  <2>1. Strip(items, strip) = WithoutThinking(items)
    BY <1>1 DEF Strip
  <2>2. QED
    BY <2>1, WithoutThinkingKeeps
<1>2. CASE ~strip
  <2>1. Strip(items, strip) = items
    BY <1>2 DEF Strip
  <2>2. QED
    BY <2>1
<1>3. QED
  BY <1>1, <1>2

\* What replaying one entry leaves: messages there were, and the entry's own.
LEMMA ReplayKeeps ==
  ASSUME NEW items \in Seq(ItemSet), NEW e \in EntrySet
  PROVE  LET r == ReplayEntry(items, e) IN
         /\ r \in Seq(ItemSet)
         /\ \A k \in DOMAIN r : r[k].id = e.id \/ \E i \in DOMAIN items : r[k] = items[i]
         /\ Distinct(items) /\ (\A i \in DOMAIN items : items[i].id # e.id) => Distinct(r)
<1> DEFINE r == ReplayEntry(items, e)
<1>0. e.id \in Ids /\ e.kind \in Spoken \cup {"state", "fold"}
  BY DEF EntrySet, Kinds
<1>1. CASE e.kind \in Spoken
  <2> DEFINE m == Item(e.id, e.kind)
  <2>1. m \in ItemSet /\ m.id = e.id
    BY <1>0, <1>1 DEF Item, ItemSet
  <2>2. r = Append(items, m)
    BY <1>1 DEF ReplayEntry, Spoken
  <2> HIDE DEF m, r
  <2>3. QED
    BY <2>1, <2>2, MessageLast DEF r
<1>2. CASE e.kind = "fold"
  <2> DEFINE m == Item(e.id, "summary")
  <2> DEFINE k0 == Kept(items, e.upTo)
  <2> DEFINE t == Strip(k0, e.strip)
  <2>1. m \in ItemSet /\ m.id = e.id
    BY <1>0 DEF Item, ItemSet
  <2>2. r = <<m>> \o t
    BY <1>2 DEF ReplayEntry, Spoken
  <2>3. PICK c \in 0..Len(items) : k0 = SubSeq(items, c + 1, Len(items))
    BY KeptIsSuffix
  <2> HIDE DEF m, k0
  <2>4. /\ k0 \in Seq(ItemSet) /\ Distinct(items) => Distinct(k0)
        /\ \A j \in DOMAIN k0 : \E i \in DOMAIN items : k0[j] = items[i]
    BY <2>3, SuffixKeeps
  <2>5. k0 \in Seq(ItemSet)
    BY <2>3
  <2>6. /\ t \in Seq(ItemSet) /\ Distinct(k0) => Distinct(t)
        /\ \A j \in DOMAIN t : \E i \in DOMAIN k0 : t[j] = k0[i]
    BY <2>5, StripKeeps
  <2>7. t \in Seq(ItemSet)
    BY <2>5, StripKeeps
  <2> HIDE DEF t, r
  <2>8. \A j \in DOMAIN t : \E i \in DOMAIN items : t[j] = items[i]
    BY <2>4, <2>6
  <2>9. /\ r \in Seq(ItemSet)
        /\ \A k \in DOMAIN r : r[k] = m \/ \E i \in DOMAIN t : r[k] = t[i]
        /\ Distinct(t) /\ (\A i \in DOMAIN t : t[i].id # m.id) => Distinct(r)
    BY <2>1, <2>2, <2>7, SummaryFirst
  <2>10. \A k \in DOMAIN r : r[k].id = e.id \/ \E i \in DOMAIN items : r[k] = items[i]
    BY <2>1, <2>8, <2>9
  <2>11. ASSUME Distinct(items), \A i \in DOMAIN items : items[i].id # e.id PROVE Distinct(r)
    <3>1. Distinct(t)
      BY <2>4, <2>5, <2>6, <2>7, <2>11
    <3>2. \A i \in DOMAIN t : t[i].id # m.id
      BY <2>1, <2>8, <2>11
    <3>3. QED
      BY <2>9, <3>1, <3>2
  <2>12. QED
    BY <2>9, <2>10, <2>11 DEF r
<1>3. CASE e.kind \notin Spoken /\ e.kind # "fold"
  <2>1. r = items
    BY <1>3 DEF ReplayEntry
  <2>2. QED
    BY <2>1
<1>4. QED
  BY <1>1, <1>2, <1>3

LEMMA ReplayTyped ==
  ASSUME NEW items \in Seq(ItemSet), NEW e \in EntrySet
  PROVE  ReplayEntry(items, e) \in Seq(ItemSet)
BY ReplayKeeps

Replays(branch) == [n \in 1..Len(branch) |-> [s \in Seq(ItemSet) |-> ReplayEntry(s, branch[n])]]

\* materializeBranch by its recursion.
LEMMA MaterializeDef ==
  ASSUME NEW branch \in Seq(EntrySet)
  PROVE  \E replay \in [0..Len(branch) -> Seq(ItemSet)] :
           /\ Materialize(branch) = replay[Len(branch)]
           /\ \A n \in 0..Len(branch) :
                replay[n] = IF n = 0 THEN <<>> ELSE ReplayEntry(replay[n - 1], branch[n])
<1> DEFINE T == Seq(ItemSet)
<1>1. Len(branch) \in Nat /\ <<>> \in T
  OBVIOUS
<1>2. \A n \in 1..Len(branch) : branch[n] \in EntrySet
  OBVIOUS
<1>3. Replays(branch) \in [1..Len(branch) -> [T -> T]]
  <2>1. ASSUME NEW n \in 1..Len(branch) PROVE Replays(branch)[n] \in [T -> T]
    <3>1. \A s \in T : ReplayEntry(s, branch[n]) \in T
      BY <1>2, ReplayTyped
    <3>2. QED
      BY <3>1 DEF Replays
  <2>2. QED
    BY <2>1 DEF Replays
<1> HIDE DEF T
<1>4. PICK p \in [0..Len(branch) -> T] : Steps(p, Len(branch), Replays(branch))
  BY <1>1, <1>3, StepsExist
<1> DEFINE Q(replay) == replay = [n \in 0..Len(branch) |->
        IF n = 0 THEN <<>> ELSE ReplayEntry(replay[n - 1], branch[n])]
<1>5. ASSUME NEW n \in 0..Len(branch)
      PROVE  p[n] = IF n = 0 THEN <<>> ELSE ReplayEntry(p[n - 1], branch[n])
  <2>1. CASE n = 0
    BY <2>1, <1>4 DEF Steps
  <2>2. CASE n # 0
    <3>1. n \in 1..Len(branch) /\ n - 1 \in 0..Len(branch)
      BY <2>2, <1>1
    <3>2. p[n - 1] \in Seq(ItemSet)
      BY <3>1 DEF T
    <3>3. Replays(branch)[n][p[n - 1]] = ReplayEntry(p[n - 1], branch[n])
      BY <3>1, <3>2 DEF Replays
    <3>4. p[n] = Replays(branch)[n][p[n - 1]]
      BY <2>2, <1>4 DEF Steps
    <3>5. QED
      BY <2>2, <3>3, <3>4
  <2>3. QED
    BY <2>1, <2>2
<1>6. Q(p)
  BY <1>5
<1> DEFINE w == CHOOSE replay : Q(replay)
<1>7. Q(w)
  BY <1>6
<1>8. Materialize(branch) = w[Len(branch)]
  BY DEF Materialize
<1> HIDE DEF w
<1>9. \A n \in 0..Len(branch) :
        w[n] = IF n = 0 THEN <<>> ELSE ReplayEntry(w[n - 1], branch[n])
  BY <1>7
<1> HIDE DEF Q
<1>10. \A n \in 0..Len(branch) : p[n] = w[n]
  <2>1. p[0] = w[0]
    BY <1>5, <1>9, <1>1
  <2>2. ASSUME NEW n \in 1..Len(branch), p[n - 1] = w[n - 1] PROVE p[n] = w[n]
    <3>1. n \in 0..Len(branch) /\ n # 0
      BY <1>1
    <3>2. QED
      BY <3>1, <2>2, <1>5, <1>9
  <2>3. StayAlike(p, w, Len(branch))
    BY <2>2 DEF StayAlike
  <2>4. QED
    BY <2>1, <2>3, <1>1, Alike
<1>11. Materialize(branch) = p[Len(branch)]
  BY <1>1, <1>8, <1>10
<1>12. QED
  BY <1>5, <1>11 DEF T

\* Replaying one entry more.
LEMMA MaterializeAppend ==
  ASSUME NEW b \in Seq(EntrySet), NEW e \in EntrySet
  PROVE  /\ Materialize(b) \in Seq(ItemSet)
         /\ Materialize(b \o <<e>>) = ReplayEntry(Materialize(b), e)
<1> DEFINE c == b \o <<e>>
<1>1. c \in Seq(EntrySet) /\ Len(c) = Len(b) + 1 /\ Len(b) \in Nat /\ c[Len(b) + 1] = e
      /\ \A n \in 1..Len(b) : c[n] = b[n]
  OBVIOUS
<1> HIDE DEF c
<1>2. PICK p \in [0..Len(b) -> Seq(ItemSet)] :
           /\ Materialize(b) = p[Len(b)]
           /\ \A n \in 0..Len(b) : p[n] = IF n = 0 THEN <<>> ELSE ReplayEntry(p[n - 1], b[n])
  BY MaterializeDef
<1>3. PICK q \in [0..Len(c) -> Seq(ItemSet)] :
           /\ Materialize(c) = q[Len(c)]
           /\ \A n \in 0..Len(c) : q[n] = IF n = 0 THEN <<>> ELSE ReplayEntry(q[n - 1], c[n])
  BY <1>1, MaterializeDef
<1>4. \A n \in 0..Len(b) : p[n] = q[n]
  <2>1. p[0] = q[0]
    <3>1. 0 \in 0..Len(b) /\ 0 \in 0..Len(c)
      BY <1>1
    <3>2. QED
      BY <3>1, <1>2, <1>3
  <2>2. ASSUME NEW n \in 1..Len(b), p[n - 1] = q[n - 1] PROVE p[n] = q[n]
    <3>1. n \in 0..Len(b) /\ n \in 0..Len(c) /\ n # 0
      BY <1>1
    <3>2. QED
      BY <3>1, <2>2, <1>1, <1>2, <1>3
  <2>3. StayAlike(p, q, Len(b))
    BY <2>2 DEF StayAlike
  <2>4. Len(b) \in Nat
    BY <1>1
  <2>5. QED
    BY <2>1, <2>3, <2>4, Alike
<1>5. Len(c) \in 0..Len(c) /\ Len(c) # 0 /\ Len(c) - 1 = Len(b) /\ Len(b) \in 0..Len(b)
  BY <1>1
<1>6. Materialize(c) = ReplayEntry(q[Len(b)], e)
  BY <1>1, <1>3, <1>5
<1>7. QED
  BY <1>2, <1>4, <1>5, <1>6 DEF c

LEMMA MaterializeNothing == Materialize(<<>>) = <<>>
<1> DEFINE b == <<>>
<1>1. b \in Seq(EntrySet) /\ Len(b) = 0
  OBVIOUS
<1> HIDE DEF b
<1>2. PICK p \in [0..Len(b) -> Seq(ItemSet)] :
           /\ Materialize(b) = p[Len(b)]
           /\ \A n \in 0..Len(b) : p[n] = IF n = 0 THEN <<>> ELSE ReplayEntry(p[n - 1], b[n])
  BY <1>1, MaterializeDef
<1>3. Materialize(b) = <<>>
  BY <1>1, <1>2
<1>4. QED
  BY <1>3 DEF b

-----------------------------------------------------------------------------
(* Branches of a file that grows. *)

\* The entries of a file have ids that grow, and parents from before them.
Ascending(f) == \A i, j \in DOMAIN f : i < j => f[i].id < f[j].id
Rootward(f)  == \A i \in DOMAIN f : f[i].parent < f[i].id

LEMMA PathDef ==
  ASSUME NEW f \in Seq(EntrySet), NEW i \in 0..MaxEntries
  PROVE  /\ PathToLeaf(f, i) \in Seq(EntrySet)
         /\ ~OnDisk(f, i) => PathToLeaf(f, i) = <<>>
         /\ OnDisk(f, i) /\ Rootward(f) =>
              /\ EntryOf(f, i).parent \in 0..MaxEntries /\ EntryOf(f, i).parent < i
              /\ PathToLeaf(f, i) = PathToLeaf(f, EntryOf(f, i).parent) \o <<EntryOf(f, i)>>
<1>1. PathToLeaf(f, i) \in Seq(EntrySet)
  BY PathsDef DEF PathToLeaf
<1>2. PathToLeaf(f, i) = Rooted(f, Paths(f), i)
  BY PathsDef DEF PathToLeaf
<1>3. ASSUME OnDisk(f, i), Rootward(f)
      PROVE  EntryOf(f, i).parent \in 0..MaxEntries /\ EntryOf(f, i).parent < i
  <2>1. EntryOf(f, i) \in ToSet(f) /\ EntryOf(f, i) \in EntrySet /\ EntryOf(f, i).id = i
    BY <1>3, EntryOfDisk
  <2>2. QED
    BY <2>1, <1>3 DEF Rootward, ToSet, EntrySet
<1>4. QED
  BY <1>1, <1>2, <1>3 DEF Rooted, PathToLeaf

\* One entry more in the file.
LEMMA DiskAppend ==
  ASSUME NEW f \in Seq(EntrySet), NEW e \in EntrySet, Ascending(f),
         \A i \in DOMAIN f : f[i].id < e.id
  PROVE  LET g == Append(f, e) IN
         /\ g \in Seq(EntrySet)
         /\ ToSet(g) = ToSet(f) \cup {e}
         /\ Ascending(g) /\ (Rootward(f) /\ e.parent < e.id => Rootward(g))
         /\ ~OnDisk(f, e.id) /\ EntryOf(g, e.id) = e
         /\ \A i : OnDisk(g, i) <=> OnDisk(f, i) \/ i = e.id
         /\ \A i : OnDisk(f, i) => EntryOf(g, i) = EntryOf(f, i)
<1> DEFINE g == Append(f, e)
<1>0. Len(f) \in Nat /\ \A i \in DOMAIN f : f[i] \in EntrySet /\ f[i].id \in Nat
  <2>1. Len(f) \in Nat /\ \A i \in DOMAIN f : f[i] \in EntrySet
    OBVIOUS
  <2>2. \A x \in EntrySet : x.id \in Nat
    BY BoundsAssumption DEF EntrySet, Ids
  <2>3. QED
    BY <2>1, <2>2
<1>1. /\ g \in Seq(EntrySet) /\ Len(g) = Len(f) + 1 /\ g[Len(f) + 1] = e
      /\ DOMAIN g = 1..(Len(f) + 1) /\ DOMAIN f = 1..Len(f)
      /\ \A i \in 1..Len(f) : g[i] = f[i]
  OBVIOUS
<1> HIDE DEF g
<1>2. ToSet(g) = ToSet(f) \cup {e}
  <2>1. \A x \in ToSet(g) : x \in ToSet(f) \cup {e}
    BY <1>0, <1>1 DEF ToSet
  <2>2. \A x \in ToSet(f) \cup {e} : x \in ToSet(g)
    <3>1. \A i \in DOMAIN f : i \in DOMAIN g /\ g[i] = f[i]
      BY <1>0, <1>1
    <3>2. Len(f) + 1 \in DOMAIN g
      BY <1>0, <1>1
    <3>3. QED
      BY <3>1, <3>2, <1>1 DEF ToSet
  <2>3. QED
    BY <2>1, <2>2
<1>3. \A i \in DOMAIN g : i = Len(f) + 1 \/ i \in DOMAIN f
  BY <1>0, <1>1
<1>4. Ascending(g)
  <2>1. ASSUME NEW i \in DOMAIN g, NEW j \in DOMAIN g, i < j PROVE g[i].id < g[j].id
    <3>1. i \in DOMAIN f /\ g[i] = f[i]
      BY <2>1, <1>0, <1>1
    <3>2. CASE j = Len(f) + 1
      BY <3>1, <3>2, <1>1
    <3>3. CASE j \in DOMAIN f
      BY <3>1, <3>3, <2>1, <1>1 DEF Ascending
    <3>4. QED
      BY <3>2, <3>3, <1>3
  <2>2. QED
    BY <2>1 DEF Ascending
<1>5. ASSUME Rootward(f), e.parent < e.id PROVE Rootward(g)
  BY <1>1, <1>3, <1>5 DEF Rootward
<1>6. \A x \in ToSet(f) : x.id < e.id /\ x.id \in Nat
  BY <1>0 DEF ToSet
<1>7. \A x, y \in ToSet(f) : x.id = y.id => x = y
  <2>1. ASSUME NEW i \in DOMAIN f, NEW j \in DOMAIN f, f[i].id = f[j].id PROVE f[i] = f[j]
    <3>1. i < j \/ j < i \/ i = j
      BY <1>0, <1>1
    <3>2. QED
      BY <3>1, <2>1, <1>0 DEF Ascending
  <2>2. QED
    BY <2>1 DEF ToSet
<1>8. ~OnDisk(f, e.id)
  BY <1>6 DEF OnDisk
<1>9. \A i : OnDisk(g, i) <=> OnDisk(f, i) \/ i = e.id
  BY <1>2 DEF OnDisk
<1>10. EntryOf(g, e.id) = e
  <2>1. \A x \in ToSet(g) : x.id = e.id <=> x = e
    BY <1>2, <1>6
  <2>2. QED
    BY <2>1, <1>2 DEF EntryOf
<1>11. ASSUME NEW i, OnDisk(f, i) PROVE EntryOf(g, i) = EntryOf(f, i)
  <2>1. EntryOf(f, i) \in ToSet(f) /\ EntryOf(f, i).id = i
    BY <1>11, EntryOfDisk
  <2>2. OnDisk(g, i)
    BY <1>9, <1>11
  <2>3. EntryOf(g, i) \in ToSet(g) /\ EntryOf(g, i).id = i
    BY <1>1, <2>2, EntryOfDisk
  <2>4. i # e.id
    BY <2>1, <1>6
  <2>5. EntryOf(g, i) \in ToSet(f)
    BY <2>3, <2>4, <1>2
  <2>6. QED
    BY <2>1, <2>3, <2>5, <1>7
<1>12. QED
  BY <1>1, <1>2, <1>4, <1>5, <1>8, <1>9, <1>10, <1>11 DEF g

\* Older branches stay what they were, the new entry ends one of its own.
LEMMA PathAppend ==
  ASSUME NEW f \in Seq(EntrySet), NEW e \in EntrySet, Ascending(f), Rootward(f),
         \A i \in DOMAIN f : f[i].id < e.id, e.parent < e.id
  PROVE  LET g == Append(f, e) IN
         /\ \A i \in 0..MaxEntries : i # e.id => PathToLeaf(g, i) = PathToLeaf(f, i)
         /\ PathToLeaf(g, e.id) = PathToLeaf(f, e.parent) \o <<e>>
<1> DEFINE g == Append(f, e)
<1>1. /\ g \in Seq(EntrySet) /\ Rootward(g)
      /\ ~OnDisk(f, e.id) /\ EntryOf(g, e.id) = e
      /\ \A i : OnDisk(g, i) <=> OnDisk(f, i) \/ i = e.id
      /\ \A i : OnDisk(f, i) => EntryOf(g, i) = EntryOf(f, i)
  BY DiskAppend
<1> HIDE DEF g
<1>2. e.id \in Nat /\ e.id \in 0..MaxEntries /\ e.parent \in 0..MaxEntries
  BY BoundsAssumption DEF EntrySet, Ids
<1> DEFINE B == {i \in 0..MaxEntries : i # e.id /\ PathToLeaf(g, i) # PathToLeaf(f, i)}
<1>3. B = {}
  <2>1. B \in SUBSET Nat
    BY BoundsAssumption
  <2>2. SUFFICES ASSUME B # {} PROVE FALSE
    OBVIOUS
  <2>3. PICK k \in B : \A j \in B : k <= j
    <3> HIDE DEF B
    <3>1. QED
      BY <2>1, <2>2, Least
  <2>4. k \in 0..MaxEntries /\ k # e.id /\ PathToLeaf(g, k) # PathToLeaf(f, k)
    OBVIOUS
  <2>5. CASE ~OnDisk(f, k)
    <3>1. PathToLeaf(f, k) = <<>>
      BY <2>4, <2>5, PathDef
    <3>2. ~OnDisk(g, k)
      BY <2>4, <2>5, <1>1
    <3>3. PathToLeaf(g, k) = <<>>
      BY <2>4, <3>2, <1>1, PathDef
    <3>4. QED
      BY <2>4, <3>1, <3>3
  <2>6. CASE OnDisk(f, k)
    <3> DEFINE p == EntryOf(f, k).parent
    <3>1. p \in 0..MaxEntries /\ p < k /\ PathToLeaf(f, k) = PathToLeaf(f, p) \o <<EntryOf(f, k)>>
      BY <2>4, <2>6, PathDef
    <3>2. OnDisk(g, k) /\ EntryOf(g, k) = EntryOf(f, k)
      BY <2>6, <1>1
    <3>3. PathToLeaf(g, k) = PathToLeaf(g, p) \o <<EntryOf(f, k)>>
      BY <2>4, <3>2, <1>1, PathDef
    <3>4. p # e.id
      <4>1. EntryOf(f, k) \in ToSet(f) /\ EntryOf(f, k).id = k
        BY <2>6, EntryOfDisk
      <4>2. k < e.id
        BY <4>1 DEF ToSet
      <4>3. QED
        BY <4>2, <3>1, <2>4, <1>2
    <3>5. p \notin B
      BY <2>3, <2>4, <3>1
    <3>6. PathToLeaf(g, p) = PathToLeaf(f, p)
      BY <3>1, <3>4, <3>5
    <3>7. QED
      BY <3>1, <3>3, <3>6, <2>4
  <2>7. QED
    BY <2>5, <2>6
<1>4. \A i \in 0..MaxEntries : i # e.id => PathToLeaf(g, i) = PathToLeaf(f, i)
  BY <1>3
<1>5. PathToLeaf(g, e.id) = PathToLeaf(g, e.parent) \o <<e>>
  BY <1>1, <1>2, PathDef
<1>6. PathToLeaf(g, e.parent) = PathToLeaf(f, e.parent)
  BY <1>2, <1>4
<1>7. QED
  BY <1>4, <1>5, <1>6 DEF g

\* The part of a branch before one of its entries is the branch of its parent.
LEMMA PathPrefix ==
  ASSUME NEW f \in Seq(EntrySet), Rootward(f), NEW i \in 0..MaxEntries,
         NEW n \in DOMAIN PathToLeaf(f, i)
  PROVE  LET x == PathToLeaf(f, i)[n] IN
         /\ x \in ToSet(f) /\ x = EntryOf(f, x.id) /\ OnDisk(f, x.id)
         /\ SubSeq(PathToLeaf(f, i), 1, n - 1) = PathToLeaf(f, x.parent)
<1> DEFINE Good(k) == \A m \in DOMAIN PathToLeaf(f, k) :
             /\ PathToLeaf(f, k)[m] \in ToSet(f)
             /\ PathToLeaf(f, k)[m] = EntryOf(f, PathToLeaf(f, k)[m].id)
             /\ OnDisk(f, PathToLeaf(f, k)[m].id)
             /\ SubSeq(PathToLeaf(f, k), 1, m - 1) = PathToLeaf(f, PathToLeaf(f, k)[m].parent)
<1> DEFINE B == {k \in 0..MaxEntries : ~Good(k)}
<1>1. B \in SUBSET Nat
  BY BoundsAssumption
<1>2. ASSUME B # {} PROVE FALSE
  <2>1. PICK k \in B : \A j \in B : k <= j
    <3> HIDE DEF B
    <3>1. QED
      BY <1>1, <1>2, Least
  <2>2. k \in 0..MaxEntries /\ ~Good(k)
    OBVIOUS
  <2>3. CASE ~OnDisk(f, k)
    <3>1. PathToLeaf(f, k) = <<>>
      BY <2>2, <2>3, PathDef
    <3>2. QED
      BY <3>1, <2>2
  <2>4. CASE OnDisk(f, k)
    <3> DEFINE e == EntryOf(f, k)
    <3> DEFINE p == e.parent
    <3>1. /\ p \in 0..MaxEntries /\ p < k
          /\ PathToLeaf(f, k) = PathToLeaf(f, p) \o <<e>>
      BY <2>2, <2>4, PathDef
    <3>2. e \in ToSet(f) /\ e \in EntrySet /\ e.id = k
      BY <2>4, EntryOfDisk
    <3>3. Good(p)
      <4> HIDE DEF B, Good, p
      <4>1. p \notin B
        BY <2>1, <2>2, <3>1
      <4>2. QED
        BY <4>1, <3>1 DEF B
    <3>4. PathToLeaf(f, p) \in Seq(EntrySet)
      BY <3>1, PathDef
    <3> DEFINE s == PathToLeaf(f, p)
    <3> HIDE DEF e, B
    <3>5. ASSUME NEW m \in DOMAIN PathToLeaf(f, k)
          PROVE  /\ PathToLeaf(f, k)[m] \in ToSet(f)
                 /\ PathToLeaf(f, k)[m] = EntryOf(f, PathToLeaf(f, k)[m].id)
                 /\ OnDisk(f, PathToLeaf(f, k)[m].id)
                 /\ SubSeq(PathToLeaf(f, k), 1, m - 1) =
                      PathToLeaf(f, PathToLeaf(f, k)[m].parent)
      <4>1. PathToLeaf(f, k) = s \o <<e>> /\ s \in Seq(EntrySet) /\ e \in EntrySet
        BY <3>1, <3>2, <3>4
      <4> HIDE DEF s
      <4>2. CASE m = Len(s) + 1
        <5>1. PathToLeaf(f, k)[m] = e
          BY <4>1, <4>2
        <5>2. SubSeq(PathToLeaf(f, k), 1, m - 1) = s
          BY <4>1, <4>2
        <5>3. QED
          BY <5>1, <5>2, <3>2, <2>4 DEF s, e
      <4>3. CASE m # Len(s) + 1
        <5>1. m \in DOMAIN s /\ PathToLeaf(f, k)[m] = s[m]
          BY <4>1, <4>3
        <5>2. SubSeq(PathToLeaf(f, k), 1, m - 1) = SubSeq(s, 1, m - 1)
          BY <4>1, <5>1
        <5>3. QED
          BY <5>1, <5>2, <3>3 DEF s
      <4>4. QED
        BY <4>2, <4>3
    <3>6. QED
      BY <3>5, <2>2
  <2>5. QED
    BY <2>3, <2>4
<1>3. Good(i)
  BY <1>2
<1>4. QED
  BY <1>3

-----------------------------------------------------------------------------
(* The inductive invariant. *)

\* Where the next entry to be written hangs in the file.
DiskLeaf == IF pending = <<>> THEN last ELSE pending[1].parent

\* Stands, of any file.
StandsIn(f, items) ==
  UNION {IF m.kind = "summary" THEN EntryOf(f, m.id).covers ELSE {m.id} : m \in ToSet(items)}

Replayed(f, i) == Materialize(PathToLeaf(f, i))
PathIds(f, i)  == {e.id : e \in ToSet(PathToLeaf(f, i))}

Says(e)  == e.kind \in Spoken
NoneSaid == \A i \in DOMAIN pending : ~Says(pending[i])
Fresh    == \A e \in ToSet(file) : ~e.stale
Writable == ~failed /\ ~poisoned
Sound    == Writable /\ ~raced
Active(o) == fold[o].stage # "none"

TypesInv ==
  /\ TypeOK
  /\ live # <<>> \/ pending # <<>> => last # 0
  /\ \A o \in Owners : Active(o) => fold[o].upTo # 0

\* Ids grow with time, parents come first, and what waits is a chain.
OrderInv ==
  /\ Ascending(file) /\ Ascending(pending)
  /\ \A i \in DOMAIN file, j \in DOMAIN pending : file[i].id < pending[j].id
  /\ \A i \in DOMAIN file : file[i].id <= stamped
  /\ \A i \in DOMAIN pending : pending[i].id <= stamped
  /\ Rootward(file) /\ Rootward(pending)

ChainInv ==
  Writable => /\ \A i, j \in DOMAIN pending : j = i + 1 => pending[j].parent = pending[i].id
              /\ pending # <<>> => last = pending[Len(pending)].id

\* Who waits for what: one message, one entry of each compaction.
WritesInv ==
  /\ \A i \in DOMAIN pending :
       /\ Says(pending[i]) => pending[i].by = "run" /\ running
       /\ pending[i].kind = "state" => pending[i].by \in {"state", "tool"}
       /\ IsFold(pending[i]) =>
            /\ pending[i].by \in Owners
            /\ fold[pending[i].by].stage = "saving"
            /\ pending[i].upTo = fold[pending[i].by].upTo
            /\ pending[i].strip = fold[pending[i].by].strip
            /\ pending[i].covers = fold[pending[i].by].covers
  /\ \A i, j \in DOMAIN pending :
       /\ Says(pending[i]) /\ Says(pending[j]) => i = j
       /\ IsFold(pending[i]) /\ IsFold(pending[j]) /\ pending[i].by = pending[j].by => i = j

TurnsInv ==
  /\ Active("run") => running /\ ~open /\ NoneSaid
  /\ Active("host") /\ ~fold["host"].stale => ~running
  /\ open => running
  /\ open /\ ~raced => live # <<>> /\ live[Len(live)].kind = "call"
  /\ raced => ~Fresh

AckedInv ==
  /\ ~failed => acked \subseteq PathIds(file, LatestEntryId(file))
  /\ Writable => acked \subseteq PathIds(file, DiskLeaf)

\* Every branch of the file replays to a conversation.
TreeInv ==
  \A i \in 0..MaxEntries :
    /\ Distinct(Replayed(file, i))
    /\ \A k \in DOMAIN Replayed(file, i) :
         OnDisk(file, Replayed(file, i)[k].id) /\ Replayed(file, i)[k].id <= i
    /\ ~failed /\ Fresh => Rounds(Replayed(file, i))

\* What replaying e drops from the conversation b.
Dropped(f, b, e) == StandsIn(f, SubSeq(b, 1, Len(b) - Len(Kept(b, e.upTo))))

CoverInv ==
  ~failed => \A i \in DOMAIN file : IsFold(file[i]) /\ ~file[i].stale =>
               Dropped(file, Replayed(file, file[i].parent), file[i]) \subseteq file[i].covers

SummariesOnDisk(f, items) ==
  \A k \in DOMAIN items : items[k].kind = "summary" => OnDisk(f, items[k].id)

LiveInv ==
  /\ SummariesOnDisk(file, live)
  /\ \A o \in Owners : SummariesOnDisk(file, fold[o].tail)
  /\ ~failed /\ Fresh => Rounds(live)
  /\ Sound => \A k \in DOMAIN live :
       live[k].id \in linked \/ \E i \in DOMAIN pending : Says(pending[i]) /\ pending[i].id = live[k].id

ReplayInv ==
  Sound => /\ NoneSaid => live = Replayed(file, DiskLeaf)
           /\ \A i \in DOMAIN pending : Says(pending[i]) =>
                live = Append(Replayed(file, DiskLeaf), Item(pending[i].id, pending[i].kind))

\* What a compaction under way took of the conversation, if it still stands.
Snapshot(o, c) ==
  /\ fold[o].upTo = live[c].id
  /\ fold[o].tail = Strip(SubSeq(live, c + 1, Len(live)), fold[o].strip)
  /\ fold[o].covers = StandsIn(file, SubSeq(live, 1, c))
  /\ c < Len(live) => live[c + 1].kind # "result"

FoldInv ==
  Sound => \A o \in Owners : Active(o) /\ ~fold[o].stale =>
             NoneSaid /\ \E c \in DOMAIN live : Snapshot(o, c)

IInv ==
  /\ TypesInv /\ OrderInv /\ ChainInv /\ WritesInv /\ TurnsInv /\ AckedInv /\ TreeInv
  /\ CoverInv /\ LiveInv /\ ReplayInv /\ FoldInv
-----------------------------------------------------------------------------
(* Entries added to and taken from a list; branches of a longer file. *)

LEMMA AppendFacts ==
  ASSUME NEW S, NEW s \in Seq(S), NEW e \in S
  PROVE  /\ Append(s, e) \in Seq(S) /\ Append(s, e) # <<>>
         /\ Len(s) \in Nat /\ Len(Append(s, e)) = Len(s) + 1 /\ DOMAIN s = 1..Len(s)
         /\ DOMAIN Append(s, e) = 1..(Len(s) + 1)
         /\ Append(s, e)[Len(s) + 1] = e /\ \A i \in 1..Len(s) : Append(s, e)[i] = s[i]
         /\ \A i \in DOMAIN Append(s, e) :
              \/ i \in DOMAIN s /\ i # Len(s) + 1 /\ Append(s, e)[i] = s[i]
              \/ i = Len(s) + 1 /\ i \notin DOMAIN s /\ Append(s, e)[i] = e
         /\ \A i \in DOMAIN s : i \in DOMAIN Append(s, e) /\ Append(s, e)[i] = s[i]
<1> DEFINE r == Append(s, e)
<1>1. /\ r \in Seq(S) /\ r # <<>> /\ Len(s) \in Nat /\ Len(r) = Len(s) + 1 /\ DOMAIN s = 1..Len(s)
      /\ DOMAIN r = 1..(Len(s) + 1) /\ r[Len(s) + 1] = e /\ \A i \in 1..Len(s) : r[i] = s[i]
  OBVIOUS
<1> HIDE DEF r
<1>2. \A i \in 1..(Len(s) + 1) : (i \in 1..Len(s) /\ i # Len(s) + 1) \/ (i = Len(s) + 1 /\ i \notin 1..Len(s))
  BY <1>1
<1>3. \A i \in 1..Len(s) : i \in 1..(Len(s) + 1)
  BY <1>1
<1>4. QED
  BY <1>1, <1>2, <1>3 DEF r

LEMMA AppendSet ==
  ASSUME NEW s \in Seq(EntrySet), NEW e \in EntrySet
  PROVE  Append(s, e) \in Seq(EntrySet) /\ ToSet(Append(s, e)) = ToSet(s) \cup {e}
<1> DEFINE c == Append(s, e)
<1>1. /\ c \in Seq(EntrySet) /\ Len(s) \in Nat /\ DOMAIN s = 1..Len(s) /\ DOMAIN c = 1..(Len(s) + 1)
      /\ c[Len(s) + 1] = e
      /\ \A i \in DOMAIN c : (i \in DOMAIN s /\ c[i] = s[i]) \/ (i = Len(s) + 1 /\ c[i] = e)
      /\ \A i \in DOMAIN s : i \in DOMAIN c /\ c[i] = s[i]
  BY AppendFacts
<1> HIDE DEF c
<1>2. Len(s) + 1 \in DOMAIN c
  BY <1>1
<1>3. ToSet(c) \subseteq ToSet(s) \cup {e}
  BY <1>1 DEF ToSet
<1>4. ToSet(s) \cup {e} \subseteq ToSet(c)
  BY <1>1, <1>2 DEF ToSet
<1>5. QED
  BY <1>1, <1>3, <1>4 DEF c

LEMMA TailFacts ==
  ASSUME NEW S, NEW s \in Seq(S), s # <<>>
  PROVE  /\ s[1] \in S /\ 1 \in DOMAIN s /\ Head(s) = s[1] /\ s[1] \in ToSet(s)
         /\ Tail(s) \in Seq(S) /\ Len(s) \in Nat /\ Len(s) > 0 /\ Len(Tail(s)) = Len(s) - 1
         /\ DOMAIN s = 1..Len(s) /\ DOMAIN Tail(s) = 1..(Len(s) - 1)
         /\ \A i \in DOMAIN Tail(s) : i \in Int /\ i > 0 /\ i + 1 \in DOMAIN s /\ i + 1 # 1 /\ Tail(s)[i] = s[i + 1]
         /\ ToSet(Tail(s)) \subseteq ToSet(s)
<1> DEFINE t == Tail(s)
<1>1. s[1] \in S /\ 1 \in DOMAIN s /\ Head(s) = s[1]
  OBVIOUS
<1>2. /\ t \in Seq(S) /\ Len(s) \in Nat /\ Len(s) > 0 /\ Len(t) = Len(s) - 1
      /\ DOMAIN s = 1..Len(s) /\ DOMAIN t = 1..(Len(s) - 1)
  OBVIOUS
<1>3. \A i \in 1..(Len(s) - 1) : t[i] = s[i + 1]
  OBVIOUS
<1>4. \A i \in 1..(Len(s) - 1) : i \in Int /\ i > 0 /\ i + 1 \in 1..Len(s) /\ i + 1 # 1
  BY <1>2
<1> HIDE DEF t
<1>5. ToSet(t) \subseteq ToSet(s)
  BY <1>2, <1>3, <1>4 DEF ToSet
<1>6. s[1] \in ToSet(s)
  BY <1>1 DEF ToSet
<1>7. QED
  BY <1>1, <1>2, <1>3, <1>4, <1>5, <1>6 DEF t

LEMMA ReplayedTyped ==
  ASSUME NEW f \in Seq(EntrySet), NEW i \in 0..MaxEntries
  PROVE  Replayed(f, i) \in Seq(ItemSet)
<1>1. PathToLeaf(f, i) \in Seq(EntrySet)
  BY PathDef
<1>2. PICK p \in [0..Len(PathToLeaf(f, i)) -> Seq(ItemSet)] :
         Materialize(PathToLeaf(f, i)) = p[Len(PathToLeaf(f, i))]
  BY <1>1, MaterializeDef
<1>3. Len(PathToLeaf(f, i)) \in 0..Len(PathToLeaf(f, i))
  BY <1>1
<1>4. QED
  BY <1>2, <1>3 DEF Replayed

\* One entry more in the file adds a branch and changes none.
LEMMA GrowTree ==
  ASSUME NEW f \in Seq(EntrySet), NEW e \in EntrySet, Ascending(f), Rootward(f),
         \A i \in DOMAIN f : f[i].id < e.id, e.parent < e.id
  PROVE  LET g == Append(f, e) IN
         /\ \A i \in 0..MaxEntries : i # e.id =>
              Replayed(g, i) = Replayed(f, i) /\ PathIds(g, i) = PathIds(f, i)
         /\ Replayed(g, e.id) = ReplayEntry(Replayed(f, e.parent), e)
         /\ PathIds(g, e.id) = PathIds(f, e.parent) \cup {e.id}
<1> DEFINE g == Append(f, e)
<1>1. /\ \A i \in 0..MaxEntries : i # e.id => PathToLeaf(g, i) = PathToLeaf(f, i)
      /\ PathToLeaf(g, e.id) = PathToLeaf(f, e.parent) \o <<e>>
  BY PathAppend
<1> HIDE DEF g
<1>2. e.parent \in 0..MaxEntries
  BY DEF EntrySet
<1> DEFINE b == PathToLeaf(f, e.parent)
<1>3. b \in Seq(EntrySet)
  BY <1>2, PathDef
<1>4. Replayed(g, e.id) = ReplayEntry(Replayed(f, e.parent), e)
  <2> HIDE DEF b
  <2>1. Materialize(b \o <<e>>) = ReplayEntry(Materialize(b), e)
    BY <1>3, MaterializeAppend
  <2>2. QED
    BY <2>1, <1>1 DEF Replayed, b
<1>5. PathIds(g, e.id) = PathIds(f, e.parent) \cup {e.id}
  <2> HIDE DEF b
  <2>1. b \o <<e>> = Append(b, e)
    BY <1>3
  <2>2. ToSet(Append(b, e)) = ToSet(b) \cup {e}
    BY <1>3, AppendSet
  <2>3. {x.id : x \in ToSet(b) \cup {e}} = {x.id : x \in ToSet(b)} \cup {e.id}
    OBVIOUS
  <2>4. PathToLeaf(g, e.id) = Append(b, e)
    BY <1>1, <2>1 DEF b
  <2>5. QED
    BY <2>2, <2>3, <2>4 DEF PathIds, b
<1>6. QED
  BY <1>1, <1>4, <1>5 DEF Replayed, PathIds, g

\* What messages stand for does not change as the file grows.
LEMMA StandsSame ==
  ASSUME NEW f, NEW g, NEW items, SummariesOnDisk(f, items),
         \A i : OnDisk(f, i) => EntryOf(g, i) = EntryOf(f, i)
  PROVE  StandsIn(g, items) = StandsIn(f, items)
<1>1. \A m \in ToSet(items) : m.kind = "summary" => EntryOf(g, m.id) = EntryOf(f, m.id)
  BY DEF SummariesOnDisk, ToSet
<1>2. {IF m.kind = "summary" THEN EntryOf(f, m.id).covers ELSE {m.id} : m \in ToSet(items)}
      = {IF m.kind = "summary" THEN EntryOf(g, m.id).covers ELSE {m.id} : m \in ToSet(items)}
  BY <1>1
<1>3. QED
  BY <1>2 DEF StandsIn

LEMMA StandsTyped ==
  ASSUME NEW f \in Seq(EntrySet), NEW items \in Seq(ItemSet), SummariesOnDisk(f, items)
  PROVE  StandsIn(f, items) \subseteq Ids
<1>1. ASSUME NEW m \in ToSet(items)
      PROVE  (IF m.kind = "summary" THEN EntryOf(f, m.id).covers ELSE {m.id}) \subseteq Ids
  <2>1. m \in ItemSet /\ m.id \in Ids
    <3>1. m \in ItemSet
      BY DEF ToSet
    <3>2. QED
      BY <3>1 DEF ItemSet
  <2>2. ASSUME m.kind = "summary" PROVE EntryOf(f, m.id).covers \subseteq Ids
    <3>1. OnDisk(f, m.id)
      BY <2>2 DEF SummariesOnDisk, ToSet
    <3>2. EntryOf(f, m.id) \in EntrySet
      BY <3>1, EntryOfDisk
    <3>3. QED
      BY <3>2 DEF EntrySet
  <2>3. QED
    BY <2>1, <2>2
<1>2. QED
  BY <1>1 DEF StandsIn

LEMMA PartSummaries ==
  ASSUME NEW f, NEW items \in Seq(ItemSet), NEW a \in Int, NEW b \in Int, 1 <= a, b <= Len(items),
         SummariesOnDisk(f, items)
  PROVE  SubSeq(items, a, b) \in Seq(ItemSet) /\ SummariesOnDisk(f, SubSeq(items, a, b))
<1>1. SubSeq(items, a, b) \in Seq(ItemSet)
  OBVIOUS
<1>2. ASSUME NEW k \in DOMAIN SubSeq(items, a, b)
      PROVE  \E i \in DOMAIN items : SubSeq(items, a, b)[k] = items[i]
  <2>1. k + a - 1 \in DOMAIN items /\ SubSeq(items, a, b)[k] = items[a + k - 1]
    OBVIOUS
  <2>2. QED
    BY <2>1
<1>3. QED
  BY <1>1, <1>2 DEF SummariesOnDisk

-----------------------------------------------------------------------------
(* Types. *)

LastHeld == (live # <<>> \/ pending # <<>>) => last # 0
FoldTyped(r) ==
  r \in [stage : {"none", "summarising", "saving"}, covers : SUBSET Ids,
         upTo : 0..MaxEntries, tail : Seq(ItemSet), strip : BOOLEAN, stale : BOOLEAN]

LEMMA NoFoldTyped == FoldTyped(NoFold)
<1>1. <<>> \in Seq(ItemSet)
  OBVIOUS
<1>2. 0 \in 0..MaxEntries
  BY BoundsAssumption
<1>3. QED
  BY <1>1, <1>2 DEF FoldTyped, NoFold

LEMMA FoldsTyped ==
  ASSUME TypesInv
  PROVE  /\ \A o \in Owners : FoldTyped(fold[o])
         /\ fold = [o \in Owners |-> fold[o]]
BY DEF TypesInv, TypeOK, FoldTyped

\* Outdated changes nothing but the mark.
LEMMA OutdatedFacts ==
  ASSUME NEW folds, \A o \in Owners : FoldTyped(folds[o])
  PROVE  /\ Outdated(folds) \in [Owners -> [stage : {"none", "summarising", "saving"},
              covers : SUBSET Ids, upTo : 0..MaxEntries, tail : Seq(ItemSet), strip : BOOLEAN,
              stale : BOOLEAN]]
         /\ \A o \in Owners :
              /\ Outdated(folds)[o].stage = folds[o].stage
              /\ Outdated(folds)[o].covers = folds[o].covers
              /\ Outdated(folds)[o].upTo = folds[o].upTo
              /\ Outdated(folds)[o].tail = folds[o].tail
              /\ Outdated(folds)[o].strip = folds[o].strip
              /\ Outdated(folds)[o].stage # "none" => Outdated(folds)[o].stale
<1> DEFINE R == [stage : {"none", "summarising", "saving"}, covers : SUBSET Ids,
                 upTo : 0..MaxEntries, tail : Seq(ItemSet), strip : BOOLEAN, stale : BOOLEAN]
<1>1. ASSUME NEW r \in R, NEW b \in BOOLEAN
      PROVE  LET q == [r EXCEPT !.stale = b] IN
             /\ q \in R /\ q.stage = r.stage /\ q.covers = r.covers /\ q.upTo = r.upTo
             /\ q.tail = r.tail /\ q.strip = r.strip /\ q.stale = b
  OBVIOUS
<1>2. ASSUME NEW o \in Owners
      PROVE  /\ folds[o] \in R
             /\ Outdated(folds)[o] = [folds[o] EXCEPT !.stale = folds[o].stale \/ folds[o].stage # "none"]
             /\ (folds[o].stale \/ folds[o].stage # "none") \in BOOLEAN
  BY DEF FoldTyped, Outdated
<1>3. Outdated(folds) = [o \in Owners |-> Outdated(folds)[o]]
  BY DEF Outdated
<1>4. ASSUME NEW o \in Owners
      PROVE  /\ Outdated(folds)[o] \in R
             /\ Outdated(folds)[o].stage = folds[o].stage
             /\ Outdated(folds)[o].covers = folds[o].covers
             /\ Outdated(folds)[o].upTo = folds[o].upTo
             /\ Outdated(folds)[o].tail = folds[o].tail
             /\ Outdated(folds)[o].strip = folds[o].strip
             /\ Outdated(folds)[o].stage # "none" => Outdated(folds)[o].stale
  <2> DEFINE b == folds[o].stale \/ folds[o].stage # "none"
  <2> DEFINE r == folds[o]
  <2>1. r \in R /\ b \in BOOLEAN /\ Outdated(folds)[o] = [r EXCEPT !.stale = b]
    BY <1>2
  <2>2. r.stage # "none" => b
    OBVIOUS
  <2> HIDE DEF b, r, R
  <2>3. /\ Outdated(folds)[o] \in R
        /\ Outdated(folds)[o].stage = r.stage
        /\ Outdated(folds)[o].covers = r.covers
        /\ Outdated(folds)[o].upTo = r.upTo
        /\ Outdated(folds)[o].tail = r.tail
        /\ Outdated(folds)[o].strip = r.strip
        /\ Outdated(folds)[o].stale = b
    BY <2>1, <1>1
  <2>4. QED
    BY <2>2, <2>3 DEF r
<1>5. Outdated(folds) \in [Owners -> R]
  BY <1>3, <1>4
<1>6. QED
  BY <1>4, <1>5

\* An entry being queued by an action.
Queued(e) ==
  /\ stamped < MaxEntries /\ e \in EntrySet /\ e.id = stamped + 1 /\ e.parent = last
  /\ (IsFold(e) <=> e.upTo # 0)
  /\ stamped' = stamped + 1 /\ last' = e.id /\ pending' = Append(pending, e)
  /\ UNCHANGED <<file, kills, acked, failed, poisoned, linked, raced>>

LEMMA EntryTyped ==
  ASSUME TypesInv, stamped < MaxEntries, NEW k \in Spoken \cup {"state"}
  PROVE  /\ Entry(stamped + 1, k) \in EntrySet
         /\ Entry(stamped + 1, k).id = stamped + 1 /\ Entry(stamped + 1, k).parent = last
         /\ Entry(stamped + 1, k).kind = k /\ Entry(stamped + 1, k).upTo = 0
         /\ Entry(stamped + 1, k).by = "run"
         /\ Item(stamped + 1, k).id = stamped + 1 /\ Item(stamped + 1, k).kind = k
         /\ k \in Spoken => Item(stamped + 1, k) \in ItemSet
<1>1. stamped \in Nat /\ stamped + 1 \in Ids /\ last \in 0..MaxEntries /\ 0 \in 0..MaxEntries
  BY BoundsAssumption DEF TypesInv, TypeOK, Ids
<1>2. k \in Kinds
  BY DEF Kinds
<1>3. QED
  BY <1>1, <1>2 DEF Entry, EntrySet, Item, ItemSet

\* Every action that says something.
Said(k) ==
  /\ k \in Spoken
  /\ Queued(Entry(stamped + 1, k))
  /\ live' = Append(live, Item(stamped + 1, k))
  /\ open' = (k = "call") /\ fold' = Outdated(fold)

LEMMA PromptEffect ==
  ASSUME TypesInv, Prompt
  PROVE  Said("user") /\ ~running /\ running'
<1>1. "user" \in Spoken \cup {"state"} /\ "user" \in Spoken /\ ~IsFold(Entry(stamped + 1, "user"))
  BY DEF Spoken, IsFold, Entry
<1>2. QED
  BY <1>1, EntryTyped DEF Prompt, Say, Enqueue, Said, Queued, CanStamp, Entry

LEMMA SpeakEffect ==
  ASSUME TypesInv, Speak
  PROVE  \E k \in Spoken : Said(k) /\ running /\ running' = running /\ ~RunBusy /\ (open <=> k = "result")
<1>1. PICK k \in Spoken : (open <=> k = "result") /\ Say(k)
  BY DEF Speak
<1>2. k \in Spoken \cup {"state"} /\ ~IsFold(Entry(stamped + 1, k))
  BY DEF Spoken, IsFold, Entry
<1>3. QED
  BY <1>1, <1>2, EntryTyped DEF Speak, Say, Enqueue, Said, Queued, CanStamp, Entry

LEMMA StateEffect ==
  ASSUME TypesInv, RecordState \/ ToolState
  PROVE  \E e : /\ Queued(e) /\ e.kind = "state" /\ e.by \in {"state", "tool"}
                /\ UNCHANGED <<live, open, fold, running>>
<1> DEFINE r == Entry(stamped + 1, "state")
<1>1. stamped < MaxEntries
  BY DEF RecordState, ToolState, CanStamp
<1>2. r \in EntrySet /\ r.id = stamped + 1 /\ r.parent = last /\ r.kind = "state" /\ r.upTo = 0
  BY <1>1, EntryTyped
<1> HIDE DEF r
<1>3. \A b \in {"state", "tool"} :
        LET e == [r EXCEPT !.by = b] IN
        /\ e \in EntrySet /\ e.id = stamped + 1 /\ e.parent = last /\ e.kind = "state" /\ e.upTo = 0
        /\ e.by = b
  BY <1>2 DEF EntrySet
<1>4. PICK b \in {"state", "tool"} : Enqueue([r EXCEPT !.by = b])
  BY DEF RecordState, ToolState, r
<1> DEFINE e == [r EXCEPT !.by = b]
<1>5. /\ e \in EntrySet /\ e.id = stamped + 1 /\ e.parent = last /\ e.kind = "state" /\ e.upTo = 0
      /\ e.by = b /\ Enqueue(e)
  BY <1>3, <1>4
<1> HIDE DEF e
<1>6. UNCHANGED <<file, kills, acked, failed, poisoned, linked, raced, live, open, fold, running>>
  BY DEF RecordState, ToolState
<1>7. Queued(e)
  BY <1>1, <1>5, <1>6 DEF Queued, Enqueue, IsFold
<1>8. QED
  BY <1>5, <1>6, <1>7

LEMMA ArrivesEffect ==
  ASSUME TypesInv, NEW o \in Owners, SummaryArrives(o)
  PROVE  \E e : /\ Queued(e) /\ e.kind = "fold" /\ e.by = o /\ e.upTo = fold[o].upTo
                /\ e.strip = fold[o].strip /\ e.covers = fold[o].covers
                /\ fold[o].stage = "summarising"
                /\ fold' = [fold EXCEPT ![o].stage = "saving"]
                /\ UNCHANGED <<live, open, running>>
<1> DEFINE r == Entry(stamped + 1, "fold")
<1>1. stamped < MaxEntries /\ fold[o].stage = "summarising"
  BY DEF SummaryArrives, CanStamp
<1>2. stamped \in Nat /\ stamped + 1 \in Ids /\ last \in 0..MaxEntries /\ 0 \in 0..MaxEntries
  BY <1>1, BoundsAssumption DEF TypesInv, TypeOK, Ids
<1>3. r \in EntrySet /\ r.id = stamped + 1 /\ r.parent = last /\ r.kind = "fold" 
  BY <1>2 DEF Entry, EntrySet, Kinds
<1> HIDE DEF r
<1>4. FoldTyped(fold[o]) /\ fold[o].upTo # 0
  BY <1>1, FoldsTyped DEF TypesInv, Active
<1>5. PICK c \in BOOLEAN :
        Enqueue([r EXCEPT !.by = o, !.upTo = fold[o].upTo,
                  !.strip = fold[o].strip, !.covers = fold[o].covers, !.cut = c])
  BY DEF SummaryArrives, r
<1> DEFINE e == [r EXCEPT !.by = o, !.upTo = fold[o].upTo,
                  !.strip = fold[o].strip, !.covers = fold[o].covers, !.cut = c]
<1>6. /\ e.id = stamped + 1 /\ e.parent = last /\ e.kind = "fold" /\ e.upTo = fold[o].upTo
      /\ e.by = o /\ e.strip = fold[o].strip /\ e.covers = fold[o].covers
  BY <1>3 DEF EntrySet
<1>7. e \in EntrySet
  BY <1>3, <1>4 DEF EntrySet, FoldTyped, Owners
<1>8. Enqueue(e)
  BY <1>5
<1> HIDE DEF e
<1>9. Queued(e)
  BY <1>1, <1>4, <1>6, <1>7, <1>8 DEF SummaryArrives, Queued, Enqueue, IsFold
<1>10. QED
  BY <1>1, <1>6, <1>9 DEF SummaryArrives

-----------------------------------------------------------------------------
(* What a settled write, a death and the start of a compaction do. *)

SameEntry(g, e) ==
  /\ g.id = e.id /\ g.parent = e.parent /\ g.kind = e.kind /\ g.upTo = e.upTo
  /\ g.strip = e.strip /\ g.covers = e.covers /\ g.by = e.by

\* The oldest entry reaches the file, as g.
Stored(g) ==
  /\ pending # <<>> /\ ~poisoned
  /\ g \in EntrySet /\ SameEntry(g, pending[1])
  /\ file' = Append(file, g) /\ pending' = Tail(pending)
  /\ UNCHANGED <<stamped, last, poisoned, running, open, kills, failed>>

StoredFold(g) ==
  /\ Stored(g) /\ IsFold(g) /\ g.by \in Owners
  /\ raced' = (raced \/ fold[g.by].stale) /\ g.stale = raced'
  /\ live' = <<Item(g.id, "summary")>> \o fold[g.by].tail
  /\ linked' = linked \cup {g.id}
  /\ fold' = Outdated([fold EXCEPT ![g.by] = NoFold])
  /\ acked' = acked

StoredOther(g) ==
  /\ Stored(g) /\ ~IsFold(g)
  /\ UNCHANGED <<live, fold, raced>>
  /\ linked' = IF g.by = "run" THEN linked \cup {g.id} ELSE linked
  /\ acked' = IF g.by = "run" THEN acked \cup {g.id} ELSE acked

LEMMA HeadTyped ==
  ASSUME TypesInv, pending # <<>>
  PROVE  /\ pending[1] \in EntrySet /\ 1 \in DOMAIN pending /\ Head(pending) = pending[1]
         /\ pending[1] \in ToSet(pending) /\ (IsFold(pending[1]) <=> pending[1].upTo # 0)
<1>1. pending \in Seq(EntrySet)
  BY DEF TypesInv, TypeOK
<1>2. /\ pending[1] \in EntrySet /\ 1 \in DOMAIN pending /\ Head(pending) = pending[1]
      /\ pending[1] \in ToSet(pending)
  BY <1>1, TailFacts
<1>3. QED
  BY <1>2 DEF TypesInv, TypeOK

LEMMA ReachEffect ==
  ASSUME TypesInv, WritesInv, WriteReaches
  PROVE  \E g : StoredFold(g) \/ StoredOther(g)
<1> DEFINE e == pending[1]
<1>1. /\ pending # <<>> /\ ~poisoned /\ e \in EntrySet /\ Head(pending) = e /\ 1 \in DOMAIN pending
  BY HeadTyped DEF WriteReaches
<1>2. CASE ~IsFold(e)
  <2>1. StoredOther(e)
    BY <1>1, <1>2 DEF WriteReaches, StoredOther, Stored, SameEntry
  <2>2. QED
    BY <2>1
<1>3. CASE IsFold(e)
  <2> DEFINE g == [e EXCEPT !.stale = raced']
  <2>1. e.by \in Owners
    BY <1>1, <1>3 DEF WritesInv
  <2>2. /\ raced' = (raced \/ fold[e.by].stale) /\ file' = Append(file, g)
        /\ live' = <<Item(e.id, "summary")>> \o fold[e.by].tail
        /\ linked' = linked \cup {e.id}
        /\ fold' = Outdated([fold EXCEPT ![e.by] = NoFold])
        /\ acked' = acked /\ pending' = Tail(pending)
        /\ UNCHANGED <<stamped, last, poisoned, running, open, kills, failed>>
    BY <1>1, <1>3 DEF WriteReaches
  <2>3. raced' \in BOOLEAN
    BY <2>2
  <2>4. g \in EntrySet /\ SameEntry(g, e) /\ g.stale = raced'
    BY <1>1, <2>3 DEF EntrySet, SameEntry
  <2>5. IsFold(g) /\ g.by = e.by /\ g.id = e.id
    BY <1>3, <2>4 DEF SameEntry, IsFold
  <2> HIDE DEF g
  <2>6. Stored(g)
    BY <1>1, <2>2, <2>4 DEF Stored
  <2>7. StoredFold(g)
    BY <2>1, <2>2, <2>4, <2>5, <2>6 DEF StoredFold
  <2>8. QED
    BY <2>7
<1>4. QED
  BY <1>2, <1>3

LEMMA FailEffect ==
  ASSUME TypesInv, WritesInv, WriteFails
  PROVE  /\ pending # <<>> /\ pending' = Tail(pending)
         /\ (failed => failed') /\ ~Writable' /\ failed' \in BOOLEAN /\ poisoned' \in BOOLEAN
         /\ running' = (running /\ ~Says(pending[1])) /\ open' = (open /\ running')
         /\ IsFold(pending[1]) => pending[1].by \in Owners
         /\ fold' = IF IsFold(pending[1]) THEN [fold EXCEPT ![pending[1].by] = NoFold] ELSE fold
         /\ UNCHANGED <<file, stamped, last, live, linked, kills, acked, raced>>
<1> DEFINE e == pending[1]
<1>1. pending # <<>> /\ e \in EntrySet /\ Head(pending) = e /\ 1 \in DOMAIN pending
  BY HeadTyped DEF WriteFails
<1>2. /\ poisoned' = (poisoned \/ e.by = "state")
      /\ failed' = (failed \/ (e.by # "state" /\ ~poisoned))
      /\ running' = (running /\ (e.by # "run" \/ IsFold(e)))
      /\ fold' = IF IsFold(e) THEN [fold EXCEPT ![e.by] = NoFold] ELSE fold
      /\ open' = (open /\ running') /\ pending' = Tail(pending)
      /\ UNCHANGED <<file, stamped, last, live, linked, kills, acked, raced>>
  BY <1>1 DEF WriteFails, KeepFailure
<1>3. /\ Says(e) => e.by = "run" /\ e.kind # "fold"
      /\ e.kind = "state" => e.by \in {"state", "tool"}
      /\ IsFold(e) => e.by \in Owners
      /\ Says(e) \/ e.kind = "state" \/ IsFold(e)
  BY <1>1 DEF WritesInv, Says, Spoken, EntrySet, Kinds, IsFold
<1>4. (e.by # "run" \/ IsFold(e)) <=> ~Says(e)
  BY <1>3 DEF IsFold
<1>5. QED
  BY <1>1, <1>2, <1>3, <1>4 DEF Writable

LEMMA KillEffect ==
  ASSUME TypesInv, KillAndResume
  PROVE  \E leaf \in 0..MaxEntries :
           /\ leaf = LatestEntryId(file) \/ OnDisk(file, leaf)
           /\ leaf <= stamped \/ ~OrderInv
           /\ live' = Replayed(file, leaf) /\ linked' = ItemIds(live') /\ last' = leaf
           /\ (acked' = acked /\ leaf = LatestEntryId(file)) \/ acked' = acked \cap PathIds(file, leaf)
           /\ pending' = <<>> /\ ~poisoned' /\ ~running' /\ ~open' /\ ~raced'
           /\ poisoned' = FALSE /\ running' = FALSE /\ open' = FALSE /\ raced' = FALSE
           /\ fold' = [o \in Owners |-> NoFold]
           /\ kills < MaxKills /\ kills' = kills + 1
           /\ UNCHANGED <<file, stamped, failed>>
<1>1. PICK leaf \in {LatestEntryId(file)} \cup {e.id : e \in ToSet(file)} :
        /\ live' = Materialize(PathToLeaf(file, leaf))
        /\ linked' = ItemIds(live')
        /\ last' = leaf
        /\ acked' = IF leaf = LatestEntryId(file) THEN acked
                    ELSE acked \cap {e.id : e \in ToSet(PathToLeaf(file, leaf))}
  BY DEF KillAndResume
<1>2. file \in Seq(EntrySet) /\ stamped \in Nat
  BY BoundsAssumption DEF TypesInv, TypeOK
<1>3. \A e \in ToSet(file) : e \in EntrySet /\ e.id \in 0..MaxEntries
  <2>1. \A e \in ToSet(file) : e \in EntrySet
    BY <1>2 DEF ToSet
  <2>2. QED
    BY <2>1 DEF EntrySet, Ids
<1>4. file # <<>> => Last(file) \in ToSet(file)
  <2>1. file # <<>> => Len(file) \in DOMAIN file
    BY <1>2
  <2>2. QED
    BY <2>1 DEF Last, ToSet
<1>5. leaf = 0 \/ \E e \in ToSet(file) : e.id = leaf
  BY <1>1, <1>4 DEF LatestEntryId
<1>6. leaf \in 0..MaxEntries
  BY <1>3, <1>5, BoundsAssumption
<1>7. OrderInv => leaf <= stamped
  BY <1>2, <1>5 DEF OrderInv, ToSet
<1>8. leaf = LatestEntryId(file) \/ OnDisk(file, leaf)
  BY <1>1 DEF OnDisk
<1>9. QED
  BY <1>1, <1>6, <1>7, <1>8 DEF KillAndResume, Replayed, PathIds

\* What a compaction takes when it starts.
LEMMA StartEffect ==
  ASSUME TypesInv, LiveInv, NEW o \in Owners, StartFold(o)
  PROVE  \E c \in DOMAIN live : \E r :
           /\ FoldTyped(r) /\ r.stage = "summarising" /\ ~r.stale
           /\ r.upTo = UpToId(c) /\ r.covers = StandsIn(file, SubSeq(live, 1, c))
           /\ r.tail = Strip(SubSeq(live, c + 1, Len(live)), r.strip)
           /\ SummariesOnDisk(file, r.tail)
           /\ c < Len(live) => live[c + 1].kind # "result"
           /\ fold' = [fold EXCEPT ![o] = r] /\ r.upTo # 0
           /\ fold[o].stage = "none"
           /\ IF o = "run" THEN running /\ ~RunBusy /\ ~open ELSE ~running
           /\ UNCHANGED <<file, stamped, last, live, linked, pending, poisoned, running, open, kills,
                          acked, failed, raced>>
<1>1. PICK shape \in {"keep-tail", "simple"} : \E cut \in Cuts(shape), strip \in BOOLEAN :
        fold' = [fold EXCEPT ![o] =
            [stage |-> "summarising", covers |-> Stands(SubSeq(live, 1, cut)),
             upTo |-> UpToId(cut), strip |-> strip, stale |-> FALSE,
             tail |-> Strip(SubSeq(live, cut + 1, Len(live)), strip)]]
  BY DEF StartFold
<1>2. PICK c \in Cuts(shape), strip \in BOOLEAN :
        fold' = [fold EXCEPT ![o] =
            [stage |-> "summarising", covers |-> Stands(SubSeq(live, 1, c)),
             upTo |-> UpToId(c), strip |-> strip, stale |-> FALSE,
             tail |-> Strip(SubSeq(live, c + 1, Len(live)), strip)]]
  BY <1>1
<1>3. /\ live \in Seq(ItemSet) /\ Len(live) \in Nat /\ DOMAIN live = 1..Len(live)
      /\ file \in Seq(EntrySet) /\ SummariesOnDisk(file, live)
  BY DEF TypesInv, TypeOK, LiveInv
<1>4. c \in 1..Len(live) /\ (c < Len(live) => Opens(live[c + 1]))
  <2>1. CASE shape = "keep-tail"
    BY <1>3, <2>1 DEF Cuts
  <2>2. CASE shape # "keep-tail"
    <3>1. c \in 1..Len(live) /\ \A j \in (c + 1)..Len(live) : Opens(live[j])
      BY <2>2 DEF Cuts
    <3>2. c < Len(live) => c + 1 \in (c + 1)..Len(live)
      BY <3>1, <1>3
    <3>3. QED
      BY <3>1, <3>2
  <2>3. QED
    BY <2>1, <2>2
<1>5. c < Len(live) => live[c + 1].kind # "result"
  BY <1>4 DEF Opens
<1> DEFINE t0 == SubSeq(live, c + 1, Len(live))
<1> DEFINE h == SubSeq(live, 1, c)
<1>6. c + 1 \in Int /\ 1 <= c + 1 /\ Len(live) \in Int /\ Len(live) <= Len(live) /\ c <= Len(live) /\ c \in Int
  BY <1>3, <1>4
<1>7. t0 \in Seq(ItemSet) /\ SummariesOnDisk(file, t0)
  BY <1>3, <1>6, PartSummaries
<1>8. h \in Seq(ItemSet) /\ SummariesOnDisk(file, h)
  BY <1>3, <1>6, PartSummaries
<1> HIDE DEF t0, h
<1>9. Strip(t0, strip) \in Seq(ItemSet) /\ SummariesOnDisk(file, Strip(t0, strip))
  BY <1>7, StripKeeps DEF SummariesOnDisk
<1>10. Stands(h) = StandsIn(file, h) /\ StandsIn(file, h) \subseteq Ids
  BY <1>3, <1>8, StandsTyped DEF Stands, StandsIn
<1>11. UpToId(c) \in 0..MaxEntries /\ UpToId(c) # 0
  <2>a. live[c] \in ItemSet /\ live # <<>>
    BY <1>3, <1>4
  <2>1. live[c] \in ItemSet /\ live[c].id \in Ids /\ live # <<>>
    BY <2>a DEF ItemSet
  <2>2. last # 0 /\ last \in 0..MaxEntries
    BY <2>1, BoundsAssumption DEF TypesInv, TypeOK
  <2>3. live[c].id \in 0..MaxEntries /\ live[c].id # 0
    BY <2>1 DEF Ids
  <2>4. QED
    BY <2>2, <2>3 DEF UpToId
<1> DEFINE r == [stage |-> "summarising", covers |-> Stands(h), upTo |-> UpToId(c), strip |-> strip,
                 stale |-> FALSE, tail |-> Strip(t0, strip)]
<1>12. FoldTyped(r)
  BY <1>9, <1>10, <1>11 DEF FoldTyped
<1>13. /\ r.stage = "summarising" /\ ~r.stale /\ r.upTo = UpToId(c) /\ r.covers = StandsIn(file, h)
       /\ r.strip = strip /\ r.tail = Strip(t0, r.strip) /\ SummariesOnDisk(file, r.tail) /\ r.upTo # 0
  BY <1>9, <1>10, <1>11
<1>14. fold' = [fold EXCEPT ![o] = r]
  BY <1>2 DEF t0, h
<1> HIDE DEF r
<1>15. QED
  BY <1>3, <1>4, <1>5, <1>12, <1>13, <1>14 DEF StartFold, t0, h

-----------------------------------------------------------------------------
(* Every variable keeps its type. *)

\* Queueing an entry.
LEMMA QueueFacts ==
  ASSUME TypesInv, NEW e, Queued(e)
  PROVE  /\ pending' \in Seq(EntrySet) /\ ToSet(pending') = ToSet(pending) \cup {e}
         /\ \A i \in DOMAIN pending' :
              \/ i \in DOMAIN pending /\ i # Len(pending) + 1 /\ pending'[i] = pending[i]
              \/ i = Len(pending) + 1 /\ i \notin DOMAIN pending /\ pending'[i] = e
         /\ \A i \in DOMAIN pending : i \in DOMAIN pending' /\ pending'[i] = pending[i]
         /\ Len(pending) + 1 \in DOMAIN pending' /\ pending'[Len(pending) + 1] = e
         /\ pending' # <<>> /\ Len(pending') = Len(pending) + 1
         /\ e.id # 0 /\ last' # 0 /\ last' \in 0..stamped' /\ stamped' \in 0..MaxEntries
<1>1. pending \in Seq(EntrySet) /\ e \in EntrySet /\ pending' = Append(pending, e)
  BY DEF TypesInv, TypeOK, Queued
<1>2. /\ pending' \in Seq(EntrySet) /\ pending' # <<>>
      /\ Len(pending) \in Nat /\ Len(pending') = Len(pending) + 1 /\ DOMAIN pending = 1..Len(pending)
      /\ DOMAIN pending' = 1..(Len(pending) + 1) /\ pending'[Len(pending) + 1] = e
      /\ \A i \in DOMAIN pending' :
              \/ i \in DOMAIN pending /\ i # Len(pending) + 1 /\ pending'[i] = pending[i]
              \/ i = Len(pending) + 1 /\ i \notin DOMAIN pending /\ pending'[i] = e
      /\ \A i \in DOMAIN pending : i \in DOMAIN pending' /\ pending'[i] = pending[i]
  BY <1>1, AppendFacts
<1>3. Len(pending) + 1 \in DOMAIN pending'
  BY <1>2
<1>4. ToSet(pending') = ToSet(pending) \cup {e}
  BY <1>1, AppendSet
<1>5. stamped \in Nat /\ e.id = stamped + 1 /\ last' = e.id /\ stamped' = stamped + 1 /\ stamped < MaxEntries
  BY BoundsAssumption DEF TypesInv, TypeOK, Queued
<1>6. e.id # 0 /\ last' # 0 /\ last' \in 0..stamped' /\ stamped' \in 0..MaxEntries
  BY <1>5, BoundsAssumption
<1>7. QED
  BY <1>2, <1>3, <1>4, <1>6

FoldRecords == [stage : {"none", "summarising", "saving"}, covers : SUBSET Ids,
                upTo : 0..MaxEntries, tail : Seq(ItemSet), strip : BOOLEAN, stale : BOOLEAN]

LEMMA TypesQueue ==
  ASSUME TypesInv, NEW e, Queued(e),
         live' \in Seq(ItemSet), open' \in BOOLEAN, running' \in BOOLEAN,
         fold' \in [Owners -> FoldRecords],
         \A o \in Owners : Active(o)' => fold'[o].upTo # 0
  PROVE  TypesInv'
<1>1. /\ pending' \in Seq(EntrySet) /\ ToSet(pending') = ToSet(pending) \cup {e}
      /\ last' # 0 /\ last' \in 0..stamped' /\ stamped' \in 0..MaxEntries
  BY QueueFacts
<1>2. \A x \in ToSet(file') \cup ToSet(pending') : IsFold(x) <=> x.upTo # 0
  BY <1>1 DEF TypesInv, TypeOK, Queued
<1>3. TypeOK'
  BY <1>1, <1>2 DEF TypesInv, TypeOK, Queued, FoldRecords
<1>4. QED
  BY <1>1, <1>3 DEF TypesInv, LastHeld

LEMMA TypesSay ==
  ASSUME TypesInv, NEW k, Said(k), running' \in BOOLEAN
  PROVE  TypesInv'
<1>1. live' \in Seq(ItemSet)
  <2>1. live \in Seq(ItemSet) /\ Item(stamped + 1, k) \in ItemSet
    BY EntryTyped DEF TypesInv, TypeOK, Said, Queued
  <2>2. QED
    BY <2>1 DEF Said
<1>2. \A o \in Owners : FoldTyped(fold[o])
  BY FoldsTyped
<1>3. fold' \in [Owners -> FoldRecords]
  BY <1>2, OutdatedFacts DEF Said, FoldRecords
<1>4. \A o \in Owners : Active(o)' => fold'[o].upTo # 0
  BY <1>2, OutdatedFacts DEF Said, TypesInv, Active
<1>5. QED
  BY <1>1, <1>3, <1>4, TypesQueue DEF Said

LEMMA FoldUpdate ==
  ASSUME TypesInv, NEW o \in Owners, NEW r, FoldTyped(r), fold' = [fold EXCEPT ![o] = r],
         r.stage # "none" => r.upTo # 0
  PROVE  /\ fold' \in [Owners -> FoldRecords] /\ fold'[o] = r
         /\ \A p \in Owners : p # o => fold'[p] = fold[p]
         /\ \A p \in Owners : Active(p)' => fold'[p].upTo # 0
<1>1. fold \in [Owners -> FoldRecords] /\ r \in FoldRecords
  BY DEF TypesInv, TypeOK, FoldTyped, FoldRecords
<1>2. /\ fold' \in [Owners -> FoldRecords] /\ fold'[o] = r
      /\ \A p \in Owners : p # o => fold'[p] = fold[p]
  <2> HIDE DEF FoldRecords
  <2>1. QED
    BY <1>1
<1>3. QED
  BY <1>2 DEF TypesInv, Active

LEMMA TypesArrives ==
  ASSUME TypesInv, NEW o \in Owners, SummaryArrives(o)
  PROVE  TypesInv'
<1>1. PICK e : /\ Queued(e) /\ fold' = [fold EXCEPT ![o].stage = "saving"]
               /\ UNCHANGED <<live, open, running>> /\ fold[o].stage = "summarising"
  BY ArrivesEffect
<1> DEFINE r == [fold[o] EXCEPT !.stage = "saving"]
<1>2. FoldTyped(fold[o]) /\ fold[o].upTo # 0
  BY <1>1, FoldsTyped DEF TypesInv, Active
<1>3. FoldTyped(r) /\ r.upTo = fold[o].upTo
  BY <1>2 DEF FoldTyped
<1>4. fold' = [fold EXCEPT ![o] = r]
  BY <1>1
<1> HIDE DEF r
<1>5. fold' \in [Owners -> FoldRecords] /\ \A p \in Owners : Active(p)' => fold'[p].upTo # 0
  BY <1>2, <1>3, <1>4, FoldUpdate
<1>6. live' \in Seq(ItemSet) /\ open' \in BOOLEAN /\ running' \in BOOLEAN
  BY <1>1 DEF TypesInv, TypeOK
<1>7. QED
  BY <1>1, <1>5, <1>6, TypesQueue

LEMMA TypesStoredFold ==
  ASSUME TypesInv, NEW g, StoredFold(g)
  PROVE  TypesInv'
<1>1. /\ pending \in Seq(EntrySet) /\ file \in Seq(EntrySet) /\ g \in EntrySet
      /\ file' = Append(file, g) /\ pending' = Tail(pending) /\ pending # <<>>
      /\ SameEntry(g, pending[1]) /\ g.by \in Owners
  BY DEF TypesInv, TypeOK, StoredFold, Stored
<1>2. pending' \in Seq(EntrySet) /\ ToSet(pending') \subseteq ToSet(pending)
  BY <1>1, TailFacts
<1>3. file' \in Seq(EntrySet) /\ ToSet(file') = ToSet(file) \cup {g}
  BY <1>1, AppendSet
<1>4. IsFold(pending[1]) <=> pending[1].upTo # 0
  BY <1>1, HeadTyped
<1>5. \A x \in ToSet(file') \cup ToSet(pending') : IsFold(x) <=> x.upTo # 0
  BY <1>1, <1>2, <1>3, <1>4 DEF TypesInv, TypeOK, SameEntry, IsFold
<1>6. fold[g.by].tail \in Seq(ItemSet) /\ \A o \in Owners : FoldTyped(fold[o])
  BY <1>1, FoldsTyped DEF FoldTyped
<1>7. Item(g.id, "summary") \in ItemSet /\ g.id \in Ids
  BY <1>1 DEF Item, ItemSet, EntrySet
<1>8. live' \in Seq(ItemSet) /\ live' # <<>>
  <2>1. live' = <<Item(g.id, "summary")>> \o fold[g.by].tail
    BY DEF StoredFold
  <2>2. QED
    BY <2>1, <1>6, <1>7
<1> DEFINE F == [fold EXCEPT ![g.by] = NoFold]
<1>9. \A o \in Owners : FoldTyped(F[o]) /\ (F[o] = fold[o] \/ F[o].stage = "none")
  <2>1. \A o \in Owners : F[o] = IF o = g.by THEN NoFold ELSE fold[o]
    BY <1>1, FoldsTyped
  <2>2. QED
    BY <2>1, <1>6, NoFoldTyped DEF NoFold
<1> HIDE DEF F
<1>10. fold' = Outdated(F)
  BY DEF StoredFold, F
<1>11. fold' \in [Owners -> FoldRecords]
  BY <1>9, <1>10, OutdatedFacts DEF FoldRecords
<1>12. \A o \in Owners : Active(o)' => fold'[o].upTo # 0
  BY <1>9, <1>10, OutdatedFacts DEF Active, TypesInv
<1>13. last # 0 /\ last' = last
  BY <1>1 DEF TypesInv, StoredFold, Stored
<1>14. raced' \in BOOLEAN /\ linked' \subseteq Ids /\ acked' \subseteq Ids
  BY <1>7 DEF StoredFold, TypesInv, TypeOK
<1>15. TypeOK'
  BY <1>2, <1>3, <1>5, <1>8, <1>11, <1>14 DEF TypesInv, TypeOK, StoredFold, Stored, FoldRecords
<1>16. QED
  BY <1>12, <1>13, <1>15 DEF TypesInv

LEMMA TypesStoredOther ==
  ASSUME TypesInv, NEW g, StoredOther(g)
  PROVE  TypesInv'
<1>1. /\ pending \in Seq(EntrySet) /\ file \in Seq(EntrySet) /\ g \in EntrySet
      /\ file' = Append(file, g) /\ pending' = Tail(pending) /\ pending # <<>>
      /\ SameEntry(g, pending[1])
  BY DEF TypesInv, TypeOK, StoredOther, Stored
<1>2. pending' \in Seq(EntrySet) /\ ToSet(pending') \subseteq ToSet(pending)
  BY <1>1, TailFacts
<1>3. file' \in Seq(EntrySet) /\ ToSet(file') = ToSet(file) \cup {g}
  BY <1>1, AppendSet
<1>4. IsFold(pending[1]) <=> pending[1].upTo # 0
  BY <1>1, HeadTyped
<1>5. \A x \in ToSet(file') \cup ToSet(pending') : IsFold(x) <=> x.upTo # 0
  BY <1>1, <1>2, <1>3, <1>4 DEF TypesInv, TypeOK, SameEntry, IsFold
<1>6. g.id \in Ids
  BY <1>1 DEF EntrySet
<1>7. last # 0 /\ last' = last
  BY <1>1 DEF TypesInv, StoredOther, Stored
<1>8. linked' \subseteq Ids /\ acked' \subseteq Ids
  BY <1>6 DEF StoredOther, TypesInv, TypeOK
<1>9. TypeOK'
  BY <1>2, <1>3, <1>5, <1>8 DEF TypesInv, TypeOK, StoredOther, Stored
<1>10. QED
  BY <1>7, <1>9 DEF TypesInv, StoredOther, Active

LEMMA TypesFails ==
  ASSUME TypesInv, WritesInv, WriteFails
  PROVE  TypesInv'
<1>1. /\ pending # <<>> /\ pending' = Tail(pending)
      /\ failed' \in BOOLEAN /\ poisoned' \in BOOLEAN
      /\ running' = (running /\ ~Says(pending[1])) /\ open' = (open /\ running')
      /\ IsFold(pending[1]) => pending[1].by \in Owners
      /\ fold' = IF IsFold(pending[1]) THEN [fold EXCEPT ![pending[1].by] = NoFold] ELSE fold
      /\ UNCHANGED <<file, stamped, last, live, linked, kills, acked, raced>>
  BY FailEffect
<1>2. pending' \in Seq(EntrySet) /\ ToSet(pending') \subseteq ToSet(pending)
  BY <1>1, TailFacts DEF TypesInv, TypeOK
<1>3. fold' \in [Owners -> FoldRecords] /\ \A p \in Owners : Active(p)' => fold'[p].upTo # 0
  <2>1. CASE IsFold(pending[1])
    BY <1>1, <2>1, FoldUpdate, NoFoldTyped DEF NoFold
  <2>2. CASE ~IsFold(pending[1])
    BY <1>1, <2>2 DEF TypesInv, TypeOK, FoldRecords, Active
  <2>3. QED
    BY <2>1, <2>2
<1>4. TypeOK'
  BY <1>1, <1>2, <1>3 DEF TypesInv, TypeOK, FoldRecords
<1>5. last # 0 /\ last' # 0
  BY <1>1 DEF TypesInv
<1>6. QED
  BY <1>3, <1>4, <1>5 DEF TypesInv

LEMMA TypesKill ==
  ASSUME TypesInv, OrderInv, KillAndResume
  PROVE  TypesInv'
<1>1. PICK leaf \in 0..MaxEntries :
           /\ leaf <= stamped \/ ~OrderInv
           /\ live' = Replayed(file, leaf) /\ linked' = ItemIds(live') /\ last' = leaf
           /\ acked' = acked \/ acked' = acked \cap PathIds(file, leaf)
           /\ pending' = <<>>
           /\ poisoned' = FALSE /\ running' = FALSE /\ open' = FALSE /\ raced' = FALSE
           /\ fold' = [o \in Owners |-> NoFold]
           /\ kills < MaxKills /\ kills' = kills + 1
           /\ UNCHANGED <<file, stamped, failed>>
  BY KillEffect
<1>2. file \in Seq(EntrySet)
  BY DEF TypesInv, TypeOK
<1>3. live' \in Seq(ItemSet)
  BY <1>1, <1>2, ReplayedTyped
<1>4. linked' \subseteq Ids
  <2>1. \A m \in ToSet(live') : m \in ItemSet
    BY <1>3 DEF ToSet
  <2>2. \A m \in ToSet(live') : m.id \in Ids
    BY <2>1 DEF ItemSet
  <2>3. QED
    BY <1>1, <2>2 DEF ItemIds
<1>5. live' # <<>> => last' # 0
  <2>1. ASSUME leaf = 0 PROVE Replayed(file, leaf) = <<>>
    <3>1. ~OnDisk(file, 0)
      <4>1. \A e \in ToSet(file) : e \in EntrySet
        BY <1>2 DEF ToSet
      <4>2. QED
        BY <4>1 DEF OnDisk, EntrySet, Ids
    <3>2. PathToLeaf(file, leaf) = <<>>
      BY <1>2, <2>1, <3>1, PathDef
    <3>3. QED
      BY <3>2, MaterializeNothing DEF Replayed
  <2>2. QED
    BY <1>1, <2>1
<1>6. fold' \in [Owners -> FoldRecords] /\ \A o \in Owners : fold'[o].stage = "none"
  BY <1>1, NoFoldTyped DEF FoldTyped, FoldRecords, NoFold
<1>7. kills' \in 0..MaxKills
  BY <1>1, BoundsAssumption DEF TypesInv, TypeOK
<1>8. pending' \in Seq(EntrySet) /\ ToSet(pending') = {}
  BY <1>1 DEF ToSet
<1>9. last' \in 0..stamped'
  BY <1>1, BoundsAssumption DEF TypesInv, TypeOK
<1>10. TypeOK'
  BY <1>1, <1>3, <1>4, <1>6, <1>7, <1>8, <1>9 DEF TypesInv, TypeOK, FoldRecords
<1>11. QED
  BY <1>1, <1>5, <1>6, <1>10 DEF TypesInv, Active

LEMMA TypesFold ==
  ASSUME TypesInv, LiveInv, NEW o \in Owners, StartFold(o) \/ SummaryRefused(o)
  PROVE  TypesInv'
<1>1. PICK r : /\ FoldTyped(r) /\ (r.stage # "none" => r.upTo # 0)
               /\ fold' = [fold EXCEPT ![o] = r]
               /\ UNCHANGED <<file, stamped, last, live, linked, pending, poisoned, running, open, kills,
                              acked, failed, raced>>
  <2>1. CASE StartFold(o)
    <3>1. PICK c \in DOMAIN live : \E r : 
             /\ FoldTyped(r) /\ fold' = [fold EXCEPT ![o] = r] /\ r.upTo # 0
             /\ UNCHANGED <<file, stamped, last, live, linked, pending, poisoned, running, open, kills,
                              acked, failed, raced>>
      BY <2>1, StartEffect
    <3>2. QED
      BY <3>1
  <2>2. CASE SummaryRefused(o)
    BY <2>2, NoFoldTyped DEF SummaryRefused, NoFold
  <2>3. QED
    BY <2>1, <2>2
<1>2. fold' \in [Owners -> FoldRecords] /\ \A p \in Owners : Active(p)' => fold'[p].upTo # 0
  BY <1>1, FoldUpdate
<1>3. TypeOK'
  BY <1>1, <1>2 DEF TypesInv, TypeOK, FoldRecords
<1>4. QED
  BY <1>1, <1>2, <1>3 DEF TypesInv

LEMMA TypesStep ==
  ASSUME TypesInv, OrderInv, WritesInv, LiveInv, [Next]_vars
  PROVE  TypesInv'
<1>1. CASE Prompt
  <2>1. Said("user") /\ running' \in BOOLEAN
    BY <1>1, PromptEffect DEF Prompt
  <2>2. QED
    BY <2>1, TypesSay
<1>2. CASE Speak
  <2>1. PICK k \in Spoken : Said(k) /\ running' = running
    BY <1>2, SpeakEffect
  <2>2. running' \in BOOLEAN
    BY <2>1 DEF TypesInv, TypeOK
  <2>3. QED
    BY <2>1, <2>2, TypesSay
<1>3. CASE RecordState \/ ToolState
  <2>1. PICK e : Queued(e) /\ UNCHANGED <<live, open, fold, running>>
    BY <1>3, StateEffect
  <2>2. /\ live' \in Seq(ItemSet) /\ open' \in BOOLEAN /\ running' \in BOOLEAN
        /\ fold' \in [Owners -> FoldRecords]
        /\ \A o \in Owners : Active(o)' => fold'[o].upTo # 0
    BY <2>1 DEF TypesInv, TypeOK, Active, FoldRecords
  <2>3. QED
    BY <2>1, <2>2, TypesQueue
<1>4. CASE \E o \in Owners : SummaryArrives(o)
  BY <1>4, TypesArrives
<1>5. CASE \E o \in Owners : StartFold(o) \/ SummaryRefused(o)
  BY <1>5, TypesFold
<1>6. CASE WriteReaches
  BY <1>6, ReachEffect, TypesStoredFold, TypesStoredOther
<1>7. CASE WriteFails
  BY <1>7, TypesFails
<1>8. CASE KillAndResume
  BY <1>8, TypesKill
<1>9. CASE RunEnds \/ UNCHANGED vars
  BY <1>9 DEF RunEnds, vars, TypesInv, TypeOK, Active
<1>10. QED
  BY <1>1, <1>2, <1>3, <1>4, <1>5, <1>6, <1>7, <1>8, <1>9 DEF Next

-----------------------------------------------------------------------------
(* The order of entries. *)

LEMMA StoredLists ==
  ASSUME TypesInv, NEW g, Stored(g)
  PROVE  /\ pending \in Seq(EntrySet) /\ file \in Seq(EntrySet) /\ g \in EntrySet
         /\ file' = Append(file, g) /\ pending' = Tail(pending) /\ pending # <<>>
         /\ SameEntry(g, pending[1]) /\ 1 \in DOMAIN pending
         /\ \A i \in DOMAIN pending' : i \in Int /\ i > 0 /\ i + 1 \in DOMAIN pending /\ i + 1 # 1
                                       /\ pending'[i] = pending[i + 1]
         /\ \A i \in DOMAIN file' : \/ i \in DOMAIN file /\ i # Len(file) + 1 /\ file'[i] = file[i]
                                    \/ i = Len(file) + 1 /\ i \notin DOMAIN file /\ file'[i] = g
         /\ \A i \in DOMAIN file : i \in DOMAIN file' /\ file'[i] = file[i]
         /\ ToSet(file') = ToSet(file) \cup {g}
         /\ Len(pending') = Len(pending) - 1 /\ Len(pending) \in Nat /\ DOMAIN pending = 1..Len(pending)
<1>1. /\ pending \in Seq(EntrySet) /\ file \in Seq(EntrySet) /\ g \in EntrySet
      /\ file' = Append(file, g) /\ pending' = Tail(pending) /\ pending # <<>>
      /\ SameEntry(g, pending[1])
  BY DEF TypesInv, TypeOK, Stored
<1>2. /\ 1 \in DOMAIN pending
      /\ \A i \in DOMAIN pending' : i \in Int /\ i > 0 /\ i + 1 \in DOMAIN pending /\ i + 1 # 1
                                       /\ pending'[i] = pending[i + 1]
      /\ Len(pending') = Len(pending) - 1 /\ Len(pending) \in Nat /\ DOMAIN pending = 1..Len(pending)
  BY <1>1, TailFacts
<1>3. /\ \A i \in DOMAIN file' : \/ i \in DOMAIN file /\ i # Len(file) + 1 /\ file'[i] = file[i]
                                 \/ i = Len(file) + 1 /\ i \notin DOMAIN file /\ file'[i] = g
      /\ \A i \in DOMAIN file : i \in DOMAIN file' /\ file'[i] = file[i]
  BY <1>1, AppendFacts
<1>4. ToSet(file') = ToSet(file) \cup {g}
  BY <1>1, AppendSet
<1>5. QED
  BY <1>1, <1>2, <1>3, <1>4

LEMMA TailLists ==
  ASSUME TypesInv, pending # <<>>, pending' = Tail(pending)
  PROVE  /\ 1 \in DOMAIN pending
         /\ \A i \in DOMAIN pending' : i \in Int /\ i > 0 /\ i + 1 \in DOMAIN pending /\ i + 1 # 1
                                       /\ pending'[i] = pending[i + 1]
         /\ Len(pending') = Len(pending) - 1 /\ Len(pending) \in Nat /\ DOMAIN pending = 1..Len(pending)
<1>1. pending \in Seq(EntrySet)
  BY DEF TypesInv, TypeOK
<1>2. QED
  BY <1>1, TailFacts

LEMMA IdsAreNumbers ==
  ASSUME TypesInv
  PROVE  /\ \A i \in DOMAIN file : file[i] \in EntrySet /\ file[i].id \in Nat
         /\ \A i \in DOMAIN pending : i \in Nat /\ pending[i] \in EntrySet /\ pending[i].id \in Nat
                                      /\ pending[i].parent \in 0..MaxEntries
         /\ stamped \in Nat /\ Len(pending) \in Nat /\ DOMAIN pending = 1..Len(pending)
<1>1. file \in Seq(EntrySet) /\ pending \in Seq(EntrySet)
  BY DEF TypesInv, TypeOK
<1>2. \A x \in EntrySet : x.id \in Nat /\ x.parent \in 0..MaxEntries
  BY BoundsAssumption DEF EntrySet, Ids
<1>3. \A i \in DOMAIN file : file[i] \in EntrySet
  BY <1>1
<1>4. \A i \in DOMAIN pending : pending[i] \in EntrySet /\ i \in Nat
  BY <1>1
<1>5. stamped \in Nat /\ Len(pending) \in Nat /\ DOMAIN pending = 1..Len(pending)
  BY <1>1, BoundsAssumption DEF TypesInv, TypeOK
<1>6. QED
  BY <1>2, <1>3, <1>4, <1>5

LEMMA OrderQueue ==
  ASSUME TypesInv, OrderInv, NEW e, Queued(e)
  PROVE  OrderInv'
<1>1. /\ file' = file /\ e.id = stamped + 1 /\ e.parent = last /\ stamped' = stamped + 1
      /\ stamped \in Nat /\ last \in 0..stamped
  BY BoundsAssumption DEF Queued, TypesInv, TypeOK
<1>2. /\ \A i \in DOMAIN pending' :
              \/ i \in DOMAIN pending /\ i # Len(pending) + 1 /\ pending'[i] = pending[i]
              \/ i = Len(pending) + 1 /\ i \notin DOMAIN pending /\ pending'[i] = e
  BY QueueFacts
<1>3. /\ \A i \in DOMAIN file : file[i].id \in Nat
      /\ \A i \in DOMAIN pending : i \in Nat /\ pending[i].id \in Nat
      /\ Len(pending) \in Nat /\ DOMAIN pending = 1..Len(pending)
  BY IdsAreNumbers
<1>4. \A i \in DOMAIN pending' : pending'[i].id <= stamped' /\ pending'[i].id \in Nat
  BY <1>1, <1>2, <1>3 DEF OrderInv
<1>5. \A i \in DOMAIN file : file[i].id <= stamped'
  BY <1>1, <1>3 DEF OrderInv
<1>6. Rootward(pending')
  BY <1>1, <1>2 DEF OrderInv, Rootward
<1>7. \A i \in DOMAIN file', j \in DOMAIN pending' : file'[i].id < pending'[j].id
  BY <1>1, <1>2, <1>3 DEF OrderInv
<1>8. Ascending(pending')
  <2>1. ASSUME NEW i \in DOMAIN pending', NEW j \in DOMAIN pending', i < j
        PROVE  pending'[i].id < pending'[j].id
    <3>1. i \in DOMAIN pending /\ pending'[i] = pending[i]
      BY <2>1, <1>2, <1>3
    <3>2. CASE j \in DOMAIN pending /\ pending'[j] = pending[j]
      BY <3>1, <3>2, <2>1 DEF OrderInv, Ascending
    <3>3. CASE pending'[j] = e
      BY <3>1, <3>3, <1>1, <1>3 DEF OrderInv
    <3>4. QED
      BY <3>2, <3>3, <1>2
  <2>2. QED
    BY <2>1 DEF Ascending
<1>9. QED
  BY <1>1, <1>4, <1>5, <1>6, <1>7, <1>8 DEF OrderInv

LEMMA OrderStored ==
  ASSUME TypesInv, OrderInv, NEW g, Stored(g)
  PROVE  OrderInv' /\ \A i \in DOMAIN file : file[i].id < g.id
<1>1. /\ file \in Seq(EntrySet) /\ g \in EntrySet
      /\ file' = Append(file, g)
      /\ SameEntry(g, pending[1]) /\ 1 \in DOMAIN pending
      /\ \A i \in DOMAIN pending' : i \in Int /\ i > 0 /\ i + 1 \in DOMAIN pending /\ i + 1 # 1
                                       /\ pending'[i] = pending[i + 1]
      /\ \A i \in DOMAIN file' : \/ i \in DOMAIN file /\ i # Len(file) + 1 /\ file'[i] = file[i]
                                 \/ i = Len(file) + 1 /\ i \notin DOMAIN file /\ file'[i] = g
  BY StoredLists
<1>2. stamped' = stamped
  BY DEF Stored
<1>3. \A i \in DOMAIN file : file[i].id < g.id
  BY <1>1 DEF OrderInv, SameEntry
<1>4. g.parent < g.id /\ g.id <= stamped
  BY <1>1 DEF OrderInv, SameEntry, Rootward
<1>5. Ascending(file') /\ Rootward(file')
  BY <1>1, <1>3, <1>4, DiskAppend DEF OrderInv
<1>6. Ascending(pending') /\ Rootward(pending')
  <2>1. \A i, j \in DOMAIN pending' : i < j => i + 1 < j + 1
    BY <1>1
  <2>2. QED
    BY <1>1, <2>1 DEF OrderInv, Ascending, Rootward
<1>7. \A i \in DOMAIN file', j \in DOMAIN pending' : file'[i].id < pending'[j].id
  <2>1. \A j \in DOMAIN pending' : 1 < j + 1
    BY <1>1
  <2>2. \A j \in DOMAIN pending' : g.id < pending'[j].id
    BY <2>1, <1>1 DEF OrderInv, Ascending, SameEntry
  <2>3. \A i \in DOMAIN file, j \in DOMAIN pending' : file[i].id < pending'[j].id
    BY <1>1 DEF OrderInv
  <2>4. QED
    BY <2>2, <2>3, <1>1
<1>8. /\ \A i \in DOMAIN file' : file'[i].id <= stamped'
      /\ \A i \in DOMAIN pending' : pending'[i].id <= stamped'
  BY <1>1, <1>2, <1>4 DEF OrderInv
<1>9. QED
  BY <1>3, <1>5, <1>6, <1>7, <1>8 DEF OrderInv

LEMMA OrderFails ==
  ASSUME TypesInv, WritesInv, OrderInv, WriteFails
  PROVE  OrderInv'
<1>1. /\ pending # <<>> /\ pending' = Tail(pending) /\ UNCHANGED <<file, stamped>>
  BY FailEffect
<1>2. /\ \A i \in DOMAIN pending' : i \in Int /\ i > 0 /\ i + 1 \in DOMAIN pending /\ i + 1 # 1
                                       /\ pending'[i] = pending[i + 1]
  BY <1>1, TailLists
<1>3. Ascending(pending') /\ Rootward(pending')
  <2>1. \A i, j \in DOMAIN pending' : i < j => i + 1 < j + 1
    BY <1>2
  <2>2. QED
    BY <1>2, <2>1 DEF OrderInv, Ascending, Rootward
<1>4. QED
  BY <1>1, <1>2, <1>3 DEF OrderInv

LEMMA OrderKill ==
  ASSUME TypesInv, OrderInv, KillAndResume
  PROVE  OrderInv'
<1>1. pending' = <<>> /\ UNCHANGED <<file, stamped>>
  BY KillEffect
<1>2. DOMAIN pending' = {}
  BY <1>1
<1>3. QED
  BY <1>1, <1>2 DEF OrderInv, Ascending, Rootward

\* What the other actions leave alone.
LEMMA QuietEffect ==
  ASSUME TypesInv, LiveInv,
         (\E o \in Owners : StartFold(o) \/ SummaryRefused(o)) \/ RunEnds \/ UNCHANGED vars
  PROVE  UNCHANGED <<file, stamped, last, live, linked, pending, poisoned, open, kills, acked,
                     failed, raced>>
BY DEF StartFold, SummaryRefused, RunEnds, vars

LEMMA QueueingActions ==
  ASSUME TypesInv, Prompt \/ Speak \/ RecordState \/ ToolState \/ \E o \in Owners : SummaryArrives(o)
  PROVE  \E e : Queued(e)
<1>1. CASE Prompt
  BY <1>1, PromptEffect DEF Said
<1>2. CASE Speak
  BY <1>2, SpeakEffect DEF Said
<1>3. CASE RecordState \/ ToolState
  BY <1>3, StateEffect
<1>4. CASE \E o \in Owners : SummaryArrives(o)
  BY <1>4, ArrivesEffect
<1>5. QED
  BY <1>1, <1>2, <1>3, <1>4

LEMMA OrderStep ==
  ASSUME TypesInv, OrderInv, WritesInv, LiveInv, [Next]_vars
  PROVE  OrderInv'
<1>1. CASE Prompt \/ Speak \/ RecordState \/ ToolState \/ \E o \in Owners : SummaryArrives(o)
  BY <1>1, QueueingActions, OrderQueue
<1>2. CASE (\E o \in Owners : StartFold(o) \/ SummaryRefused(o)) \/ RunEnds \/ UNCHANGED vars
  BY <1>2, QuietEffect DEF OrderInv
<1>3. CASE WriteReaches
  <2>1. PICK g : Stored(g)
    BY <1>3, ReachEffect DEF StoredFold, StoredOther
  <2>2. QED
    BY <2>1, OrderStored
<1>4. CASE WriteFails
  BY <1>4, OrderFails
<1>5. CASE KillAndResume
  BY <1>5, OrderKill
<1>6. QED
  BY <1>1, <1>2, <1>3, <1>4, <1>5 DEF Next

LEMMA ChainQueue ==
  ASSUME TypesInv, ChainInv, NEW e, Queued(e)
  PROVE  ChainInv' /\ DiskLeaf' = DiskLeaf /\ (Writable' <=> Writable)
<1>1. /\ e.parent = last /\ last' = e.id /\ (Writable' <=> Writable)
  BY DEF Queued, Writable
<1>2. /\ \A i \in DOMAIN pending' :
              \/ i \in DOMAIN pending /\ i # Len(pending) + 1 /\ pending'[i] = pending[i]
              \/ i = Len(pending) + 1 /\ i \notin DOMAIN pending /\ pending'[i] = e
      /\ \A i \in DOMAIN pending : i \in DOMAIN pending' /\ pending'[i] = pending[i]
      /\ Len(pending) + 1 \in DOMAIN pending' /\ pending'[Len(pending) + 1] = e
      /\ pending' # <<>> /\ Len(pending') = Len(pending) + 1
  BY QueueFacts
<1>3. /\ \A i \in DOMAIN pending : i \in Nat
      /\ Len(pending) \in Nat /\ DOMAIN pending = 1..Len(pending) /\ pending \in Seq(EntrySet)
  BY IdsAreNumbers DEF TypesInv, TypeOK
<1>4. ASSUME Writable, NEW i \in DOMAIN pending', NEW j \in DOMAIN pending', j = i + 1
      PROVE  pending'[j].parent = pending'[i].id
  <2>1. i \in DOMAIN pending /\ pending'[i] = pending[i]
    BY <1>2, <1>3, <1>4
  <2>2. CASE j \in DOMAIN pending /\ pending'[j] = pending[j]
    BY <2>1, <2>2, <1>4 DEF ChainInv
  <2>3. CASE j = Len(pending) + 1 /\ pending'[j] = e
    <3>1. i = Len(pending) /\ pending # <<>>
      BY <2>1, <2>3, <1>3, <1>4
    <3>2. QED
      BY <2>1, <2>3, <3>1, <1>1, <1>4 DEF ChainInv
  <2>4. QED
    BY <2>2, <2>3, <1>2
<1>5. last' = pending'[Len(pending')].id
  BY <1>1, <1>2
<1>6. ChainInv'
  BY <1>1, <1>4, <1>5 DEF ChainInv
<1>7. DiskLeaf' = DiskLeaf
  <2>1. CASE pending = <<>>
    <3>1. Len(pending) + 1 = 1
      BY <2>1
    <3>2. QED
      BY <2>1, <3>1, <1>1, <1>2 DEF DiskLeaf
  <2>2. CASE pending # <<>>
    <3>1. 1 \in DOMAIN pending
      BY <2>2, <1>3, TailFacts
    <3>2. QED
      BY <2>2, <3>1, <1>2 DEF DiskLeaf
  <2>3. QED
    BY <2>1, <2>2
<1>8. QED
  BY <1>1, <1>6, <1>7

LEMMA ChainStored ==
  ASSUME TypesInv, ChainInv, NEW g, Stored(g)
  PROVE  ChainInv' /\ DiskLeaf = g.parent /\ (Writable => DiskLeaf' = g.id) /\ (Writable' <=> Writable)
<1>1. /\ pending # <<>> /\ SameEntry(g, pending[1]) /\ 1 \in DOMAIN pending
      /\ \A i \in DOMAIN pending' : i \in Int /\ i > 0 /\ i + 1 \in DOMAIN pending /\ i + 1 # 1
                                       /\ pending'[i] = pending[i + 1]
      /\ Len(pending') = Len(pending) - 1 /\ Len(pending) \in Nat /\ DOMAIN pending = 1..Len(pending)
      /\ pending' \in Seq(EntrySet)
  BY SMTT(30), StoredLists, TailFacts
<1>2. last' = last /\ (Writable' <=> Writable)
  BY DEF Stored, Writable
<1>3. DiskLeaf = g.parent
  BY <1>1 DEF DiskLeaf, SameEntry
<1>4. ASSUME Writable PROVE DiskLeaf' = g.id
  <2>1. CASE pending' = <<>>
    <3>1. Len(pending) = 1
      BY <2>1, <1>1
    <3>2. last = pending[1].id
      BY <3>1, <1>1, <1>4 DEF ChainInv
    <3>3. QED
      BY <2>1, <3>2, <1>1, <1>2 DEF DiskLeaf, SameEntry
  <2>2. CASE pending' # <<>>
    <3>1. 1 \in DOMAIN pending'
      BY <2>2, <1>1, TailFacts
    <3>2. pending'[1] = pending[2] /\ 2 \in DOMAIN pending
      BY <3>1, <1>1
    <3>3. pending[2].parent = pending[1].id
      BY <3>2, <1>1, <1>4 DEF ChainInv
    <3>4. QED
      BY <2>2, <3>2, <3>3, <1>1 DEF DiskLeaf, SameEntry
  <2>3. QED
    BY <2>1, <2>2
<1>5. ChainInv'
  <2>1. ASSUME Writable, NEW i \in DOMAIN pending', NEW j \in DOMAIN pending', j = i + 1
        PROVE  pending'[j].parent = pending'[i].id
    <3>1. j + 1 = (i + 1) + 1
      BY <2>1, <1>1
    <3>2. QED
      BY <2>1, <3>1, <1>1 DEF ChainInv
  <2>2. ASSUME Writable, pending' # <<>> PROVE last' = pending'[Len(pending')].id
    <3>1. Len(pending') \in DOMAIN pending'
      BY <2>2, <1>1
    <3>2. Len(pending') + 1 = Len(pending)
      BY <1>1
    <3>3. pending'[Len(pending')] = pending[Len(pending)]
      BY <3>1, <3>2, <1>1
    <3>4. QED
      BY <3>3, <2>2, <1>1, <1>2 DEF ChainInv
  <2>3. QED
    BY <2>1, <2>2, <1>2 DEF ChainInv
<1>6. QED
  BY <1>2, <1>3, <1>4, <1>5

LEMMA ChainStep ==
  ASSUME TypesInv, OrderInv, ChainInv, WritesInv, LiveInv, [Next]_vars
  PROVE  ChainInv'
<1>1. CASE Prompt \/ Speak \/ RecordState \/ ToolState \/ \E o \in Owners : SummaryArrives(o)
  BY <1>1, QueueingActions, ChainQueue
<1>2. CASE (\E o \in Owners : StartFold(o) \/ SummaryRefused(o)) \/ RunEnds \/ UNCHANGED vars
  BY <1>2, QuietEffect DEF ChainInv, Writable
<1>3. CASE WriteReaches
  <2>1. PICK g : Stored(g)
    BY <1>3, ReachEffect DEF StoredFold, StoredOther
  <2>2. QED
    BY <2>1, ChainStored
<1>4. CASE WriteFails
  BY <1>4, FailEffect DEF ChainInv
<1>5. CASE KillAndResume
  <2>1. pending' = <<>>
    BY <1>5, KillEffect
  <2>2. DOMAIN pending' = {}
    BY <2>1
  <2>3. QED
    BY <2>1, <2>2 DEF ChainInv
<1>6. QED
  BY <1>1, <1>2, <1>3, <1>4, <1>5 DEF Next

-----------------------------------------------------------------------------
(* Who waits for what. *)

LEMMA NobodySaid ==
  ASSUME TypesInv, WritesInv, ~running \/ ~RunBusy
  PROVE  NoneSaid
<1>1. ASSUME NEW i \in DOMAIN pending, Says(pending[i]) PROVE FALSE
  <2>1. pending[i].by = "run" /\ running
    BY <1>1 DEF WritesInv
  <2>2. pending[i] \in ToSet(pending)
    BY DEF ToSet
  <2>3. Awaiting("run")
    BY <2>1, <2>2 DEF Awaiting
  <2>4. QED
    BY <2>1, <2>3 DEF RunBusy
<1>2. QED
  BY <1>1 DEF NoneSaid

\* How fold changes when something is said.
LEMMA SaidFolds ==
  ASSUME TypesInv, NEW k, Said(k)
  PROVE  \A o \in Owners :
              /\ fold'[o].stage = fold[o].stage /\ fold'[o].covers = fold[o].covers
              /\ fold'[o].upTo = fold[o].upTo /\ fold'[o].tail = fold[o].tail
              /\ fold'[o].strip = fold[o].strip
              /\ Active(o)' => fold'[o].stale
<1>1. \A o \in Owners : FoldTyped(fold[o])
  BY FoldsTyped
<1>2. QED
  BY <1>1, OutdatedFacts DEF Said, Active

\* How it changes when a compaction's entry reaches the file.
LEMMA StoredFolds ==
  ASSUME TypesInv, NEW g, StoredFold(g)
  PROVE  /\ ~Active(g.by)' /\ fold'[g.by].tail = <<>>
         /\ \A o \in Owners : Active(o)' => fold'[o].stale /\ o # g.by
         /\ \A o \in Owners : o # g.by =>
              /\ fold'[o].stage = fold[o].stage /\ fold'[o].covers = fold[o].covers
              /\ fold'[o].upTo = fold[o].upTo /\ fold'[o].tail = fold[o].tail
              /\ fold'[o].strip = fold[o].strip
<1> DEFINE F == [fold EXCEPT ![g.by] = NoFold]
<1>1. \A o \in Owners : F[o] = IF o = g.by THEN NoFold ELSE fold[o]
  BY FoldsTyped DEF StoredFold
<1>2. \A o \in Owners : FoldTyped(F[o])
  BY <1>1, FoldsTyped, NoFoldTyped
<1>3. g.by \in Owners /\ fold' = Outdated(F)
  BY DEF StoredFold
<1> HIDE DEF F
<1>4. \A o \in Owners :
              /\ fold'[o].stage = F[o].stage /\ fold'[o].covers = F[o].covers
              /\ fold'[o].upTo = F[o].upTo /\ fold'[o].tail = F[o].tail
              /\ fold'[o].strip = F[o].strip
              /\ Active(o)' => fold'[o].stale
  BY <1>2, <1>3, OutdatedFacts DEF Active
<1>5. ~Active(g.by)' /\ fold'[g.by].tail = <<>>
  BY <1>1, <1>3, <1>4 DEF Active, NoFold
<1>6. QED
  BY <1>1, <1>4, <1>5

\* What an entry that waits must be, f and r being fold and running.
Due(e, f, r) ==
  /\ Says(e) => e.by = "run" /\ r
  /\ e.kind = "state" => e.by \in {"state", "tool"}
  /\ IsFold(e) => /\ e.by \in Owners /\ f[e.by].stage = "saving"
                  /\ e.upTo = f[e.by].upTo /\ e.strip = f[e.by].strip
                  /\ e.covers = f[e.by].covers

Alone(e, d) ==
  ~(Says(e) /\ Says(d)) /\ ~(IsFold(e) /\ IsFold(d) /\ e.by = d.by)

LEMMA WritesMeaning ==
  WritesInv <=> /\ \A i \in DOMAIN pending : Due(pending[i], fold, running)
                /\ \A i, j \in DOMAIN pending : i # j => Alone(pending[i], pending[j])
BY DEF WritesInv, Due, Alone

LEMMA WritesAgain ==
  ASSUME \A i \in DOMAIN pending' : Due(pending'[i], fold', running'),
         \A i, j \in DOMAIN pending' : i # j => Alone(pending'[i], pending'[j])
  PROVE  WritesInv'
BY DEF WritesInv, Due, Alone, Says, IsFold

LEMMA WritesQueue ==
  ASSUME TypesInv, WritesInv, NEW e, Queued(e), Due(e, fold', running'),
         \A i \in DOMAIN pending :
            Alone(pending[i], e) /\ Alone(e, pending[i]) /\ Due(pending[i], fold', running')
  PROVE  WritesInv'
<1>1. /\ \A i \in DOMAIN pending' :
              \/ i \in DOMAIN pending /\ i # Len(pending) + 1 /\ pending'[i] = pending[i]
              \/ i = Len(pending) + 1 /\ i \notin DOMAIN pending /\ pending'[i] = e
  BY QueueFacts
<1>2. \A i \in DOMAIN pending' : Due(pending'[i], fold', running')
  BY <1>1
<1>3. \A i, j \in DOMAIN pending' : i # j => Alone(pending'[i], pending'[j])
  BY <1>1, WritesMeaning
<1>4. QED
  BY <1>2, <1>3, WritesAgain

LEMMA WritesSay ==
  ASSUME TypesInv, WritesInv, NEW k, Said(k), running', NoneSaid
  PROVE  WritesInv'
<1> DEFINE e == Entry(stamped + 1, k)
<1>1. Queued(e) /\ k \in Spoken /\ e.kind = k /\ e.by = "run"
  BY EntryTyped DEF Said, Queued
<1> HIDE DEF e
<1>2. Due(e, fold', running')
  BY <1>1 DEF Due, Says, Spoken, IsFold
<1>3. ASSUME NEW i \in DOMAIN pending
      PROVE  /\ Alone(pending[i], e) /\ Alone(e, pending[i]) /\ Due(pending[i], fold', running')
  <2>1. ~Says(pending[i]) /\ ~IsFold(e)
    BY <1>1 DEF NoneSaid, Spoken, IsFold
  <2>2. Due(pending[i], fold, running)
    BY WritesMeaning
  <2>3. QED
    BY <2>1, <2>2, SaidFolds DEF Due, Alone
<1>4. QED
  BY <1>1, <1>2, <1>3, WritesQueue

LEMMA WritesArrives ==
  ASSUME TypesInv, WritesInv, NEW o \in Owners, SummaryArrives(o)
  PROVE  WritesInv'
<1>1. PICK e : /\ Queued(e) /\ e.kind = "fold" /\ e.by = o /\ e.upTo = fold[o].upTo
               /\ e.strip = fold[o].strip /\ e.covers = fold[o].covers
               /\ fold[o].stage = "summarising"
               /\ fold' = [fold EXCEPT ![o].stage = "saving"]
               /\ UNCHANGED <<live, open, running>>
  BY ArrivesEffect
<1>2. /\ fold'[o].stage = "saving" /\ fold'[o].upTo = fold[o].upTo
      /\ fold'[o].strip = fold[o].strip /\ fold'[o].covers = fold[o].covers
      /\ \A p \in Owners : p # o => fold'[p] = fold[p]
  BY <1>1, FoldsTyped DEF FoldTyped
<1>3. Due(e, fold', running')
  BY <1>1, <1>2 DEF Due, Says, Spoken, IsFold
<1>4. ASSUME NEW i \in DOMAIN pending
      PROVE  /\ Alone(pending[i], e) /\ Alone(e, pending[i]) /\ Due(pending[i], fold', running')
  <2>1. Due(pending[i], fold, running)
    BY WritesMeaning
  <2>2. ~Says(e) /\ ~(IsFold(pending[i]) /\ pending[i].by = o)
    BY <2>1, <1>1 DEF Due, Says, Spoken
  <2>3. Due(pending[i], fold', running')
    BY <2>1, <2>2, <1>1, <1>2 DEF Due
  <2>4. QED
    BY <2>2, <2>3, <1>1 DEF Alone
<1>5. QED
  BY <1>1, <1>3, <1>4, WritesQueue

LEMMA WritesState ==
  ASSUME TypesInv, WritesInv, RecordState \/ ToolState
  PROVE  WritesInv'
<1>1. PICK e : /\ Queued(e) /\ e.kind = "state" /\ e.by \in {"state", "tool"}
               /\ UNCHANGED <<live, open, fold, running>>
  BY StateEffect
<1>2. Due(e, fold', running') /\ ~Says(e) /\ ~IsFold(e)
  BY <1>1 DEF Due, Says, Spoken, IsFold
<1>3. \A i \in DOMAIN pending :
            Alone(pending[i], e) /\ Alone(e, pending[i]) /\ Due(pending[i], fold', running')
  BY <1>1, <1>2, WritesMeaning DEF Alone
<1>4. QED
  BY <1>1, <1>2, <1>3, WritesQueue

\* The oldest entry leaves: what it waited for may go.
LEMMA WritesTail ==
  ASSUME TypesInv, WritesInv, pending # <<>>, pending' = Tail(pending),
         \A i \in DOMAIN pending : Alone(pending[1], pending[i]) =>
            Due(pending[i], fold', running')
  PROVE  WritesInv'
<1>1. /\ 1 \in DOMAIN pending
      /\ \A i \in DOMAIN pending' : i \in Int /\ i > 0 /\ i + 1 \in DOMAIN pending /\ i + 1 # 1
                                       /\ pending'[i] = pending[i + 1]
  BY TailLists
<1>2. \A i \in DOMAIN pending' : Due(pending'[i], fold', running')
  BY <1>1, WritesMeaning
<1>3. ASSUME NEW i \in DOMAIN pending', NEW j \in DOMAIN pending', i # j
      PROVE  Alone(pending'[i], pending'[j])
  <2>1. i + 1 # j + 1
    BY <1>1, <1>3
  <2>2. QED
    BY <2>1, <1>1, WritesMeaning
<1>4. QED
  BY <1>2, <1>3, WritesAgain

LEMMA WritesReach ==
  ASSUME TypesInv, WritesInv, WriteReaches
  PROVE  WritesInv'
<1>1. PICK g : StoredFold(g) \/ StoredOther(g)
  BY ReachEffect
<1>2. Stored(g) /\ pending # <<>> /\ pending' = Tail(pending) /\ running' = running
      /\ SameEntry(g, pending[1])
  BY <1>1 DEF StoredFold, StoredOther, Stored
<1>3. CASE StoredOther(g)
  <2>1. fold' = fold
    BY <1>3 DEF StoredOther
  <2>2. QED
    BY <1>2, <2>1, WritesMeaning, WritesTail
<1>4. CASE StoredFold(g)
  <2>1. /\ \A o \in Owners : o # g.by =>
              /\ fold'[o].stage = fold[o].stage /\ fold'[o].covers = fold[o].covers
              /\ fold'[o].upTo = fold[o].upTo /\ fold'[o].tail = fold[o].tail
              /\ fold'[o].strip = fold[o].strip
        /\ IsFold(pending[1]) /\ pending[1].by = g.by
    BY <1>2, <1>4, StoredFolds DEF StoredFold, SameEntry, IsFold
  <2>2. ASSUME NEW i \in DOMAIN pending, Alone(pending[1], pending[i])
        PROVE  Due(pending[i], fold', running')
    <3>1. IsFold(pending[i]) => pending[i].by # g.by
      BY <2>1, <2>2 DEF Alone
    <3>2. Due(pending[i], fold, running)
      BY WritesMeaning
    <3>3. QED
      BY <3>1, <3>2, <2>1, <1>2 DEF Due
  <2>3. QED
    BY <1>2, <2>2, WritesTail
<1>5. QED
  BY <1>1, <1>3, <1>4

LEMMA WritesFails ==
  ASSUME TypesInv, WritesInv, WriteFails
  PROVE  WritesInv'
<1>1. /\ pending # <<>> /\ pending' = Tail(pending)
      /\ running' = (running /\ ~Says(pending[1]))
      /\ IsFold(pending[1]) => pending[1].by \in Owners
      /\ fold' = IF IsFold(pending[1]) THEN [fold EXCEPT ![pending[1].by] = NoFold] ELSE fold
  BY FailEffect
<1>2. ASSUME NEW i \in DOMAIN pending, Alone(pending[1], pending[i])
      PROVE  Due(pending[i], fold', running')
  <2>1. Due(pending[i], fold, running)
    BY WritesMeaning
  <2>2. Says(pending[i]) => running'
    BY <1>1, <1>2, <2>1 DEF Alone, Due
  <2>3. IsFold(pending[i]) => fold'[pending[i].by] = fold[pending[i].by]
    BY <1>1, <1>2, <2>1, FoldsTyped DEF Alone, Due
  <2>4. QED
    BY <2>1, <2>2, <2>3 DEF Due
<1>3. QED
  BY <1>1, <1>2, WritesTail

LEMMA WritesFold ==
  ASSUME TypesInv, WritesInv, LiveInv, NEW o \in Owners, StartFold(o) \/ SummaryRefused(o)
  PROVE  WritesInv'
<1>1. pending' = pending /\ running' = running
  BY DEF StartFold, SummaryRefused
<1>2. PICK r : fold' = [fold EXCEPT ![o] = r]
  BY DEF StartFold, SummaryRefused
<1>3. fold[o].stage # "saving"
  BY DEF StartFold, SummaryRefused
<1>4. \A p \in Owners : p # o => fold'[p] = fold[p]
  BY <1>2, FoldsTyped
<1>5. \A i \in DOMAIN pending : Due(pending[i], fold', running)
  BY <1>3, <1>4, WritesMeaning DEF Due
<1>6. QED
  BY <1>1, <1>5, WritesMeaning, WritesAgain

LEMMA WritesStep ==
  ASSUME TypesInv, WritesInv, LiveInv, [Next]_vars
  PROVE  WritesInv'
<1>1. CASE Prompt
  <2>1. Said("user") /\ running' /\ NoneSaid
    BY <1>1, PromptEffect, NobodySaid
  <2>2. QED
    BY <2>1, WritesSay
<1>2. CASE Speak
  <2>1. PICK k \in Spoken : Said(k) /\ running' /\ ~RunBusy
    BY <1>2, SpeakEffect
  <2>2. NoneSaid
    BY <2>1, NobodySaid
  <2>3. QED
    BY <2>1, <2>2, WritesSay
<1>3. CASE RecordState \/ ToolState
  BY <1>3, WritesState
<1>4. CASE \E o \in Owners : SummaryArrives(o)
  BY <1>4, WritesArrives
<1>5. CASE \E o \in Owners : StartFold(o) \/ SummaryRefused(o)
  BY <1>5, WritesFold
<1>6. CASE WriteReaches
  BY <1>6, WritesReach
<1>7. CASE WriteFails
  BY <1>7, WritesFails
<1>8. CASE KillAndResume
  <2>1. pending' = <<>>
    BY <1>8, KillEffect
  <2>2. DOMAIN pending' = {}
    BY <2>1
  <2>3. QED
    BY <2>2, WritesAgain
<1>9. CASE RunEnds
  <2>1. pending' = pending /\ fold' = fold /\ NoneSaid
    BY <1>9, NobodySaid DEF RunEnds
  <2>2. \A i \in DOMAIN pending : Due(pending[i], fold, running')
    BY <2>1, WritesMeaning DEF Due, NoneSaid
  <2>3. QED
    BY <2>1, <2>2, WritesMeaning, WritesAgain
<1>10. CASE UNCHANGED vars
  BY <1>10 DEF vars, WritesInv
<1>11. QED
  BY <1>1, <1>2, <1>3, <1>4, <1>5, <1>6, <1>7, <1>8, <1>9, <1>10 DEF Next

-----------------------------------------------------------------------------
(* Turns and compactions. *)

LEMMA TurnsSay ==
  ASSUME TypesInv, TurnsInv, NEW k, Said(k), running', ~running \/ ~RunBusy
  PROVE  TurnsInv'
<1>1. ~Active("run")'
  <2>1. ~Active("run")
    BY DEF TurnsInv, RunBusy, Active
  <2>2. QED
    BY <2>1, SaidFolds DEF Active, Owners
<1>2. Active("host")' => fold'["host"].stale
  BY SaidFolds DEF Owners
<1>3. live' # <<>> /\ live'[Len(live')].kind = k
  <2>1. live \in Seq(ItemSet) /\ Item(stamped + 1, k) \in ItemSet /\ Item(stamped + 1, k).kind = k
        /\ live' = Append(live, Item(stamped + 1, k))
    BY EntryTyped DEF TypesInv, TypeOK, Said, Queued
  <2>2. QED
    BY <2>1
<1>4. open' = (k = "call") /\ raced' = raced /\ file' = file
  BY DEF Said, Queued
<1>5. QED
  BY <1>1, <1>2, <1>3, <1>4 DEF TurnsInv, Fresh

LEMMA TurnsStep ==
  ASSUME TypesInv, WritesInv, LiveInv, TurnsInv, [Next]_vars
  PROVE  TurnsInv'
<1>1. CASE Prompt
  BY <1>1, PromptEffect, TurnsSay
<1>2. CASE Speak
  BY <1>2, SpeakEffect, TurnsSay
<1>3. CASE RecordState \/ ToolState
  <2>1. PICK e : /\ Queued(e) /\ e.kind = "state" /\ UNCHANGED <<live, open, fold, running>>
    BY <1>3, StateEffect
  <2>2. NoneSaid => NoneSaid'
    BY <2>1, QueueFacts DEF NoneSaid, Says, Spoken
  <2>3. QED
    BY <2>1, <2>2 DEF TurnsInv, Queued, Fresh, Active
<1>4. CASE \E o \in Owners : SummaryArrives(o)
  <2>1. PICK o \in Owners : SummaryArrives(o)
    BY <1>4
  <2>2. PICK e : /\ Queued(e) /\ e.kind = "fold" /\ fold[o].stage = "summarising"
                 /\ fold' = [fold EXCEPT ![o].stage = "saving"] /\ UNCHANGED <<live, open, running>>
    BY <2>1, ArrivesEffect
  <2>3. NoneSaid => NoneSaid'
    BY <2>2, QueueFacts DEF NoneSaid, Says, Spoken
  <2>4. \A p \in Owners : fold'[p].stale = fold[p].stale /\ (Active(p)' => Active(p))
    BY <2>2, FoldsTyped DEF FoldTyped, Active
  <2>5. QED
    BY <2>2, <2>3, <2>4 DEF TurnsInv, Queued, Fresh, Owners
<1>5. CASE \E o \in Owners : StartFold(o)
  <2>1. PICK o \in Owners : StartFold(o)
    BY <1>5
  <2>2. PICK c \in DOMAIN live : \E r :
           /\ fold' = [fold EXCEPT ![o] = r]
           /\ IF o = "run" THEN running /\ ~RunBusy /\ ~open ELSE ~running
           /\ UNCHANGED <<file, live, pending, running, open, raced>>
    BY <2>1, StartEffect
  <2>3. \A p \in Owners : p # o => fold'[p] = fold[p]
    BY <2>2, FoldsTyped
  <2>4. o = "run" => NoneSaid
    BY <2>2, NobodySaid
  <2>5. NoneSaid' = NoneSaid /\ Fresh' = Fresh
    BY <2>2 DEF NoneSaid, Fresh
  <2>6. Active("run")' => running' /\ ~open' /\ NoneSaid'
    BY <2>2, <2>3, <2>4, <2>5 DEF TurnsInv, Active, Owners
  <2>7. Active("host")' /\ ~fold'["host"].stale => ~running'
    BY <2>2, <2>3 DEF TurnsInv, Active, Owners
  <2>8. QED
    BY <2>2, <2>5, <2>6, <2>7 DEF TurnsInv
<1>6. CASE \E o \in Owners : SummaryRefused(o)
  <2>1. PICK o \in Owners : SummaryRefused(o)
    BY <1>6
  <2>2. \A p \in Owners : fold'[p] = IF p = o THEN NoFold ELSE fold[p]
    BY <2>1, FoldsTyped DEF SummaryRefused
  <2>3. UNCHANGED <<file, live, pending, running, open, raced>>
    BY <2>1 DEF SummaryRefused
  <2>4. QED
    BY <2>2, <2>3 DEF TurnsInv, Active, NoFold, Owners, NoneSaid, Fresh
<1>7. CASE WriteReaches
  <2>1. PICK g : StoredFold(g) \/ StoredOther(g)
    BY <1>7, ReachEffect
  <2>2. Stored(g) /\ running' = running /\ open' = open
    BY <2>1 DEF StoredFold, StoredOther, Stored
  <2>3. NoneSaid => NoneSaid'
    BY <2>2, StoredLists DEF NoneSaid
  <2>4. ~Fresh => ~Fresh'
    BY <2>2, StoredLists DEF Fresh
  <2>5. CASE StoredOther(g)
    BY <2>2, <2>3, <2>4, <2>5 DEF TurnsInv, StoredOther, Active
  <2>6. CASE StoredFold(g)
    <3>1. g.by \in Owners /\ fold[g.by].stage = "saving"
      <4>1. Due(pending[1], fold, running) /\ SameEntry(g, pending[1])
        BY <2>2, StoredLists, WritesMeaning
      <4>2. QED
        BY <4>1, <2>6 DEF Due, SameEntry, StoredFold, IsFold
    <3>2. raced' = (raced \/ fold[g.by].stale) /\ g.stale = raced'
      BY <2>6 DEF StoredFold
    <3>3. ~raced' => ~open
      BY <3>1, <3>2 DEF TurnsInv, Active, Owners
    <3>4. raced' => ~Fresh'
      BY <3>2, <2>2, StoredLists DEF Fresh
    <3>5. Active("run")' => running' /\ ~open' /\ NoneSaid'
      BY <2>2, <2>3, <2>6, StoredFolds DEF TurnsInv, Active, Owners
    <3>6. Active("host")' => fold'["host"].stale
      BY <2>6, StoredFolds DEF Owners
    <3>7. QED
      BY <2>2, <3>3, <3>4, <3>5, <3>6 DEF TurnsInv
  <2>7. QED
    BY <2>1, <2>5, <2>6
<1>8. CASE WriteFails
  <2>1. /\ pending # <<>> /\ pending' = Tail(pending)
        /\ running' = (running /\ ~Says(pending[1])) /\ open' = (open /\ running')
        /\ IsFold(pending[1]) => pending[1].by \in Owners
        /\ fold' = IF IsFold(pending[1]) THEN [fold EXCEPT ![pending[1].by] = NoFold] ELSE fold
        /\ UNCHANGED <<file, live, raced>>
    BY <1>8, FailEffect
  <2>2. \A p \in Owners : fold'[p] = fold[p] \/ fold'[p] = NoFold
    BY <2>1, FoldsTyped
  <2>3. NoneSaid => NoneSaid' /\ ~Says(pending[1])
    BY <2>1, TailLists DEF NoneSaid
  <2>4. \A p \in Owners : Active(p)' => Active(p) /\ fold'[p] = fold[p]
    BY <2>2 DEF Active, NoFold
  <2>5. Active("run")' => running' /\ ~open' /\ NoneSaid'
    BY <2>1, <2>3, <2>4 DEF TurnsInv, Owners
  <2>6. Active("host")' /\ ~fold'["host"].stale => ~running'
    BY <2>1, <2>4 DEF TurnsInv, Owners
  <2>7. (open' => running' /\ open) /\ Fresh' = Fresh /\ raced' = raced /\ live' = live
    BY <2>1 DEF Fresh
  <2>8. QED
    BY <2>5, <2>6, <2>7 DEF TurnsInv
<1>9. CASE KillAndResume
  <2>1. /\ ~open' /\ ~raced' /\ fold' = [o \in Owners |-> NoFold]
    BY <1>9, KillEffect
  <2>2. QED
    BY <2>1 DEF TurnsInv, Active, NoFold, Owners
<1>10. CASE RunEnds
  <2>1. ~Active("run") /\ ~open
    BY <1>10 DEF RunEnds, RunBusy, Active
  <2>2. QED
    BY <1>10, <2>1 DEF RunEnds, TurnsInv, Active, Fresh
<1>11. CASE UNCHANGED vars
  BY <1>11 DEF vars, TurnsInv, Active, Fresh, NoneSaid
<1>12. QED
  BY <1>1, <1>2, <1>3, <1>4, <1>5, <1>6, <1>7, <1>8, <1>9, <1>10, <1>11 DEF Next

-----------------------------------------------------------------------------
(* Branches of the file, and what was acknowledged. *)

\* The file, its branches and the place of the next entry when a write settles.
LEMMA GrowBy ==
  ASSUME TypesInv, OrderInv, ChainInv, NEW g, Stored(g)
  PROVE  /\ \A i \in 0..MaxEntries : i # g.id =>
              Replayed(file', i) = Replayed(file, i) /\ PathIds(file', i) = PathIds(file, i)
         /\ Replayed(file', g.id) = ReplayEntry(Replayed(file, g.parent), g)
         /\ PathIds(file', g.id) = PathIds(file, g.parent) \cup {g.id}
         /\ DiskLeaf = g.parent /\ (Writable => DiskLeaf' = g.id) /\ (Writable' <=> Writable)
         /\ g.parent \in 0..MaxEntries /\ g.id \in 0..MaxEntries /\ g.parent < g.id
         /\ \A i : OnDisk(file', i) <=> OnDisk(file, i) \/ i = g.id
         /\ \A i : OnDisk(file, i) => EntryOf(file', i) = EntryOf(file, i)
         /\ \A i \in DOMAIN file : file[i].id < g.id
<1>1. /\ file \in Seq(EntrySet) /\ g \in EntrySet /\ file' = Append(file, g)
      /\ SameEntry(g, pending[1]) /\ 1 \in DOMAIN pending
  BY StoredLists
<1>2. /\ Ascending(file) /\ Rootward(file) /\ \A i \in DOMAIN file : file[i].id < g.id
  BY OrderStored DEF OrderInv
<1>3. g.parent < g.id
  BY <1>1 DEF OrderInv, Rootward, SameEntry
<1>4. g.parent \in 0..MaxEntries /\ g.id \in 0..MaxEntries
  BY <1>1 DEF EntrySet, Ids
<1>5. /\ \A i \in 0..MaxEntries : i # g.id =>
              Replayed(file', i) = Replayed(file, i) /\ PathIds(file', i) = PathIds(file, i)
      /\ Replayed(file', g.id) = ReplayEntry(Replayed(file, g.parent), g)
      /\ PathIds(file', g.id) = PathIds(file, g.parent) \cup {g.id}
  BY <1>1, <1>2, <1>3, GrowTree
<1>6. /\ \A i : OnDisk(file', i) <=> OnDisk(file, i) \/ i = g.id
      /\ \A i : OnDisk(file, i) => EntryOf(file', i) = EntryOf(file, i)
  BY <1>1, <1>2, DiskAppend
<1>7. DiskLeaf = g.parent /\ (Writable => DiskLeaf' = g.id) /\ (Writable' <=> Writable)
  BY ChainStored
<1>8. QED
  BY <1>2, <1>3, <1>4, <1>5, <1>6, <1>7

LEMMA AckedStep ==
  ASSUME TypesInv, OrderInv, ChainInv, WritesInv, LiveInv, AckedInv, [Next]_vars
  PROVE  AckedInv'
<1>1. CASE Prompt \/ Speak \/ RecordState \/ ToolState \/ \E o \in Owners : SummaryArrives(o)
  <2>1. PICK e : Queued(e)
    BY <1>1, QueueingActions
  <2>2. DiskLeaf' = DiskLeaf /\ (Writable' <=> Writable)
    BY <2>1, ChainQueue
  <2>3. UNCHANGED <<file, acked, failed>>
    BY <2>1 DEF Queued
  <2>4. QED
    BY <2>2, <2>3 DEF AckedInv
<1>2. CASE (\E o \in Owners : StartFold(o) \/ SummaryRefused(o)) \/ RunEnds \/ UNCHANGED vars
  <2>1. UNCHANGED <<file, acked, failed, poisoned, last, pending>>
    BY <1>2, QuietEffect
  <2>2. DiskLeaf' = DiskLeaf /\ Writable' = Writable
    BY <2>1 DEF DiskLeaf, Writable
  <2>3. QED
    BY <2>1, <2>2 DEF AckedInv
<1>3. CASE WriteReaches
  <2>1. PICK g : StoredFold(g) \/ StoredOther(g)
    BY <1>3, ReachEffect
  <2>2. Stored(g) /\ acked' \subseteq acked \cup {g.id}
    BY <2>1 DEF StoredFold, StoredOther
  <2>3. /\ PathIds(file', g.id) = PathIds(file, g.parent) \cup {g.id}
        /\ DiskLeaf = g.parent /\ (Writable => DiskLeaf' = g.id) /\ (Writable' <=> Writable)
    BY <2>2, GrowBy
  <2>4. LatestEntryId(file') = g.id
    <3>1. file \in Seq(EntrySet) /\ g \in EntrySet /\ file' = Append(file, g)
      BY <2>2, StoredLists
    <3>2. file' # <<>> /\ Last(file') = g
      BY <3>1 DEF Last
    <3>3. QED
      BY <3>2 DEF LatestEntryId
  <2>5. ~failed' => Writable
    BY <2>2 DEF Stored, Writable
  <2>6. QED
    BY <2>2, <2>3, <2>4, <2>5 DEF AckedInv
<1>4. CASE WriteFails
  BY <1>4, FailEffect DEF AckedInv
<1>5. CASE KillAndResume
  <2>1. PICK leaf \in 0..MaxEntries :
           /\ last' = leaf /\ pending' = <<>> /\ UNCHANGED <<file, stamped, failed>>
           /\ (acked' = acked /\ leaf = LatestEntryId(file)) \/ acked' = acked \cap PathIds(file, leaf)
    BY <1>5, KillEffect
  <2>2. DiskLeaf' = leaf
    BY <2>1 DEF DiskLeaf
  <2>3. QED
    BY <2>1, <2>2 DEF AckedInv, Writable
<1>6. QED
  BY <1>1, <1>2, <1>3, <1>4, <1>5 DEF Next

LEMMA LiveTyped ==
  ASSUME TypesInv
  PROVE  live \in Seq(ItemSet) /\ Len(live) \in Nat /\ DOMAIN live = 1..Len(live) /\ file \in Seq(EntrySet)
<1>1. live \in Seq(ItemSet) /\ file \in Seq(EntrySet)
  BY DEF TypesInv, TypeOK
<1>2. QED
  BY <1>1

\* A compaction that lands on the conversation it was made for.
LEMMA FoldLands ==
  ASSUME TypesInv, OrderInv, ChainInv, WritesInv, TreeInv, ReplayInv, FoldInv, NEW g, StoredFold(g),
         Writable, ~raced'
  PROVE  /\ NoneSaid /\ live = Replayed(file, g.parent)
         /\ live' = ReplayEntry(live, g)
         /\ Rounds(live) => Rounds(live')
         /\ Dropped(file, live, g) = g.covers
         /\ \A k \in DOMAIN live' : live'[k].id = g.id \/ \E i \in DOMAIN live : live'[k] = live[i]
<1>1. /\ g.by \in Owners /\ ~raced /\ ~fold[g.by].stale /\ IsFold(g) /\ Stored(g)
      /\ live' = <<Item(g.id, "summary")>> \o fold[g.by].tail
  BY DEF StoredFold
<1>2. /\ fold[g.by].stage = "saving" /\ g.upTo = fold[g.by].upTo /\ g.strip = fold[g.by].strip
      /\ g.covers = fold[g.by].covers
  <2>1. Due(pending[1], fold, running) /\ SameEntry(g, pending[1])
    BY <1>1, StoredLists, WritesMeaning
  <2>2. QED
    BY <2>1, <1>1 DEF Due, SameEntry, IsFold
<1>3. PICK c \in DOMAIN live : NoneSaid /\ Snapshot(g.by, c)
  BY <1>1, <1>2 DEF FoldInv, Sound, Active
<1>4. live = Replayed(file, g.parent) /\ g.parent \in 0..MaxEntries
  BY <1>1, <1>3, GrowBy DEF ReplayInv, Sound
<1>5. live \in Seq(ItemSet) /\ Len(live) \in Nat /\ DOMAIN live = 1..Len(live) /\ Distinct(live)
  BY <1>4, LiveTyped DEF TreeInv
<1> DEFINE k0 == SubSeq(live, c + 1, Len(live))
<1> DEFINE t == Strip(k0, g.strip)
<1>6. Kept(live, g.upTo) = k0
  BY <1>2, <1>3, <1>5, KeptCut DEF Snapshot
<1>7. fold[g.by].tail = t
  BY <1>2, <1>3 DEF Snapshot
<1>8. ReplayEntry(live, g) = <<Item(g.id, "summary")>> \o t
  <2>1. g.kind = "fold" /\ g.kind \notin Spoken
    BY <1>1 DEF IsFold, Spoken
  <2>2. QED
    BY <2>1, <1>6 DEF ReplayEntry
<1>9. live' = ReplayEntry(live, g)
  BY <1>1, <1>7, <1>8
<1>10. c \in 0..Len(live) /\ Item(g.id, "summary") \in ItemSet /\ Item(g.id, "summary").kind = "summary"
  <2>1. g.id \in Ids
    BY <1>1 DEF Stored, EntrySet
  <2>2. QED
    BY <2>1, <1>5 DEF Item, ItemSet
<1>11. /\ k0 \in Seq(ItemSet) /\ Len(k0) = Len(live) - c
       /\ Rounds(live) /\ (c < Len(live) => live[c + 1].kind # "result") => Rounds(k0)
  BY <1>5, <1>10, SuffixKeeps
<1>12. ASSUME Rounds(live) PROVE Rounds(live')
  <2>1. Rounds(k0) /\ k0 \in Seq(ItemSet)
    BY <1>3, <1>11, <1>12 DEF Snapshot
  <2> HIDE DEF k0
  <2>2. Rounds(t) /\ t \in Seq(ItemSet)
    BY <2>1, StripKeeps
  <2> HIDE DEF t
  <2>3. Rounds(<<Item(g.id, "summary")>> \o t)
    BY <2>2, <1>10, SummaryFirst
  <2>4. QED
    BY <2>3, <1>8, <1>9
<1>13. Dropped(file, live, g) = g.covers
  <2>1. Len(live) - Len(Kept(live, g.upTo)) = c
    BY <1>5, <1>6, <1>10, <1>11
  <2>2. QED
    BY <2>1, <1>2, <1>3 DEF Dropped, Snapshot
<1>14. \A k \in DOMAIN live' : live'[k].id = g.id \/ \E i \in DOMAIN live : live'[k] = live[i]
  <2>1. g \in EntrySet
    BY <1>1 DEF Stored
  <2>2. QED
    BY <2>1, <1>5, <1>9, ReplayKeeps
<1>15. QED
  BY <1>3, <1>4, <1>9, <1>12, <1>13, <1>14

\* What the entry at hand leaves of its branch, and the live conversation.
LEMMA StoredSays ==
  ASSUME TypesInv, OrderInv, ChainInv, WritesInv, NEW g, StoredOther(g)
  PROVE  /\ Says(g) <=> Says(pending[1])
         /\ Says(g) => /\ ReplayEntry(Replayed(file, g.parent), g) =
                            Append(Replayed(file, DiskLeaf), Item(pending[1].id, pending[1].kind))
                       /\ NoneSaid' /\ g.by = "run" /\ pending[1].id = g.id
         /\ ~Says(g) => /\ ReplayEntry(Replayed(file, g.parent), g) = Replayed(file, DiskLeaf)
                        /\ (NoneSaid => NoneSaid')
<1>1. Stored(g) /\ ~IsFold(g)
  BY DEF StoredOther
<1>2. /\ SameEntry(g, pending[1]) /\ 1 \in DOMAIN pending
      /\ \A i \in DOMAIN pending' : i \in Int /\ i > 0 /\ i + 1 \in DOMAIN pending /\ i + 1 # 1
                                       /\ pending'[i] = pending[i + 1]
  BY <1>1, StoredLists
<1>3. DiskLeaf = g.parent
  BY <1>1, GrowBy
<1>4. Says(g) <=> Says(pending[1])
  BY <1>2 DEF SameEntry, Says
<1>5. ASSUME Says(g)
      PROVE  /\ ReplayEntry(Replayed(file, g.parent), g) =
                            Append(Replayed(file, DiskLeaf), Item(pending[1].id, pending[1].kind))
             /\ NoneSaid' /\ g.by = "run" /\ pending[1].id = g.id
  <2>1. ReplayEntry(Replayed(file, g.parent), g) =
                            Append(Replayed(file, DiskLeaf), Item(pending[1].id, pending[1].kind))
    <3>1. g.kind \in Spoken /\ g.id = pending[1].id /\ g.kind = pending[1].kind /\ g.kind # "fold"
      BY <1>2, <1>5 DEF Says, SameEntry, Spoken
    <3>2. \A b : ReplayEntry(b, g) = Append(b, Item(g.id, g.kind))
      BY <3>1 DEF ReplayEntry
    <3>3. QED
      BY <3>1, <3>2, <1>3
  <2>2. g.by = "run" /\ pending[1].id = g.id
    BY <1>2, <1>4, <1>5 DEF WritesInv, SameEntry
  <2>3. NoneSaid'
    <3>1. \A i \in DOMAIN pending' : ~Says(pending'[i])
      BY <1>2, <1>4, <1>5 DEF WritesInv
    <3>2. QED
      BY <3>1 DEF NoneSaid, Says
  <2>4. QED
    BY <2>1, <2>2, <2>3
<1>6. ASSUME ~Says(g)
      PROVE  /\ ReplayEntry(Replayed(file, g.parent), g) = Replayed(file, DiskLeaf)
             /\ (NoneSaid => NoneSaid')
  <2>1. ReplayEntry(Replayed(file, g.parent), g) = Replayed(file, DiskLeaf)
    <3>1. g.kind \notin Spoken /\ g.kind # "fold"
      BY <1>1, <1>6 DEF Says, IsFold
    <3>2. \A b : ReplayEntry(b, g) = b
      BY <3>1 DEF ReplayEntry
    <3>3. QED
      BY <3>2, <1>3
  <2>2. NoneSaid => NoneSaid'
    BY <1>2 DEF NoneSaid, Says
  <2>3. QED
    BY <2>1, <2>2
<1>7. QED
  BY <1>4, <1>5, <1>6

TreeAt(f, i, calm) ==
    /\ Distinct(Replayed(f, i))
    /\ \A k \in DOMAIN Replayed(f, i) :
         OnDisk(f, Replayed(f, i)[k].id) /\ Replayed(f, i)[k].id <= i
    /\ calm => Rounds(Replayed(f, i))

LEMMA TreeStored ==
  ASSUME TypesInv, OrderInv, ChainInv, WritesInv, TurnsInv, TreeInv, LiveInv, ReplayInv, FoldInv,
         NEW g, StoredFold(g) \/ StoredOther(g)
  PROVE  TreeInv'
<1>1. Stored(g)
  BY DEF StoredFold, StoredOther
<1>2. /\ \A i \in 0..MaxEntries : i # g.id => Replayed(file', i) = Replayed(file, i)
      /\ Replayed(file', g.id) = ReplayEntry(Replayed(file, g.parent), g)
      /\ DiskLeaf = g.parent
      /\ g.parent \in 0..MaxEntries /\ g.id \in 0..MaxEntries /\ g.parent < g.id
      /\ \A i : OnDisk(file', i) <=> OnDisk(file, i) \/ i = g.id
  BY <1>1, GrowBy
<1>3. /\ failed' = failed /\ ~poisoned /\ g \in EntrySet
      /\ (Fresh' => Fresh /\ ~g.stale)
  <2>1. ToSet(file') = ToSet(file) \cup {g}
    BY <1>1, StoredLists
  <2>2. QED
    BY <2>1, <1>1 DEF Stored, Fresh
<1> DEFINE calm == ~failed /\ Fresh
<1> DEFINE calm1 == ~failed' /\ Fresh'
<1>4. ASSUME NEW i \in 0..MaxEntries, i # g.id PROVE TreeAt(file', i, calm1)
  <2>1. TreeAt(file, i, calm)
    BY DEF TreeInv, TreeAt
  <2>2. calm1 => calm
    BY <1>3
  <2>3. QED
    BY <2>1, <2>2, <1>2, <1>4 DEF TreeAt
<1> DEFINE R == Replayed(file, g.parent)
<1> DEFINE r == ReplayEntry(R, g)
<1>5. R \in Seq(ItemSet) /\ TreeAt(file, g.parent, calm)
  BY <1>2, ReplayedTyped DEF TypesInv, TypeOK, TreeInv, TreeAt
<1>6. \A k \in DOMAIN R : R[k].id \in Nat
  <2>1. \A m \in ItemSet : m.id \in Nat
    BY BoundsAssumption DEF ItemSet, Ids
  <2> HIDE DEF R
  <2>2. \A k \in DOMAIN R : R[k] \in ItemSet
    BY <1>5
  <2>3. QED
    BY <2>1, <2>2
<1>7. \A k \in DOMAIN R : R[k].id # g.id /\ R[k].id <= g.id /\ OnDisk(file', R[k].id)
  BY <1>2, <1>5, <1>6, BoundsAssumption DEF TreeAt
<1>8. /\ \A k \in DOMAIN r : r[k].id = g.id \/ \E i \in DOMAIN R : r[k] = R[i]
      /\ Distinct(r)
  <2> HIDE DEF R
  <2>1. Distinct(R)
    BY <1>5 DEF TreeAt, R
  <2>2. QED
    BY <2>1, <1>3, <1>5, <1>7, ReplayKeeps
<1>9. \A k \in DOMAIN r : OnDisk(file', r[k].id) /\ r[k].id <= g.id
  <2> HIDE DEF R, r
  <2>1. OnDisk(file', g.id) /\ g.id <= g.id
    BY <1>2
  <2>2. QED
    BY <2>1, <1>7, <1>8
<1>10. ASSUME calm1 PROVE Rounds(r)
  <2>1. Writable /\ Fresh /\ ~raced /\ ~g.stale /\ calm
    BY <1>3, <1>10 DEF Writable, TurnsInv
  <2>2. CASE StoredFold(g)
    <3>1. ~raced'
      BY <2>1, <2>2 DEF StoredFold
    <3>2. live = R /\ live' = ReplayEntry(live, g) /\ (Rounds(live) => Rounds(live'))
      BY <2>1, <2>2, <3>1, FoldLands
    <3>3. QED
      BY <3>2, <2>1 DEF LiveInv
  <2>3. CASE StoredOther(g)
    <3>1. CASE Says(g)
      <4>1. Says(pending[1]) /\ 1 \in DOMAIN pending
        BY <1>1, <2>3, <3>1, StoredSays, StoredLists
      <4>2. live = r
        BY <4>1, <2>1, <2>3, <3>1, StoredSays DEF ReplayInv, Sound
      <4>3. QED
        BY <4>2, <2>1 DEF LiveInv
    <3>2. CASE ~Says(g)
      <4>1. r = R
        BY <1>2, <2>3, <3>2, StoredSays
      <4>2. QED
        BY <4>1, <1>5, <2>1 DEF TreeAt
    <3>3. QED
      BY <3>1, <3>2
  <2>4. QED
    BY <2>2, <2>3
<1>11. TreeAt(file', g.id, calm1)
  BY <1>2, <1>8, <1>9, <1>10 DEF TreeAt
<1>12. \A i \in 0..MaxEntries : TreeAt(file', i, calm1)
  BY <1>4, <1>11
<1>13. QED
  BY <1>12 DEF TreeInv, TreeAt

LEMMA FileSame ==
  ASSUME TypesInv, WritesInv, LiveInv, [Next]_vars, ~WriteReaches
  PROVE  file' = file /\ (failed => failed')
<1>1. CASE Prompt \/ Speak \/ RecordState \/ ToolState \/ \E o \in Owners : SummaryArrives(o)
  BY <1>1, QueueingActions DEF Queued
<1>2. CASE (\E o \in Owners : StartFold(o) \/ SummaryRefused(o)) \/ RunEnds \/ UNCHANGED vars
  BY <1>2, QuietEffect
<1>3. CASE WriteFails
  BY <1>3, FailEffect
<1>4. CASE KillAndResume
  BY <1>4 DEF KillAndResume
<1>5. QED
  BY <1>1, <1>2, <1>3, <1>4 DEF Next

LEMMA TreeStep ==
  ASSUME TypesInv, OrderInv, ChainInv, WritesInv, TurnsInv, TreeInv, LiveInv, ReplayInv, FoldInv,
         [Next]_vars
  PROVE  TreeInv'
<1>1. CASE WriteReaches
  BY <1>1, ReachEffect, TreeStored
<1>2. CASE ~WriteReaches
  <2>1. file' = file /\ (failed => failed')
    BY <1>2, FileSame
  <2>2. Fresh' = Fresh
    BY <2>1 DEF Fresh
  <2>3. QED
    BY <2>1, <2>2 DEF TreeInv
<1>3. QED
  BY <1>1, <1>2

\* What a summary replaces, in a file that grew.
LEMMA DroppedSame ==
  ASSUME NEW f, NEW g, NEW b \in Seq(ItemSet), NEW e, \A k \in DOMAIN b : OnDisk(f, b[k].id),
         \A i : OnDisk(f, i) => EntryOf(g, i) = EntryOf(f, i)
  PROVE  Dropped(g, b, e) = Dropped(f, b, e)
<1> DEFINE n == Len(b) - Len(Kept(b, e.upTo))
<1>1. PICK c \in 0..Len(b) : Kept(b, e.upTo) = SubSeq(b, c + 1, Len(b))
  BY KeptIsSuffix
<1>2. Len(Kept(b, e.upTo)) = Len(b) - c /\ Len(b) \in Nat
  BY <1>1, SuffixKeeps
<1>3. n = c
  BY <1>1, <1>2
<1>4. SummariesOnDisk(f, b)
  BY DEF SummariesOnDisk
<1>5. 1 \in Int /\ c \in Int /\ 1 <= 1 /\ c <= Len(b)
  BY <1>1, <1>2
<1>6. SummariesOnDisk(f, SubSeq(b, 1, c))
  BY <1>4, <1>5, PartSummaries
<1>7. StandsIn(g, SubSeq(b, 1, c)) = StandsIn(f, SubSeq(b, 1, c))
  BY <1>6, StandsSame
<1> HIDE DEF n
<1>8. QED
  BY <1>3, <1>7 DEF Dropped, n

LEMMA CoverStored ==
  ASSUME TypesInv, OrderInv, ChainInv, WritesInv, TreeInv, CoverInv, ReplayInv, FoldInv,
         NEW g, StoredFold(g) \/ StoredOther(g)
  PROVE  CoverInv'
<1>1. Stored(g)
  BY DEF StoredFold, StoredOther
<1>2. /\ \A i \in 0..MaxEntries : i # g.id => Replayed(file', i) = Replayed(file, i)
      /\ g.parent \in 0..MaxEntries /\ g.id \in 0..MaxEntries /\ g.parent < g.id
      /\ \A i : OnDisk(file, i) => EntryOf(file', i) = EntryOf(file, i)
      /\ \A i \in DOMAIN file : file[i].id < g.id
  BY <1>1, GrowBy
<1>3. /\ \A i \in DOMAIN file' : \/ i \in DOMAIN file /\ file'[i] = file[i]
                                 \/ file'[i] = g
      /\ failed' = failed /\ ~poisoned
  BY <1>1, StoredLists DEF Stored
<1>4. \A p \in 0..MaxEntries : \A e : p # g.id =>
        Dropped(file', Replayed(file', p), e) = Dropped(file, Replayed(file, p), e)
  <2>1. ASSUME NEW p \in 0..MaxEntries, NEW e, p # g.id
        PROVE  Dropped(file', Replayed(file', p), e) = Dropped(file, Replayed(file, p), e)
    <3> DEFINE b == Replayed(file, p)
    <3>1. b \in Seq(ItemSet) /\ \A k \in DOMAIN b : OnDisk(file, b[k].id)
      BY ReplayedTyped DEF TypesInv, TypeOK, TreeInv
    <3>2. Replayed(file', p) = b
      BY <1>2, <2>1
    <3> HIDE DEF b
    <3>3. Dropped(file', b, e) = Dropped(file, b, e)
      BY <3>1, <1>2, DroppedSame
    <3>4. QED
      BY <3>2, <3>3 DEF b
  <2>2. QED
    BY <2>1
<1>5. ASSUME ~failed', NEW i \in DOMAIN file', IsFold(file'[i]), ~file'[i].stale
      PROVE  Dropped(file', Replayed(file', file'[i].parent), file'[i]) \subseteq file'[i].covers
  <2>1. CASE i \in DOMAIN file /\ file'[i] = file[i]
    <3>1. file[i].parent < file[i].id /\ file[i].id < g.id
      BY <2>1, <1>2 DEF OrderInv, Rootward
    <3>2. file[i] \in EntrySet /\ file[i].id \in Nat
      BY <2>1, IdsAreNumbers
    <3>3. file[i].parent \in 0..MaxEntries
      BY <3>2 DEF EntrySet
    <3>4. file[i].parent # g.id
      BY <3>1, <3>2, <3>3, <1>2, BoundsAssumption
    <3>5. QED
      BY <3>3, <3>4, <2>1, <1>3, <1>4, <1>5 DEF CoverInv
  <2>2. CASE file'[i] = g
    <3>1. StoredFold(g)
      BY <2>2, <1>5 DEF StoredOther
    <3>2. Writable /\ ~raced'
      BY <3>1, <2>2, <1>3, <1>5 DEF Writable, StoredFold
    <3>3. live = Replayed(file, g.parent) /\ Dropped(file, live, g) = g.covers
      BY <3>1, <3>2, FoldLands
    <3>4. g.parent # g.id
      BY <1>2
    <3>5. QED
      BY <3>3, <3>4, <2>2, <1>2, <1>4
  <2>3. QED
    BY <2>1, <2>2, <1>3
<1>6. QED
  BY <1>5 DEF CoverInv, IsFold

LEMMA CoverStep ==
  ASSUME TypesInv, OrderInv, ChainInv, WritesInv, TreeInv, CoverInv, LiveInv, ReplayInv, FoldInv,
         [Next]_vars
  PROVE  CoverInv'
<1>1. CASE WriteReaches
  BY <1>1, ReachEffect, CoverStored
<1>2. CASE ~WriteReaches
  <2>1. file' = file /\ (failed => failed')
    BY <1>2, FileSame
  <2>2. QED
    BY <2>1 DEF CoverInv
<1>3. QED
  BY <1>1, <1>2

-----------------------------------------------------------------------------
(* The live conversation. *)

LEMMA LiveSay ==
  ASSUME TypesInv, TurnsInv, LiveInv, NEW k, Said(k), k = "result" => open
  PROVE  LiveInv'
<1> DEFINE m == Item(stamped + 1, k)
<1> DEFINE e == Entry(stamped + 1, k)
<1>1. k \in Spoken /\ Queued(e) /\ live' = Append(live, m)
  BY DEF Said
<1>2. m \in ItemSet /\ m.id = stamped + 1 /\ m.kind = k /\ e.id = stamped + 1 /\ e.kind = k
  <2>1. stamped < MaxEntries
    BY <1>1 DEF Queued
  <2>2. QED
    BY <1>1, <2>1, EntryTyped
<1>3. UNCHANGED <<file, linked, failed, poisoned, raced>>
  BY <1>1 DEF Queued
<1> HIDE DEF m, e
<1>4. /\ live \in Seq(ItemSet)
      /\ \A j \in DOMAIN live' : live'[j] = m \/ \E i \in DOMAIN live : live'[j] = live[i]
      /\ Rounds(live) /\ (m.kind = "result" => live # <<>> /\ live[Len(live)].kind = "call") => Rounds(live')
  BY <1>1, <1>2, LiveTyped, MessageLast
<1>5. SummariesOnDisk(file', live')
  <2>1. m.kind # "summary"
    BY <1>1, <1>2 DEF Spoken
  <2>2. QED
    BY <2>1, <1>3, <1>4 DEF LiveInv, SummariesOnDisk
<1>6. \A o \in Owners : SummariesOnDisk(file', fold'[o].tail)
  BY <1>3, SaidFolds DEF LiveInv
<1>7. ~failed' /\ Fresh' => Rounds(live')
  <2>1. Fresh' = Fresh
    BY <1>3 DEF Fresh
  <2>2. ASSUME ~failed, Fresh PROVE Rounds(live')
    BY <2>2, <1>2, <1>4 DEF LiveInv, TurnsInv
  <2>3. QED
    BY <2>1, <2>2, <1>3
<1>8. ASSUME Sound', NEW j \in DOMAIN live'
      PROVE  live'[j].id \in linked' \/ \E i \in DOMAIN pending' : Says(pending'[i]) /\ pending'[i].id = live'[j].id
  <2>1. CASE live'[j] = m
    <3>1. Len(pending) + 1 \in DOMAIN pending' /\ pending'[Len(pending) + 1] = e
      BY <1>1, QueueFacts
    <3>2. Says(e) /\ e.id = m.id
      BY <1>1, <1>2 DEF Says
    <3>3. QED
      BY <2>1, <3>1, <3>2
  <2>2. CASE \E i \in DOMAIN live : live'[j] = live[i]
    <3>1. Sound
      BY <1>3, <1>8 DEF Sound, Writable
    <3>2. live'[j].id \in linked \/ \E i \in DOMAIN pending : Says(pending[i]) /\ pending[i].id = live'[j].id
      BY <2>2, <3>1 DEF LiveInv
    <3>3. \A i \in DOMAIN pending : i \in DOMAIN pending' /\ pending'[i] = pending[i]
      BY <1>1, QueueFacts
    <3>4. QED
      BY <3>2, <3>3, <1>3
  <2>3. QED
    BY <2>1, <2>2, <1>4
<1>9. QED
  BY <1>5, <1>6, <1>7, <1>8 DEF LiveInv, Says

\* An entry that says nothing is queued.
LEMMA LiveQueue ==
  ASSUME TypesInv, LiveInv, NEW e, Queued(e), live' = live,
         \A o \in Owners : fold'[o].tail = fold[o].tail
  PROVE  LiveInv'
<1>1. UNCHANGED <<file, linked, failed, poisoned, raced>>
  BY DEF Queued
<1>2. \A i \in DOMAIN pending : i \in DOMAIN pending' /\ pending'[i] = pending[i]
  BY QueueFacts
<1>3. Fresh' = Fresh /\ Sound' = Sound
  BY <1>1 DEF Fresh, Sound, Writable
<1>4. SummariesOnDisk(file', live') /\ \A o \in Owners : SummariesOnDisk(file', fold'[o].tail)
  BY <1>1 DEF LiveInv
<1>5. ~failed' /\ Fresh' => Rounds(live')
  BY <1>1, <1>3 DEF LiveInv
<1>6. Sound' => \A k \in DOMAIN live' :
       live'[k].id \in linked' \/ \E i \in DOMAIN pending' : Says(pending'[i]) /\ pending'[i].id = live'[k].id
  BY <1>1, <1>2, <1>3 DEF LiveInv
<1>7. QED
  BY <1>4, <1>5, <1>6 DEF LiveInv, Says

LEMMA LiveStoredFold ==
  ASSUME TypesInv, OrderInv, ChainInv, WritesInv, TurnsInv, TreeInv, LiveInv, ReplayInv, FoldInv,
         NEW g, StoredFold(g)
  PROVE  LiveInv'
<1>1. /\ Stored(g) /\ g.by \in Owners /\ raced' = (raced \/ fold[g.by].stale) /\ g.stale = raced'
      /\ live' = <<Item(g.id, "summary")>> \o fold[g.by].tail /\ linked' = linked \cup {g.id}
  BY DEF StoredFold
<1>2. \A i : OnDisk(file', i) <=> OnDisk(file, i) \/ i = g.id
  BY <1>1, GrowBy
<1>3. SummariesOnDisk(file', live')
  <2>1. Item(g.id, "summary") \in ItemSet /\ Item(g.id, "summary").id = g.id
    BY <1>1 DEF Stored, EntrySet, Item, ItemSet
  <2>2. fold[g.by].tail \in Seq(ItemSet)
    BY <1>1, FoldsTyped DEF FoldTyped
  <2>3. \A k \in DOMAIN live' : live'[k] = Item(g.id, "summary")
                                \/ \E i \in DOMAIN fold[g.by].tail : live'[k] = fold[g.by].tail[i]
    BY <1>1, <2>1, <2>2, SummaryFirst
  <2>4. SummariesOnDisk(file, fold[g.by].tail)
    BY <1>1 DEF LiveInv
  <2>5. QED
    BY <1>2, <2>1, <2>3, <2>4 DEF SummariesOnDisk
<1>4. ASSUME NEW o \in Owners PROVE SummariesOnDisk(file', fold'[o].tail)
  <2>1. CASE o = g.by
    <3>1. fold'[o].tail = <<>>
      BY <2>1, StoredFolds
    <3>2. DOMAIN fold'[o].tail = {}
      BY <3>1
    <3>3. QED
      BY <3>2 DEF SummariesOnDisk
  <2>2. CASE o # g.by
    <3>1. fold'[o].tail = fold[o].tail
      BY <2>2, StoredFolds
    <3>2. QED
      BY <3>1, <1>2 DEF LiveInv, SummariesOnDisk
  <2>3. QED
    BY <2>1, <2>2
<1>5. ToSet(file') = ToSet(file) \cup {g} /\ failed' = failed /\ poisoned' = poisoned /\ ~poisoned
  BY <1>1, StoredLists DEF Stored
<1>6. ASSUME ~failed', Fresh' PROVE Rounds(live')
  <2>1. Fresh /\ ~raced' /\ Writable
    BY <1>1, <1>5, <1>6 DEF Fresh, Writable
  <2>2. Rounds(live) => Rounds(live')
    BY <2>1, FoldLands
  <2>3. QED
    BY <2>1, <2>2 DEF LiveInv, Writable
<1>7. ASSUME Sound', NEW k \in DOMAIN live' PROVE live'[k].id \in linked'
  <2>1. Writable /\ ~raced' /\ Sound
    BY <1>1, <1>5, <1>7 DEF Sound, Writable
  <2>2. NoneSaid /\ (live'[k].id = g.id \/ \E i \in DOMAIN live : live'[k] = live[i])
    BY <2>1, FoldLands
  <2>3. QED
    BY <2>1, <2>2, <1>1 DEF LiveInv, NoneSaid
<1>8. QED
  BY <1>3, <1>4, <1>6, <1>7 DEF LiveInv

LEMMA LiveStoredOther ==
  ASSUME TypesInv, OrderInv, ChainInv, WritesInv, LiveInv, NEW g, StoredOther(g)
  PROVE  LiveInv'
<1>1. /\ Stored(g) /\ UNCHANGED <<live, fold, raced, failed, poisoned>>
      /\ linked' = IF g.by = "run" THEN linked \cup {g.id} ELSE linked
  BY DEF StoredOther, Stored
<1>2. \A i : OnDisk(file', i) <=> OnDisk(file, i) \/ i = g.id
  BY <1>1, GrowBy
<1>3. SummariesOnDisk(file', live') /\ \A o \in Owners : SummariesOnDisk(file', fold'[o].tail)
  BY <1>1, <1>2 DEF LiveInv, SummariesOnDisk
<1>4. Fresh' => Fresh
  BY <1>1, StoredLists DEF Fresh
<1>5. ~failed' /\ Fresh' => Rounds(live')
  BY <1>1, <1>4 DEF LiveInv
<1>6. ASSUME Sound', NEW k \in DOMAIN live'
      PROVE  live'[k].id \in linked' \/ \E i \in DOMAIN pending' : Says(pending'[i]) /\ pending'[i].id = live'[k].id
  <2>1. Sound
    BY <1>1, <1>6 DEF Sound, Writable
  <2>2. CASE live[k].id \in linked
    BY <2>2, <1>1
  <2>3. CASE \E i \in DOMAIN pending : Says(pending[i]) /\ pending[i].id = live[k].id
    <3>1. PICK i \in DOMAIN pending : Says(pending[i]) /\ pending[i].id = live[k].id
      BY <2>3
    <3>2. CASE i = 1
      BY <3>1, <3>2, <1>1, StoredSays
    <3>3. CASE i # 1
      <4>1. i - 1 \in DOMAIN pending' /\ pending'[i - 1] = pending[i]
        <5>1. /\ pending \in Seq(EntrySet) /\ pending # <<>> /\ pending' = Tail(pending)
          BY <1>1, StoredLists
        <5>2. /\ DOMAIN pending = 1..Len(pending) /\ DOMAIN pending' = 1..(Len(pending) - 1)
              /\ \A j \in DOMAIN pending' : pending'[j] = pending[j + 1]
              /\ Len(pending) \in Nat
          BY <5>1, TailFacts
        <5>3. i - 1 \in DOMAIN pending' /\ (i - 1) + 1 = i
          BY <3>3, <5>2
        <5>4. QED
          BY <5>2, <5>3
      <4>2. QED
        BY <4>1, <3>1, <1>1
    <3>4. QED
      BY <3>2, <3>3
  <2>4. QED
    BY <2>1, <2>2, <2>3, <1>1 DEF LiveInv
<1>7. QED
  BY <1>3, <1>5, <1>6 DEF LiveInv, Says

LEMMA LiveKill ==
  ASSUME TypesInv, TreeInv, LiveInv, KillAndResume
  PROVE  LiveInv'
<1>1. PICK leaf \in 0..MaxEntries :
         /\ live' = Replayed(file, leaf) /\ linked' = ItemIds(live')
         /\ fold' = [o \in Owners |-> NoFold] /\ UNCHANGED <<file, failed>>
  BY KillEffect
<1>2. live' \in Seq(ItemSet)
  BY <1>1, ReplayedTyped DEF TypesInv, TypeOK
<1>3. SummariesOnDisk(file', live')
  BY <1>1 DEF TreeInv, SummariesOnDisk
<1>4. ASSUME NEW o \in Owners PROVE SummariesOnDisk(file', fold'[o].tail)
  <2>1. fold'[o].tail = <<>>
    BY <1>1 DEF NoFold
  <2>2. DOMAIN fold'[o].tail = {}
    BY <2>1
  <2>3. QED
    BY <2>2 DEF SummariesOnDisk
<1>5. ~failed' /\ Fresh' => Rounds(live')
  BY <1>1 DEF TreeInv, Fresh
<1>6. \A k \in DOMAIN live' : live'[k].id \in linked'
  BY <1>1, <1>2 DEF ItemIds, ToSet
<1>7. QED
  BY <1>3, <1>4, <1>5, <1>6 DEF LiveInv

LEMMA LiveFails ==
  ASSUME TypesInv, WritesInv, LiveInv, WriteFails
  PROVE  LiveInv'
<1>1. /\ (failed => failed') /\ ~Writable' /\ UNCHANGED <<file, live>>
      /\ IsFold(pending[1]) => pending[1].by \in Owners
      /\ fold' = IF IsFold(pending[1]) THEN [fold EXCEPT ![pending[1].by] = NoFold] ELSE fold
  BY FailEffect
<1>2. \A o \in Owners : fold'[o] = fold[o] \/ fold'[o] = NoFold
  BY <1>1, FoldsTyped
<1>3. ASSUME NEW o \in Owners PROVE SummariesOnDisk(file', fold'[o].tail)
  <2>1. CASE fold'[o] = fold[o]
    BY <2>1, <1>1 DEF LiveInv
  <2>2. CASE fold'[o] = NoFold
    <3>1. fold'[o].tail = <<>>
      BY <2>2 DEF NoFold
    <3>2. DOMAIN fold'[o].tail = {}
      BY <3>1
    <3>3. QED
      BY <3>2 DEF SummariesOnDisk
  <2>3. QED
    BY <2>1, <2>2, <1>2
<1>4. Fresh' = Fresh /\ ~Sound'
  BY <1>1 DEF Fresh, Sound
<1>5. SummariesOnDisk(file', live') /\ (~failed' /\ Fresh' => Rounds(live'))
  BY <1>1, <1>4 DEF LiveInv
<1>6. QED
  BY <1>3, <1>4, <1>5 DEF LiveInv

LEMMA LiveFold ==
  ASSUME TypesInv, LiveInv, NEW o \in Owners, StartFold(o) \/ SummaryRefused(o)
  PROVE  LiveInv'
<1>1. UNCHANGED <<file, live, linked, pending, poisoned, failed, raced>>
  BY QuietEffect
<1>2. ASSUME NEW p \in Owners PROVE SummariesOnDisk(file', fold'[p].tail)
  <2>1. CASE StartFold(o)
    <3>1. PICK c \in DOMAIN live : \E r : FoldTyped(r) /\ SummariesOnDisk(file, r.tail)
                                          /\ fold' = [fold EXCEPT ![o] = r]
      BY <2>1, StartEffect
    <3>2. PICK r : FoldTyped(r) /\ SummariesOnDisk(file, r.tail) /\ fold' = [fold EXCEPT ![o] = r]
      BY <3>1
    <3>3. fold'[p] = IF p = o THEN r ELSE fold[p]
      BY <3>2, FoldsTyped
    <3>4. QED
      BY <3>2, <3>3, <1>1 DEF LiveInv
  <2>2. CASE SummaryRefused(o)
    <3>1. fold'[p] = IF p = o THEN NoFold ELSE fold[p]
      BY <2>2, FoldsTyped DEF SummaryRefused
    <3>2. NoFold.tail = <<>>
      BY DEF NoFold
    <3>3. DOMAIN NoFold.tail = {}
      BY <3>2
    <3>4. QED
      BY <3>1, <3>3, <1>1 DEF LiveInv, SummariesOnDisk
  <2>3. QED
    BY <2>1, <2>2
<1>3. Fresh' = Fresh /\ Sound' = Sound
  BY <1>1 DEF Fresh, Sound, Writable
<1>4. QED
  BY <1>1, <1>2, <1>3 DEF LiveInv

LEMMA LiveStep ==
  ASSUME TypesInv, OrderInv, ChainInv, WritesInv, TurnsInv, TreeInv, LiveInv, ReplayInv, FoldInv,
         [Next]_vars
  PROVE  LiveInv'
<1>1. CASE Prompt
  BY <1>1, PromptEffect, LiveSay
<1>2. CASE Speak
  BY <1>2, SpeakEffect, LiveSay
<1>3. CASE RecordState \/ ToolState
  BY <1>3, StateEffect, LiveQueue
<1>4. CASE \E o \in Owners : SummaryArrives(o)
  <2>1. PICK o \in Owners : SummaryArrives(o)
    BY <1>4
  <2>2. PICK e : Queued(e) /\ fold' = [fold EXCEPT ![o].stage = "saving"] /\ live' = live
    BY <2>1, ArrivesEffect
  <2>3. \A p \in Owners : fold'[p].tail = fold[p].tail
    BY <2>2, FoldsTyped DEF FoldTyped
  <2>4. QED
    BY <2>2, <2>3, LiveQueue
<1>5. CASE \E o \in Owners : StartFold(o) \/ SummaryRefused(o)
  BY <1>5, LiveFold
<1>6. CASE WriteReaches
  BY <1>6, ReachEffect, LiveStoredFold, LiveStoredOther
<1>7. CASE WriteFails
  BY <1>7, LiveFails
<1>8. CASE KillAndResume
  BY <1>8, LiveKill
<1>9. CASE RunEnds \/ UNCHANGED vars
  <2>1. UNCHANGED <<file, live, linked, pending, poisoned, failed, raced, fold>>
    BY <1>9 DEF RunEnds, vars
  <2>2. Fresh' = Fresh /\ Sound' = Sound
    BY <2>1 DEF Fresh, Sound, Writable
  <2>3. QED
    BY <2>1, <2>2 DEF LiveInv
<1>10. QED
  BY <1>1, <1>2, <1>3, <1>4, <1>5, <1>6, <1>7, <1>8, <1>9 DEF Next

-----------------------------------------------------------------------------
(* Live is replay. *)

LEMMA ReplaySay ==
  ASSUME TypesInv, OrderInv, ChainInv, ReplayInv, NEW k, Said(k), NoneSaid
  PROVE  ReplayInv'
<1> DEFINE e == Entry(stamped + 1, k)
<1>1. k \in Spoken /\ Queued(e) /\ live' = Append(live, Item(stamped + 1, k)) /\ stamped < MaxEntries
  BY DEF Said, Queued
<1>2. e.id = stamped + 1 /\ e.kind = k
  BY <1>1, EntryTyped
<1>3. UNCHANGED <<file, failed, poisoned, raced>> /\ DiskLeaf' = DiskLeaf
  BY <1>1, ChainQueue DEF Queued
<1> HIDE DEF e
<1>4. Says(e)
  BY <1>1, <1>2 DEF Says
<1>5. /\ \A i \in DOMAIN pending' : pending'[i] = e \/ \E j \in DOMAIN pending : pending'[i] = pending[j]
      /\ Len(pending) + 1 \in DOMAIN pending' /\ pending'[Len(pending) + 1] = e
  BY <1>1, QueueFacts
<1>6. ~NoneSaid'
  <2>1. \E i \in DOMAIN pending' : Says(pending'[i])
    BY <1>4, <1>5
  <2>2. QED
    BY <2>1 DEF NoneSaid, Says
<1>7. ASSUME Sound', NEW i \in DOMAIN pending', Says(pending'[i])
      PROVE  live' = Append(Replayed(file', DiskLeaf'), Item(pending'[i].id, pending'[i].kind))
  <2>1. pending'[i] = e
    BY <1>5, <1>7 DEF NoneSaid
  <2>2. live = Replayed(file, DiskLeaf)
    BY <1>3, <1>7 DEF Sound, Writable, ReplayInv
  <2>3. QED
    BY <2>1, <2>2, <1>1, <1>2, <1>3
<1>8. QED
  BY <1>6, <1>7 DEF ReplayInv, Says, Replayed

LEMMA ReplayQueue ==
  ASSUME TypesInv, OrderInv, ChainInv, ReplayInv, NEW e, Queued(e), ~Says(e), live' = live
  PROVE  ReplayInv' /\ (NoneSaid => NoneSaid')
<1>1. UNCHANGED <<file, failed, poisoned, raced>> /\ DiskLeaf' = DiskLeaf
  BY ChainQueue DEF Queued
<1>2. /\ \A i \in DOMAIN pending' : pending'[i] = e \/ \E j \in DOMAIN pending : pending'[i] = pending[j]
      /\ \A i \in DOMAIN pending : i \in DOMAIN pending' /\ pending'[i] = pending[i]
  BY QueueFacts
<1>3. NoneSaid' <=> NoneSaid
  BY <1>2 DEF NoneSaid, Says
<1>4. Sound' = Sound
  BY <1>1 DEF Sound, Writable
<1>5. ASSUME Sound', NEW i \in DOMAIN pending', Says(pending'[i])
      PROVE  live' = Append(Replayed(file', DiskLeaf'), Item(pending'[i].id, pending'[i].kind))
  <2>1. \E j \in DOMAIN pending : pending'[i] = pending[j]
    BY <1>2, <1>5
  <2>2. QED
    BY <2>1, <1>1, <1>4, <1>5 DEF ReplayInv
<1>6. Sound' /\ NoneSaid' => live' = Replayed(file', DiskLeaf')
  BY <1>1, <1>3, <1>4 DEF ReplayInv
<1>7. QED
  BY <1>3, <1>5, <1>6 DEF ReplayInv, Says, Replayed

LEMMA ReplayStoredFold ==
  ASSUME TypesInv, OrderInv, ChainInv, WritesInv, TreeInv, ReplayInv, FoldInv, NEW g, StoredFold(g)
  PROVE  ReplayInv'
<1>1. Stored(g) /\ failed' = failed /\ poisoned' = poisoned
  BY DEF StoredFold, Stored
<1>2. SUFFICES ASSUME Sound' PROVE ReplayInv'
  BY DEF ReplayInv
<1>3. Writable /\ ~raced'
  BY <1>1, <1>2 DEF Sound, Writable
<1>4. NoneSaid /\ live = Replayed(file, g.parent) /\ live' = ReplayEntry(live, g)
  BY <1>3, FoldLands
<1>5. Replayed(file', g.id) = ReplayEntry(Replayed(file, g.parent), g) /\ DiskLeaf' = g.id
  BY <1>1, <1>3, GrowBy
<1>6. \A i \in DOMAIN pending' : ~Says(pending'[i])
  BY <1>1, <1>4, StoredLists DEF NoneSaid
<1>7. live' = Replayed(file', DiskLeaf')
  BY <1>4, <1>5
<1>8. QED
  BY <1>6, <1>7 DEF ReplayInv, Says, Replayed

LEMMA ReplayStoredOther ==
  ASSUME TypesInv, OrderInv, ChainInv, WritesInv, ReplayInv, NEW g, StoredOther(g)
  PROVE  ReplayInv'
<1>1. Stored(g) /\ UNCHANGED <<live, raced, failed, poisoned>>
  BY DEF StoredOther, Stored
<1>2. SUFFICES ASSUME Sound' PROVE ReplayInv'
  BY DEF ReplayInv
<1>3. Sound /\ Writable
  BY <1>1, <1>2 DEF Sound, Writable
<1>4. Replayed(file', g.id) = ReplayEntry(Replayed(file, g.parent), g) /\ DiskLeaf' = g.id
  BY <1>1, <1>3, GrowBy
<1>5. /\ 1 \in DOMAIN pending /\ pending' = Tail(pending) /\ pending # <<>> /\ DOMAIN pending = 1..Len(pending)
      /\ \A i \in DOMAIN pending' : i + 1 \in DOMAIN pending /\ pending'[i] = pending[i + 1]
  BY <1>1, StoredLists
<1>6. CASE Says(g)
  <2>1. live = Replayed(file', g.id)
    BY <1>3, <1>4, <1>5, <1>6, StoredSays DEF ReplayInv
  <2>2. \A i \in DOMAIN pending' : ~Says(pending'[i])
    BY <1>6, StoredSays DEF NoneSaid, Says
  <2>3. live' = Replayed(file', DiskLeaf')
    BY <2>1, <1>1, <1>4
  <2>4. QED
    BY <2>2, <2>3 DEF ReplayInv, Says, Replayed
<1>7. CASE ~Says(g)
  <2>1. Replayed(file', DiskLeaf') = Replayed(file, DiskLeaf)
    BY <1>4, <1>7, StoredSays
  <2>2. ASSUME NEW i \in DOMAIN pending', Says(pending'[i])
        PROVE  live' = Append(Replayed(file', DiskLeaf'), Item(pending'[i].id, pending'[i].kind))
    BY <2>1, <2>2, <1>1, <1>3, <1>5 DEF ReplayInv
  <2>3. ASSUME \A i \in DOMAIN pending' : ~Says(pending'[i])
        PROVE  live' = Replayed(file', DiskLeaf')
    <3>1. ~Says(pending[1])
      BY <1>7, StoredSays
    <3>2. NoneSaid
      <4>1. ASSUME NEW i \in DOMAIN pending, i # 1 PROVE ~Says(pending[i])
        <5>1. i - 1 \in DOMAIN pending' /\ pending'[i - 1] = pending[i]
          <6>1. pending \in Seq(EntrySet)
            BY <1>1, StoredLists
          <6>2. /\ DOMAIN pending' = 1..(Len(pending) - 1) /\ Len(pending) \in Nat
                /\ \A j \in DOMAIN pending' : pending'[j] = pending[j + 1]
            BY <6>1, <1>5, TailFacts
          <6>3. i - 1 \in DOMAIN pending' /\ (i - 1) + 1 = i
            BY <4>1, <1>5, <6>2
          <6>4. QED
            BY <6>2, <6>3
        <5>2. QED
          BY <5>1, <2>3
      <4>2. QED
        BY <3>1, <4>1 DEF NoneSaid
    <3>3. QED
      BY <3>2, <2>1, <1>1, <1>3 DEF ReplayInv
  <2>4. QED
    BY <2>2, <2>3 DEF ReplayInv, Says, Replayed, NoneSaid
<1>8. QED
  BY <1>6, <1>7

LEMMA ReplayKill ==
  ASSUME TypesInv, KillAndResume
  PROVE  ReplayInv'
<1>1. PICK leaf \in 0..MaxEntries :
         live' = Replayed(file, leaf) /\ last' = leaf /\ pending' = <<>> /\ UNCHANGED <<file, stamped, failed>>
  BY KillEffect
<1>2. DiskLeaf' = leaf /\ DOMAIN pending' = {}
  BY <1>1 DEF DiskLeaf
<1>3. live' = Replayed(file', DiskLeaf')
  BY <1>1, <1>2
<1>4. QED
  BY <1>2, <1>3 DEF ReplayInv, Replayed

LEMMA ReplayStep ==
  ASSUME TypesInv, OrderInv, ChainInv, WritesInv, TreeInv, LiveInv, ReplayInv, FoldInv, [Next]_vars
  PROVE  ReplayInv'
<1>1. CASE Prompt
  BY <1>1, PromptEffect, NobodySaid, ReplaySay
<1>2. CASE Speak
  <2>1. PICK k \in Spoken : Said(k) /\ ~RunBusy
    BY <1>2, SpeakEffect
  <2>2. QED
    BY <2>1, NobodySaid, ReplaySay
<1>3. CASE RecordState \/ ToolState
  <2>1. PICK e : Queued(e) /\ e.kind = "state" /\ live' = live
    BY <1>3, StateEffect
  <2>2. QED
    BY <2>1, ReplayQueue DEF Says, Spoken
<1>4. CASE \E o \in Owners : SummaryArrives(o)
  <2>1. PICK e : Queued(e) /\ e.kind = "fold" /\ live' = live
    BY <1>4, ArrivesEffect
  <2>2. QED
    BY <2>1, ReplayQueue DEF Says, Spoken
<1>5. CASE (\E o \in Owners : StartFold(o) \/ SummaryRefused(o)) \/ RunEnds \/ UNCHANGED vars
  <2>1. UNCHANGED <<file, live, last, pending, poisoned, failed, raced>>
    BY <1>5, QuietEffect
  <2>2. DiskLeaf' = DiskLeaf /\ Sound' = Sound /\ NoneSaid' = NoneSaid
    BY <2>1 DEF DiskLeaf, Sound, Writable, NoneSaid, Says
  <2>3. QED
    BY <2>1, <2>2 DEF ReplayInv, Says, Replayed
<1>6. CASE WriteReaches
  BY <1>6, ReachEffect, ReplayStoredFold, ReplayStoredOther
<1>7. CASE WriteFails
  BY <1>7, FailEffect DEF ReplayInv, Sound
<1>8. CASE KillAndResume
  BY <1>8, ReplayKill
<1>9. QED
  BY <1>1, <1>2, <1>3, <1>4, <1>5, <1>6, <1>7, <1>8 DEF Next

-----------------------------------------------------------------------------
(* What a compaction under way read is what its entry will fold. *)

\* Snapshot, of any compaction, conversation and file.
Taken(r, items, f, c) ==
  /\ r.upTo = items[c].id
  /\ r.tail = Strip(SubSeq(items, c + 1, Len(items)), r.strip)
  /\ r.covers = StandsIn(f, SubSeq(items, 1, c))
  /\ c < Len(items) => items[c + 1].kind # "result"

\* FoldInv in terms of it, now and in the next state.
LEMMA FoldMeaning ==
  FoldInv <=> (Sound => \A o \in Owners : Active(o) /\ ~fold[o].stale =>
                 NoneSaid /\ \E c \in DOMAIN live : Taken(fold[o], live, file, c))
BY DEF FoldInv, Snapshot, Taken

LEMMA FoldAgain ==
  ASSUME Sound' => \A o \in Owners : Active(o)' /\ ~fold'[o].stale =>
                     NoneSaid' /\ \E c \in DOMAIN live' : Taken(fold'[o], live', file', c)
  PROVE  FoldInv'
BY DEF FoldInv, Snapshot, Taken, Active, NoneSaid, Says, StandsIn, Strip, WithoutThinking, EntryOf

LEMMA FoldStays ==
  ASSUME FoldInv, UNCHANGED <<file, live, failed, poisoned, raced>>, NoneSaid => NoneSaid',
         \A o \in Owners :
           /\ fold'[o].upTo = fold[o].upTo /\ fold'[o].tail = fold[o].tail
           /\ fold'[o].covers = fold[o].covers /\ fold'[o].strip = fold[o].strip
           /\ fold'[o].stale = fold[o].stale /\ (Active(o)' => Active(o))
  PROVE  FoldInv'
<1>1. Sound' = Sound
  BY DEF Sound, Writable
<1>2. ASSUME Sound', NEW o \in Owners, Active(o)', ~fold'[o].stale
      PROVE  NoneSaid' /\ \E c \in DOMAIN live' : Taken(fold'[o], live', file', c)
  <2>1. NoneSaid /\ \E c \in DOMAIN live : Taken(fold[o], live, file, c)
    BY <1>1, <1>2, FoldMeaning
  <2>2. QED
    BY <2>1 DEF Taken
<1>3. QED
  BY <1>2, FoldAgain

LEMMA FoldStart ==
  ASSUME TypesInv, WritesInv, LiveInv, FoldInv, NEW o \in Owners, StartFold(o)
  PROVE  FoldInv'
<1>1. PICK c \in DOMAIN live : \E r :
           /\ FoldTyped(r)
           /\ r.upTo = UpToId(c) /\ r.covers = StandsIn(file, SubSeq(live, 1, c))
           /\ r.tail = Strip(SubSeq(live, c + 1, Len(live)), r.strip)
           /\ c < Len(live) => live[c + 1].kind # "result"
           /\ fold' = [fold EXCEPT ![o] = r]
           /\ IF o = "run" THEN running /\ ~RunBusy /\ ~open ELSE ~running
           /\ UNCHANGED <<file, stamped, last, live, linked, pending, poisoned, running, open, kills,
                          acked, failed, raced>>
  BY StartEffect
<1>2. PICK r :
           /\ r.upTo = UpToId(c) /\ r.covers = StandsIn(file, SubSeq(live, 1, c))
           /\ r.tail = Strip(SubSeq(live, c + 1, Len(live)), r.strip)
           /\ c < Len(live) => live[c + 1].kind # "result"
           /\ fold' = [fold EXCEPT ![o] = r]
  BY <1>1
<1>3. UNCHANGED <<file, live, pending, failed, poisoned, raced>>
  BY <1>1
<1>4. NoneSaid
  BY <1>1, NobodySaid
<1>5. NoneSaid' /\ Sound' = Sound
  BY <1>3, <1>4 DEF NoneSaid, Says, Sound, Writable
<1>6. ASSUME Sound, NEW p \in Owners, Active(p)', ~fold'[p].stale
      PROVE  \E d \in DOMAIN live : Taken(fold'[p], live, file, d)
  <2>1. fold'[p] = IF p = o THEN r ELSE fold[p]
    BY <1>2, FoldsTyped
  <2>2. CASE p = o
    <3>1. live[c].id \in linked
      BY <1>4, <1>6 DEF LiveInv, NoneSaid
    <3>2. r.upTo = live[c].id
      BY <3>1, <1>2 DEF UpToId
    <3>3. Taken(r, live, file, c)
      BY <3>2, <1>2 DEF Taken
    <3>4. QED
      BY <3>3, <2>1, <2>2
  <2>3. CASE p # o
    BY <2>1, <2>3, <1>6, FoldMeaning DEF Active
  <2>4. QED
    BY <2>2, <2>3
<1>7. QED
  BY <1>3, <1>5, <1>6, FoldAgain

LEMMA FoldStoredOther ==
  ASSUME TypesInv, OrderInv, ChainInv, WritesInv, LiveInv, FoldInv, NEW g, StoredOther(g)
  PROVE  FoldInv'
<1>1. Stored(g) /\ UNCHANGED <<live, fold, raced, failed, poisoned>>
  BY DEF StoredOther, Stored
<1>2. \A i : OnDisk(file, i) => EntryOf(file', i) = EntryOf(file, i)
  BY <1>1, GrowBy
<1>3. ASSUME Sound', NEW o \in Owners, Active(o)', ~fold'[o].stale
      PROVE  NoneSaid' /\ \E c \in DOMAIN live' : Taken(fold'[o], live', file', c)
  <2>1. Sound /\ Active(o) /\ ~fold[o].stale
    BY <1>1, <1>3 DEF Sound, Writable, Active
  <2>2. NoneSaid
    BY <2>1, FoldMeaning
  <2>3. PICK c \in DOMAIN live : Taken(fold[o], live, file, c)
    BY <2>1, FoldMeaning
  <2>4. NoneSaid'
    <3>1. ~Says(g)
      BY <2>2, <1>1, StoredSays, StoredLists DEF NoneSaid
    <3>2. QED
      BY <3>1, <2>2, StoredSays
  <2>5. StandsIn(file', SubSeq(live, 1, c)) = StandsIn(file, SubSeq(live, 1, c))
    <3>1. live \in Seq(ItemSet) /\ 1 \in Int /\ c \in Int /\ 1 <= 1 /\ c <= Len(live)
      BY LiveTyped
    <3>2. SummariesOnDisk(file, SubSeq(live, 1, c))
      BY <3>1, PartSummaries DEF LiveInv
    <3>3. QED
      BY <3>2, <1>2, StandsSame
  <2>6. Taken(fold'[o], live', file', c)
    BY <2>3, <2>5, <1>1 DEF Taken
  <2>7. QED
    BY <2>4, <2>6, <1>1
<1>4. QED
  BY <1>3, FoldAgain

LEMMA FoldStep ==
  ASSUME TypesInv, OrderInv, ChainInv, WritesInv, LiveInv, ReplayInv, FoldInv, [Next]_vars
  PROVE  FoldInv'
<1>1. CASE Prompt \/ Speak
  <2>1. PICK k : Said(k)
    BY <1>1, PromptEffect, SpeakEffect
  <2>2. \A o \in Owners : Active(o)' => fold'[o].stale
    BY <2>1, SaidFolds
  <2>3. QED
    BY <2>2 DEF FoldInv
<1>2. CASE RecordState \/ ToolState
  <2>1. PICK e : Queued(e) /\ e.kind = "state" /\ live' = live /\ fold' = fold
    BY <1>2, StateEffect
  <2>2. NoneSaid => NoneSaid'
    BY <2>1, ReplayQueue DEF Says, Spoken
  <2>3. UNCHANGED <<file, live, failed, poisoned, raced>>
    BY <2>1 DEF Queued
  <2>4. QED
    BY <2>1, <2>2, <2>3, FoldStays DEF Active
<1>3. CASE \E o \in Owners : SummaryArrives(o)
  <2>1. PICK o \in Owners : SummaryArrives(o)
    BY <1>3
  <2>2. PICK e : /\ Queued(e) /\ e.kind = "fold" /\ live' = live /\ fold[o].stage = "summarising"
                 /\ fold' = [fold EXCEPT ![o].stage = "saving"]
    BY <2>1, ArrivesEffect
  <2>3. NoneSaid => NoneSaid'
    BY <2>2, ReplayQueue DEF Says, Spoken
  <2>4. UNCHANGED <<file, live, failed, poisoned, raced>>
    BY <2>2 DEF Queued
  <2>5. \A p \in Owners :
           /\ fold'[p].upTo = fold[p].upTo /\ fold'[p].tail = fold[p].tail
           /\ fold'[p].covers = fold[p].covers /\ fold'[p].strip = fold[p].strip
           /\ fold'[p].stale = fold[p].stale /\ (Active(p)' => Active(p))
    BY <2>2, FoldsTyped DEF FoldTyped, Active
  <2>6. QED
    BY <2>3, <2>4, <2>5, FoldStays
<1>4. CASE \E o \in Owners : StartFold(o)
  BY <1>4, FoldStart
<1>5. CASE \E o \in Owners : SummaryRefused(o)
  <2>1. PICK o \in Owners : SummaryRefused(o)
    BY <1>5
  <2>2. \A p \in Owners : fold'[p] = IF p = o THEN NoFold ELSE fold[p]
    BY <2>1, FoldsTyped DEF SummaryRefused
  <2>3. UNCHANGED <<file, live, pending, failed, poisoned, raced>>
    BY <2>1 DEF SummaryRefused
  <2>4. Sound' = Sound /\ NoneSaid' = NoneSaid
    BY <2>3 DEF Sound, Writable, NoneSaid, Says
  <2>5. ASSUME Sound, NEW p \in Owners, Active(p)', ~fold'[p].stale
        PROVE  NoneSaid /\ \E c \in DOMAIN live : Taken(fold'[p], live, file, c)
    <3>1. fold'[p] = fold[p] /\ Active(p)
      BY <2>2, <2>5 DEF Active, NoFold
    <3>2. QED
      BY <3>1, <2>5, FoldMeaning
  <2>6. QED
    BY <2>3, <2>4, <2>5, FoldAgain
<1>6. CASE WriteReaches
  <2>1. PICK g : StoredFold(g) \/ StoredOther(g)
    BY <1>6, ReachEffect
  <2>2. CASE StoredFold(g)
    BY <2>2, StoredFolds DEF FoldInv
  <2>3. CASE StoredOther(g)
    BY <2>3, FoldStoredOther
  <2>4. QED
    BY <2>1, <2>2, <2>3
<1>7. CASE WriteFails
  BY <1>7, FailEffect DEF FoldInv, Sound
<1>8. CASE KillAndResume
  <2>1. fold' = [o \in Owners |-> NoFold]
    BY <1>8, KillEffect
  <2>2. QED
    BY <2>1 DEF FoldInv, Active, NoFold
<1>9. CASE RunEnds \/ UNCHANGED vars
  <2>1. UNCHANGED <<file, live, pending, failed, poisoned, raced, fold>>
    BY <1>9 DEF RunEnds, vars
  <2>2. NoneSaid' = NoneSaid
    BY <2>1 DEF NoneSaid, Says
  <2>3. QED
    BY <2>1, <2>2, FoldStays DEF Active
<1>10. QED
  BY <1>1, <1>2, <1>3, <1>4, <1>5, <1>6, <1>7, <1>8, <1>9 DEF Next

-----------------------------------------------------------------------------
(* The invariant. *)

\* A session starts with the invariant.
LEMMA InitInv == Init => IInv
<1> SUFFICES ASSUME Init PROVE IInv
  OBVIOUS
<1> USE DEF Init
<1>1. /\ file \in Seq(EntrySet) /\ ToSet(file) = {} /\ DOMAIN file = {} /\ DOMAIN pending = {}
      /\ pending \in Seq(EntrySet) /\ ToSet(pending) = {}
      /\ live \in Seq(ItemSet) /\ DOMAIN live = {} /\ <<>> \in Seq(ItemSet)
  BY DEF ToSet
<1>2. \A o \in Owners : fold[o] = NoFold /\ ~Active(o) /\ fold[o].tail = <<>> /\ DOMAIN fold[o].tail = {}
  BY DEF Active, NoFold
<1>3. TypesInv
  <2>1. fold \in [Owners -> FoldRecords]
    <3>1. NoFold \in FoldRecords
      BY NoFoldTyped DEF FoldTyped, FoldRecords
    <3>2. QED
      BY <3>1
  <2>2. 0 \in 0..MaxEntries /\ 0 \in 0..MaxKills /\ last \in 0..stamped
    BY BoundsAssumption
  <2>3. TypeOK
    BY <2>1, <2>2, <1>1 DEF TypeOK, FoldRecords
  <2>4. QED
    BY <2>3, <1>2 DEF TypesInv
<1>4. OrderInv /\ ChainInv /\ WritesInv /\ NoneSaid
  BY <1>1 DEF OrderInv, ChainInv, WritesInv, NoneSaid, Ascending, Rootward
<1>5. TurnsInv
  BY <1>2 DEF TurnsInv, Owners
<1>6. AckedInv
  BY DEF AckedInv
<1>7. \A i \in 0..MaxEntries : Replayed(file, i) = <<>> /\ DOMAIN Replayed(file, i) = {}
  <2>1. ASSUME NEW i \in 0..MaxEntries PROVE PathToLeaf(file, i) = <<>>
    BY <1>1, PathDef DEF OnDisk
  <2>2. \A i \in 0..MaxEntries : Replayed(file, i) = <<>>
    BY <2>1, MaterializeNothing DEF Replayed
  <2>3. DOMAIN <<>> = {}
    OBVIOUS
  <2>4. QED
    BY <2>2, <2>3
<1>8. TreeInv
  BY <1>7 DEF TreeInv, Distinct, Rounds
<1>9. CoverInv
  BY <1>1 DEF CoverInv
<1>10. LiveInv
  BY <1>1, <1>2 DEF LiveInv, SummariesOnDisk, Rounds
<1>11. ReplayInv
  <2>1. DiskLeaf = 0 /\ 0 \in 0..MaxEntries
    BY BoundsAssumption DEF DiskLeaf
  <2>2. live = Replayed(file, DiskLeaf)
    BY <2>1, <1>7
  <2>3. QED
    BY <2>2, <1>1 DEF ReplayInv
<1>12. FoldInv
  BY <1>2 DEF FoldInv
<1>13. QED
  BY <1>3, <1>4, <1>5, <1>6, <1>8, <1>9, <1>10, <1>11, <1>12 DEF IInv

\* Every step keeps it.
LEMMA StepInv == IInv /\ [Next]_vars => IInv'
<1> SUFFICES ASSUME IInv, [Next]_vars PROVE IInv'
  OBVIOUS
<1>1. /\ TypesInv /\ OrderInv /\ ChainInv /\ WritesInv /\ TurnsInv /\ AckedInv /\ TreeInv
      /\ CoverInv /\ LiveInv /\ ReplayInv /\ FoldInv
  BY DEF IInv
<1>2. TypesInv' /\ OrderInv' /\ ChainInv' /\ WritesInv' /\ TurnsInv' /\ AckedInv'
  BY <1>1, TypesStep, OrderStep, ChainStep, WritesStep, TurnsStep, AckedStep
<1>3. TreeInv' /\ CoverInv' /\ LiveInv' /\ ReplayInv' /\ FoldInv'
  BY <1>1, TreeStep, CoverStep, LiveStep, ReplayStep, FoldStep
<1>4. QED
  BY <1>2, <1>3 DEF IInv

\* The invariant the theorems rest on.
LEMMA Invariant == Spec => []IInv
<1>1. Init => IInv
  BY InitInv
<1>2. IInv /\ [Next]_vars => IInv'
  BY StepInv
<1>3. QED
  BY <1>1, <1>2, PTL DEF Spec

-----------------------------------------------------------------------------
(* What follows. *)

\* Every variable keeps its type, and a compaction entry names the entry it folds
\* up to (#stamp, compactMessages).
THEOREM TypeCorrect == Spec => []TypeOK
<1>1. IInv => TypeOK
  BY DEF IInv, TypesInv
<1>2. QED
  BY <1>1, Invariant, PTL

\* Whatever was compacted, by the run or by the host, and however often the
\* process died: once nothing is being written, materializeBranch of the file is
\* the conversation in #messages.
THEOREM ResumeIsFaithful == Spec => []LiveIsReplay
<1>1. IInv => LiveIsReplay
  <2> SUFFICES ASSUME IInv, Quiet, ~failed, ~raced PROVE Materialize(Branch) = live
    BY DEF LiveIsReplay
  <2>1. DiskLeaf = last /\ NoneSaid
    BY DEF Quiet, DiskLeaf, NoneSaid
  <2>2. ReplayInv
    BY DEF IInv
  <2>3. QED
    BY <2>1, <2>2 DEF ReplayInv, Sound, Writable, Quiet, Replayed, Branch
<1>2. QED
  BY <1>1, Invariant, PTL

\* A message #appendMessage acknowledged is on the branch a resume reads, through
\* deaths of the process and failed state writes.
THEOREM AcknowledgedIsKept == Spec => []NothingForgotten
<1>1. IInv => NothingForgotten
  BY DEF IInv, AckedInv, NothingForgotten, DiskLeaf, Writable, PathIds, Branch
<1>2. QED
  BY <1>1, Invariant, PTL

\* No cut of findCompactionCut, live or replayed, parts a tool call from its
\* result.
THEOREM RoundsAreKept == Spec => []RoundsStayTogether
<1>1. IInv => RoundsStayTogether
  BY DEF IInv, LiveInv, RoundsStayTogether, Fresh, Rounds
<1>2. QED
  BY <1>1, Invariant, PTL

\* Where materializeBranch drops messages for a summary, on whatever branch, the
\* summary was written from those messages.
THEOREM SummariesCoverWhatTheyFold == Spec => []FoldsOnlyWhatWasRead
<1>1. IInv => FoldsOnlyWhatWasRead
  <2> DEFINE branch == PathToLeaf(file, last)
  <2> SUFFICES ASSUME IInv, ~failed, NEW n \in DOMAIN branch, IsFold(branch[n]), ~branch[n].stale
               PROVE  FoldedAt(branch, n) \subseteq branch[n].covers
    BY DEF FoldsOnlyWhatWasRead, Branch
  <2> DEFINE x == branch[n]
  <2>1. Rootward(file) /\ file \in Seq(EntrySet) /\ last \in 0..MaxEntries /\ CoverInv
    BY BoundsAssumption DEF IInv, OrderInv, TypesInv, TypeOK
  <2>2. x \in ToSet(file) /\ SubSeq(branch, 1, n - 1) = PathToLeaf(file, x.parent)
    BY <2>1, PathPrefix
  <2>3. PICK i \in DOMAIN file : file[i] = x
    BY <2>1, <2>2 DEF ToSet
  <2>4. FoldedAt(branch, n) = Dropped(file, Replayed(file, x.parent), x)
    BY <2>2 DEF FoldedAt, Dropped, Replayed, Stands, StandsIn
  <2>5. Dropped(file, Replayed(file, x.parent), x) \subseteq x.covers
    BY <2>1, <2>3 DEF CoverInv
  <2>6. QED
    BY <2>4, <2>5
<1>2. QED
  BY <1>1, Invariant, PTL
=============================================================================

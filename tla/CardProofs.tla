------------------------------ MODULE CardProofs ------------------------------
(***************************************************************************)
(* For any number of requests, captures, topics and cards: every card      *)
(* belongs to one lineage with one active card at most, and nothing is     *)
(* created twice by a retry.  And for any number of changes, cards and     *)
(* their history outlive what they were made from, and no row or exported  *)
(* row names one that is not there.                                        *)
(***************************************************************************)
EXTENDS CardProposals, AccountData, TLAPS, FiniteSetTheorems, SequenceTheorems, WellFoundedInduction

-----------------------------------------------------------------------------
(***************************************************************************)
(* Lineages of a table of cards                                            *)
(***************************************************************************)
\* What holds of the naturals one after the other holds of all.
LEMMA Inductively ==
  ASSUME NEW S, \A n \in Nat : (\A m \in Nat : m < n => m \in S) => n \in S
  PROVE  Nat \subseteq S
  <1> DEFINE T == {n \in Nat : n \notin S}
             R == OpToRel(<, Nat)
  <1>1. SUFFICES ASSUME T # {} PROVE FALSE
    OBVIOUS
  <1>2. IsWellFoundedOn(R, Nat) /\ T \subseteq Nat
    BY NatLessThanWellFounded
  <1>3. PICK n \in T : \A m \in T : ~ (<<m, n>> \in R)
    <2> HIDE DEF T, R
    <2> QED
      BY <1>1, <1>2, WFMin
  <1>4. \A m \in Nat : m < n => m \in S
    BY <1>3 DEF OpToRel
  <1> QED
    BY <1>3, <1>4

\* The links of a table agree, and a replacement is younger.
Linked(s) ==
    /\ Len(s) \in Nat /\ DOMAIN s = 1 .. Len(s)
    /\ \A c \in DOMAIN s : s[c].prev \in 0 .. c-1 /\ (s[c].next = 0 \/ s[c].next \in DOMAIN s)
    /\ \A c, d \in DOMAIN s : (s[c].prev = d) <=> (s[d].next = c)

Oldest(s) == CHOOSE f : f = [i \in DOMAIN s |-> IF s[i].prev = 0 THEN i ELSE f[s[i].prev]]

\* The root is found by following the links back.
LEMMA RootIsOldest ==
  ASSUME NEW c
  PROVE  Root(c) = Oldest(cards)[c]
  BY DEF Root, Oldest

\* A table has a function that does.
LEMMA OldestExists ==
  ASSUME NEW s, Linked(s)
  PROVE  \E f : f = [i \in DOMAIN s |-> IF s[i].prev = 0 THEN i ELSE f[s[i].prev]]
  <1> DEFINE Good(n, f) == f = [i \in 1..n |-> IF s[i].prev = 0 THEN i ELSE f[s[i].prev]]
             S == {n \in Nat : n > Len(s) \/ \E f : Good(n, f)}
  <1>1. ASSUME NEW n \in Nat, \A m \in Nat : m < n => m \in S PROVE n \in S
    <2>1. CASE n > Len(s)
      BY <2>1
    <2>2. CASE n = 0
      <3> DEFINE f == [i \in 1..0 |-> 0]
      <3>1. Good(0, f)
        BY 1..0 = {}
      <3> QED
        BY <2>2, <3>1
    <2>3. CASE n # 0 /\ n <= Len(s)
      <3>1. n-1 \in S /\ n-1 \in Nat /\ ~(n-1 > Len(s))
        <4>1. n-1 \in Nat /\ n-1 < n /\ ~(n-1 > Len(s))
          BY <2>3 DEF Linked
        <4> HIDE DEF S
        <4> QED
          BY <1>1, <4>1
      <3>2. PICK g : Good(n-1, g)
        BY <3>1
      <3> DEFINE f == [i \in 1..n |-> IF i = n THEN IF s[n].prev = 0 THEN n ELSE g[s[n].prev] ELSE g[i]]
      <3>3. \A i \in 1..n-1 : g[i] = IF s[i].prev = 0 THEN i ELSE g[s[i].prev]
        BY <3>2
      <3>4. \A i \in 1..n : s[i].prev = 0 \/ (s[i].prev \in 1..n-1 /\ s[i].prev < i)
        BY <2>3 DEF Linked
      <3>5. \A i \in 1..n-1 : f[i] = g[i]
        BY <2>3
      <3>6. \A i \in 1..n : s[i].prev # 0 => f[s[i].prev] = g[s[i].prev]
        BY <3>4, <3>5
      <3>7. ASSUME NEW i \in 1..n PROVE f[i] = IF s[i].prev = 0 THEN i ELSE f[s[i].prev]
        <4>1. CASE i = n
          BY <3>6, <4>1
        <4>2. CASE i # n
          <5>1. i \in 1..n-1
            BY <4>2
          <5> HIDE DEF f
          <5> QED
            BY <3>3, <3>5, <3>6, <5>1
        <4> QED
          BY <4>1, <4>2
      <3>8. f = [i \in 1..n |-> f[i]]
        OBVIOUS
      <3> HIDE DEF f
      <3>9. Good(n, f)
        BY <3>7, <3>8
      <3> QED
        BY <3>9
    <2> QED
      BY <2>1, <2>2, <2>3
  <1>2. Nat \subseteq S
    <2> HIDE DEF S
    <2> QED
      BY <1>1, Inductively
  <1>3. Len(s) \in S /\ Len(s) \in Nat /\ DOMAIN s = 1..Len(s)
    BY <1>2 DEF Linked
  <1> QED
    BY <1>3

\* The root of a card is itself, or that of the card it replaced.
LEMMA OldestIs ==
  ASSUME NEW s, Linked(s), NEW c \in DOMAIN s
  PROVE  Oldest(s)[c] = IF s[c].prev = 0 THEN c ELSE Oldest(s)[s[c].prev]
  <1> DEFINE f == Oldest(s)
  <1>1. f = [i \in DOMAIN s |-> IF s[i].prev = 0 THEN i ELSE f[s[i].prev]]
    BY OldestExists DEF Oldest
  <1> HIDE DEF f
  <1> QED
    BY <1>1 DEF f

\* It is a card that replaced none, and no younger.
LEMMA OldestRange ==
  ASSUME NEW s, Linked(s)
  PROVE  \A c \in DOMAIN s : Oldest(s)[c] \in 1..c /\ s[Oldest(s)[c]].prev = 0
  <1> DEFINE S == {c \in Nat : c \in DOMAIN s => Oldest(s)[c] \in 1..c /\ s[Oldest(s)[c]].prev = 0}
  <1>1. ASSUME NEW c \in Nat, \A m \in Nat : m < c => m \in S PROVE c \in S
    <2>1. CASE c \notin DOMAIN s
      BY <2>1
    <2>2. CASE c \in DOMAIN s /\ s[c].prev = 0
      <3>1. Oldest(s)[c] = c
        BY <2>2, OldestIs
      <3>2. c \in 1..c
        BY <2>2 DEF Linked
      <3> QED
        BY <2>2, <3>1, <3>2
    <2>3. CASE c \in DOMAIN s /\ s[c].prev # 0
      <3>1. s[c].prev \in DOMAIN s /\ s[c].prev < c /\ s[c].prev \in Nat
        BY <2>3 DEF Linked
      <3>2. Oldest(s)[c] = Oldest(s)[s[c].prev]
        BY <2>3, OldestIs
      <3>3. s[c].prev \in S
        BY <1>1, <3>1
      <3> QED
        BY <3>1, <3>2, <3>3
    <2> QED
      BY <2>1, <2>2, <2>3
  <1>2. Nat \subseteq S
    <2> HIDE DEF S
    <2> QED
      BY <1>1, Inductively
  <1> QED
    BY <1>2 DEF Linked

\* Tables that have the same back links have the same roots.
LEMMA OldestStays ==
  ASSUME NEW s, NEW t, Linked(s), Linked(t), DOMAIN s \subseteq DOMAIN t,
         \A c \in DOMAIN s : t[c].prev = s[c].prev
  PROVE  \A c \in DOMAIN s : Oldest(t)[c] = Oldest(s)[c]
  <1> DEFINE S == {c \in Nat : c \in DOMAIN s => Oldest(t)[c] = Oldest(s)[c]}
  <1>1. ASSUME NEW c \in Nat, \A m \in Nat : m < c => m \in S PROVE c \in S
    <2>1. CASE c \in DOMAIN s /\ s[c].prev # 0
      <3>1. s[c].prev \in DOMAIN s /\ s[c].prev < c /\ s[c].prev \in Nat
        BY <2>1 DEF Linked
      <3> QED
        BY <1>1, <2>1, <3>1, OldestIs
    <2>2. CASE c \in DOMAIN s /\ s[c].prev = 0
      BY <2>2, OldestIs
    <2> QED
      BY <2>1, <2>2
  <1>2. Nat \subseteq S
    <2> HIDE DEF S
    <2> QED
      BY <1>1, Inductively
  <1> QED
    BY <1>2 DEF Linked

\* A lineage is a chain: an older card of it has a successor that is not younger.
LEMMA Chain ==
  ASSUME NEW s, Linked(s)
  PROVE  \A c, x \in DOMAIN s : x < c /\ Oldest(s)[x] = Oldest(s)[c] =>
            s[x].next \in DOMAIN s /\ x < s[x].next /\ s[x].next <= c
  <1> DEFINE S == {c \in Nat : c \in DOMAIN s => \A x \in DOMAIN s :
                      x < c /\ Oldest(s)[x] = Oldest(s)[c] =>
                         s[x].next \in DOMAIN s /\ x < s[x].next /\ s[x].next <= c}
  <1>1. ASSUME NEW c \in Nat, \A m \in Nat : m < c => m \in S PROVE c \in S
    <2> SUFFICES ASSUME c \in DOMAIN s, NEW x \in DOMAIN s, x < c, Oldest(s)[x] = Oldest(s)[c]
                 PROVE  s[x].next \in DOMAIN s /\ x < s[x].next /\ s[x].next <= c
      OBVIOUS
    <2> DEFINE p == s[c].prev
    <2>1. x \in Nat /\ p \in Nat /\ p < c
      BY DEF Linked
    <2>2. p # 0
      <3>1. Oldest(s)[x] <= x /\ Oldest(s)[x] \in Nat
        BY <2>1, OldestRange
      <3> QED
        BY <2>1, <3>1, OldestIs
    <2>3. p \in DOMAIN s /\ s[p].next = c /\ Oldest(s)[p] = Oldest(s)[c]
      <3>1. p \in DOMAIN s /\ s[p].next = c
        BY <2>1, <2>2 DEF Linked
      <3> QED
        BY <2>2, <3>1, OldestIs
    <2>4. CASE x = p
      BY <2>1, <2>3, <2>4
    <2>5. CASE x < p
      <3>1. p \in S
        BY <1>1, <2>1
      <3>2. s[x].next \in DOMAIN s /\ x < s[x].next /\ s[x].next <= p
        BY <2>3, <2>5, <3>1
      <3>3. s[x].next \in Nat
        BY <3>2 DEF Linked
      <3> QED
        BY <2>1, <3>2, <3>3
    <2>6. CASE p < x
      <3>1. x \in S
        BY <1>1, <2>1
      <3>2. s[p].next <= x
        BY <2>3, <2>6, <3>1
      <3> QED
        BY <2>1, <2>3, <3>2
    <2> QED
      BY <2>1, <2>4, <2>5, <2>6
  <1>2. Nat \subseteq S
    <2> HIDE DEF S
    <2> QED
      BY <1>1, Inductively
  <1> QED
    BY <1>2 DEF Linked

JoinedIn(s, c, d) == d \in {s[c].prev, s[c].next} \/ c \in {s[d].prev, s[d].next}

\* One step further than a function of steps are the neighbours.
Further(s, c, f) ==
    [n \in 0..Len(s) |->
        IF n = 0 THEN {c} ELSE f[n-1] \cup {d \in DOMAIN s : \E e \in f[n-1] : JoinedIn(s, d, e)}]

Within(s, c) == CHOOSE f : f = Further(s, c, f)

\* The component of a card is what can be reached from it over links.
LEMMA ComponentIsWithin ==
  ASSUME NEW c
  PROVE  Component(c) = Within(cards, c)[Len(cards)]
  BY DEF Component, Within, Further, Joined, JoinedIn

\* A table has a function of what is reached in so many steps.
LEMMA WithinExists ==
  ASSUME NEW s, Linked(s), NEW c
  PROVE  \E f : f = Further(s, c, f)
  <1> DEFINE More(R) == R \cup {d \in DOMAIN s : \E e \in R : JoinedIn(s, d, e)}
             Good(m, f) == f = [n \in 0..m |-> IF n = 0 THEN {c} ELSE More(f[n-1])]
             S == {m \in Nat : \E f : Good(m, f)}
  <1>1. ASSUME NEW n \in Nat, \A m \in Nat : m < n => m \in S PROVE n \in S
    <2>1. CASE n = 0
      <3> DEFINE f == [m \in 0..0 |-> {c}]
      <3>1. Good(0, f)
        <4> HIDE DEF More
        <4> QED
          OBVIOUS
      <3> QED
        BY <2>1, <3>1
    <2>2. CASE n # 0
      <3>1. n-1 \in S
        <4>1. n-1 \in Nat /\ n-1 < n
          BY <2>2
        <4> HIDE DEF S
        <4> QED
          BY <1>1, <4>1
      <3>2. PICK g : Good(n-1, g)
        BY <3>1
      <3> DEFINE f == [i \in 0..n |-> IF i = n THEN More(g[n-1]) ELSE g[i]]
      <3>3. \A i \in 0..n-1 : g[i] = IF i = 0 THEN {c} ELSE More(g[i-1])
        <4> HIDE DEF More
        <4> QED
          BY <3>2
      <3> HIDE DEF More
      <3>4. \A i \in 0..n-1 : f[i] = g[i]
        BY <2>2
      <3>5. f[n] = More(g[n-1]) /\ n-1 \in 0..n-1
        BY <2>2
      <3>6. ASSUME NEW i \in 0..n PROVE f[i] = IF i = 0 THEN {c} ELSE More(f[i-1])
        <4>1. CASE i = n
          BY <2>2, <3>4, <3>5, <4>1
        <4>2. CASE i # n
          <5>1. i \in 0..n-1 /\ (i # 0 => i-1 \in 0..n-1)
            BY <4>2
          <5> HIDE DEF f
          <5> QED
            BY <3>3, <3>4, <5>1
        <4> QED
          BY <4>1, <4>2
      <3>7. f = [i \in 0..n |-> f[i]]
        OBVIOUS
      <3> HIDE DEF f
      <3>8. Good(n, f)
        BY <3>6, <3>7
      <3> QED
        BY <3>8
    <2> QED
      BY <2>1, <2>2
  <1>2. Nat \subseteq S
    <2> HIDE DEF S
    <2> QED
      BY <1>1, Inductively
  <1>3. PICK f : Good(Len(s), f)
    BY <1>2 DEF Linked
  <1> QED
    BY <1>3 DEF Further

\* One step further are the neighbours.
LEMMA WithinIs ==
  ASSUME NEW s, Linked(s), NEW c
  PROVE  /\ Within(s, c)[0] = {c}
         /\ \A n \in 1..Len(s) : Within(s, c)[n] =
               Within(s, c)[n-1] \cup {d \in DOMAIN s : \E e \in Within(s, c)[n-1] : JoinedIn(s, d, e)}
  <1> DEFINE f == Within(s, c)
  <1>0. f = Further(s, c, f)
    BY WithinExists DEF Within
  <1>1. f = [n \in 0..Len(s) |->
            IF n = 0 THEN {c} ELSE f[n-1] \cup {d \in DOMAIN s : \E e \in f[n-1] : JoinedIn(s, d, e)}]
    <2> HIDE DEF f
    <2> QED
      BY <1>0 DEF Further
  <1>2. Len(s) \in Nat
    BY DEF Linked
  <1> HIDE DEF f
  <1>3. 0 \in 0..Len(s) /\ \A n \in 1..Len(s) : n \in 0..Len(s) /\ n # 0
    BY <1>2
  <1>4. f[0] = {c}
    BY <1>1, <1>3
  <1>5. ASSUME NEW n \in 1..Len(s)
        PROVE  f[n] = f[n-1] \cup {d \in DOMAIN s : \E e \in f[n-1] : JoinedIn(s, d, e)}
    BY <1>1, <1>3
  <1> QED
    BY <1>4, <1>5 DEF f

\* More steps reach no less.
LEMMA WithinGrows ==
  ASSUME NEW s, Linked(s), NEW c, NEW m \in 0..Len(s)
  PROVE  \A n \in 0..Len(s) : m <= n => Within(s, c)[m] \subseteq Within(s, c)[n]
  <1> DEFINE S == {n \in Nat : n \in m..Len(s) => Within(s, c)[m] \subseteq Within(s, c)[n]}
  <1>1. ASSUME NEW n \in Nat, \A k \in Nat : k < n => k \in S PROVE n \in S
    <2>1. CASE n <= m
      BY <2>1
    <2>2. CASE n > m
      <3>1. n-1 \in Nat /\ n-1 < n /\ n-1 >= m
        BY <2>2
      <3>2. n-1 \in S
        <4> HIDE DEF S
        <4> QED
          BY <1>1, <3>1
      <3>3. n \in 1..Len(s) => Within(s, c)[n-1] \subseteq Within(s, c)[n]
        BY WithinIs
      <3> QED
        BY <3>1, <3>2, <3>3
    <2> QED
      BY <2>1, <2>2
  <1>2. Nat \subseteq S
    <2> HIDE DEF S
    <2> QED
      BY <1>1, Inductively
  <1> QED
    BY <1>2

\* Links stay within a lineage.
LEMMA JoinedRoots ==
  ASSUME NEW s, Linked(s), NEW d \in DOMAIN s, NEW e \in DOMAIN s, JoinedIn(s, d, e)
  PROVE  Oldest(s)[d] = Oldest(s)[e]
  <1>1. d # 0 /\ e # 0
    BY DEF Linked
  <1>2. CASE s[d].prev = e
    BY <1>1, <1>2, OldestIs
  <1>3. CASE s[e].prev = d
    BY <1>1, <1>3, OldestIs
  <1>4. s[d].prev = e \/ s[e].prev = d
    BY DEF JoinedIn, Linked
  <1> QED
    BY <1>2, <1>3, <1>4

\* What is reached from a card is of its lineage.
LEMMA WithinLineage ==
  ASSUME NEW s, Linked(s), NEW c \in DOMAIN s
  PROVE  \A n \in 0..Len(s) : \A d \in Within(s, c)[n] : d \in DOMAIN s /\ Oldest(s)[d] = Oldest(s)[c]
  <1> DEFINE S == {n \in Nat : n \in 0..Len(s) =>
                      \A d \in Within(s, c)[n] : d \in DOMAIN s /\ Oldest(s)[d] = Oldest(s)[c]}
  <1>1. ASSUME NEW n \in Nat, \A k \in Nat : k < n => k \in S PROVE n \in S
    <2>1. CASE n = 0
      BY <2>1, WithinIs
    <2>2. CASE n # 0
      <3> SUFFICES ASSUME n \in 1..Len(s), NEW d \in Within(s, c)[n]
                   PROVE  d \in DOMAIN s /\ Oldest(s)[d] = Oldest(s)[c]
        BY <2>2
      <3>1. n-1 \in Nat /\ n-1 < n /\ n-1 \in 0..Len(s)
        BY <2>2
      <3>2. n-1 \in S
        <4> HIDE DEF S
        <4> QED
          BY <1>1, <3>1
      <3>3. \/ d \in Within(s, c)[n-1]
            \/ d \in DOMAIN s /\ \E e \in Within(s, c)[n-1] : JoinedIn(s, d, e)
        BY WithinIs
      <3> QED
        BY <3>1, <3>2, <3>3, JoinedRoots
    <2> QED
      BY <2>1, <2>2
  <1>2. Nat \subseteq S
    <2> HIDE DEF S
    <2> QED
      BY <1>1, Inductively
  <1> QED
    BY <1>2

\* Every older card of the lineage is reached, each step to the one it replaced.
LEMMA ReachesOlder ==
  ASSUME NEW s, Linked(s), NEW c \in DOMAIN s
  PROVE  \A x \in DOMAIN s : x <= c /\ Oldest(s)[x] = Oldest(s)[c] => x \in Within(s, c)[c - x]
  <1> DEFINE S == {k \in Nat : \A x \in DOMAIN s :
                      x <= c /\ Oldest(s)[x] = Oldest(s)[c] /\ k = c - x => x \in Within(s, c)[k]}
  <1>1. ASSUME NEW k \in Nat, \A m \in Nat : m < k => m \in S PROVE k \in S
    <2> SUFFICES ASSUME NEW x \in DOMAIN s, x <= c, Oldest(s)[x] = Oldest(s)[c], k = c - x
                 PROVE  x \in Within(s, c)[k]
      OBVIOUS
    <2>1. x \in Nat /\ c \in Nat /\ x >= 1 /\ c <= Len(s) /\ Len(s) \in Nat
      BY DEF Linked
    <2>2. CASE x = c
      BY <2>1, <2>2, WithinIs
    <2>3. CASE x # c
      <3> DEFINE y == s[x].next
      <3>1. y \in DOMAIN s /\ x < y /\ y <= c
        BY <2>1, <2>3, Chain
      <3>2. y \in Nat /\ s[y].prev = x
        BY <3>1 DEF Linked
      <3>3. Oldest(s)[y] = Oldest(s)[x]
        BY <2>1, <3>1, <3>2, OldestIs
      <3> HIDE DEF y
      <3>4. c - y \in Nat /\ c - y < k /\ c - y <= k - 1 /\ k \in 1..Len(s) /\ k - 1 \in 0..Len(s)
            /\ c - y \in 0..Len(s)
        BY <2>1, <2>3, <3>1, <3>2
      <3>5. c - y \in S
        <4> HIDE DEF S
        <4> QED
          BY <1>1, <3>4
      <3>6. y \in Within(s, c)[c - y]
        BY <3>1, <3>3, <3>5
      <3>7. y \in Within(s, c)[k - 1]
        BY <3>4, <3>6, WithinGrows
      <3>8. JoinedIn(s, x, y)
        BY <3>2 DEF JoinedIn
      <3> QED
        BY <3>4, <3>7, <3>8, WithinIs
    <2> QED
      BY <2>2, <2>3
  <1>2. Nat \subseteq S
    <2> HIDE DEF S
    <2> QED
      BY <1>1, Inductively
  <1>3. ASSUME NEW x \in DOMAIN s, x <= c, Oldest(s)[x] = Oldest(s)[c] PROVE x \in Within(s, c)[c - x]
    <2>1. c - x \in Nat
      BY <1>3 DEF Linked
    <2> QED
      BY <1>2, <1>3, <2>1
  <1> QED
    BY <1>3

\* Every younger card of the lineage is reached, each step to its replacement.
LEMMA ReachesYounger ==
  ASSUME NEW s, Linked(s), NEW c \in DOMAIN s
  PROVE  \A x \in DOMAIN s : c <= x /\ Oldest(s)[x] = Oldest(s)[c] => x \in Within(s, c)[x - c]
  <1> DEFINE S == {k \in Nat : \A x \in DOMAIN s :
                      c <= x /\ Oldest(s)[x] = Oldest(s)[c] /\ k = x - c => x \in Within(s, c)[k]}
  <1>1. ASSUME NEW k \in Nat, \A m \in Nat : m < k => m \in S PROVE k \in S
    <2> SUFFICES ASSUME NEW x \in DOMAIN s, c <= x, Oldest(s)[x] = Oldest(s)[c], k = x - c
                 PROVE  x \in Within(s, c)[k]
      OBVIOUS
    <2>1. x \in Nat /\ c \in Nat /\ c >= 1 /\ x <= Len(s) /\ Len(s) \in Nat
      BY DEF Linked
    <2>2. CASE x = c
      BY <2>1, <2>2, WithinIs
    <2>3. CASE x # c
      <3> DEFINE y == s[x].prev
      <3>1. y \in Nat /\ y < x
        BY <2>1 DEF Linked
      <3>2. y # 0
        <4>1. Oldest(s)[c] <= c /\ Oldest(s)[c] \in Nat
          BY <2>1, OldestRange
        <4> QED
          BY <2>1, <2>3, <4>1, OldestIs
      <3>3. y \in DOMAIN s /\ s[y].next = x /\ Oldest(s)[y] = Oldest(s)[x]
        <4>1. y \in DOMAIN s /\ s[y].next = x
          BY <3>1, <3>2 DEF Linked
        <4> QED
          BY <3>2, <4>1, OldestIs
      <3> HIDE DEF y
      <3>4. y >= c
        <4>1. ASSUME y < c PROVE FALSE
          <5>1. s[y].next <= c
            BY <3>3, <4>1, Chain
          <5> QED
            BY <2>1, <2>3, <3>3, <5>1
        <4> QED
          BY <2>1, <3>1, <4>1
      <3>5. y - c \in Nat /\ y - c < k /\ y - c <= k - 1 /\ k \in 1..Len(s) /\ k - 1 \in 0..Len(s)
            /\ y - c \in 0..Len(s)
        BY <2>1, <2>3, <3>1, <3>4
      <3>6. y - c \in S
        <4> HIDE DEF S
        <4> QED
          BY <1>1, <3>5
      <3>7. y \in Within(s, c)[y - c]
        BY <3>3, <3>4, <3>6
      <3>8. y \in Within(s, c)[k - 1]
        BY <3>5, <3>7, WithinGrows
      <3>9. JoinedIn(s, x, y)
        BY <3>3 DEF JoinedIn
      <3> QED
        BY <3>5, <3>8, <3>9, WithinIs
    <2> QED
      BY <2>2, <2>3
  <1>2. Nat \subseteq S
    <2> HIDE DEF S
    <2> QED
      BY <1>1, Inductively
  <1>3. ASSUME NEW x \in DOMAIN s, c <= x, Oldest(s)[x] = Oldest(s)[c] PROVE x \in Within(s, c)[x - c]
    <2>1. x - c \in Nat
      BY <1>3 DEF Linked
    <2> QED
      BY <1>2, <1>3, <2>1
  <1> QED
    BY <1>3

\* The component of a card is its lineage: the cards that have its root.
LEMMA ComponentIs ==
  ASSUME Linked(cards), NEW c \in DOMAIN cards
  PROVE  Component(c) = {d \in DOMAIN cards : Root(d) = Root(c)}
  <1>1. c \in Nat /\ c >= 1 /\ c <= Len(cards) /\ Len(cards) \in Nat /\ DOMAIN cards = 1..Len(cards)
    BY DEF Linked
  <1>2. ASSUME NEW d \in Component(c) PROVE d \in DOMAIN cards /\ Root(d) = Root(c)
    BY <1>1, <1>2, ComponentIsWithin, WithinLineage, RootIsOldest
  <1>3. ASSUME NEW d \in DOMAIN cards, Root(d) = Root(c) PROVE d \in Component(c)
    <2>1. PICK k \in 0..Len(cards) : d \in Within(cards, c)[k]
      <3>1. Oldest(cards)[d] = Oldest(cards)[c]
        BY <1>3, RootIsOldest
      <3>2. CASE d <= c
        <4>1. c - d \in 0..Len(cards)
          BY <1>1, <3>2
        <4> QED
          BY <3>1, <3>2, <4>1, ReachesOlder
      <3>3. CASE c <= d
        <4>1. d - c \in 0..Len(cards)
          BY <1>1, <3>3
        <4> QED
          BY <3>1, <3>3, <4>1, ReachesYounger
      <3> QED
        BY <1>1, <3>2, <3>3
    <2>2. Len(cards) \in 0..Len(cards) /\ k <= Len(cards)
      BY <1>1
    <2> QED
      BY <2>1, <2>2, WithinGrows, ComponentIsWithin
  <1> QED
    BY <1>2, <1>3

-----------------------------------------------------------------------------
(***************************************************************************)
(* The inductive invariant                                                 *)
(***************************************************************************)
Origins == ({"replace"} \X Nat) \cup ({"capture"} \X Captures) \cup ({"proposal"} \X Keys \X (1..MaxSuggested))

CardRecords == [topic : Topics, active : BOOLEAN, prev : Nat, next : Nat, origin : Origins]

\* The rows, and the requests that read them.
Rows ==
    /\ cards \in Seq(CardRecords) /\ Linked(cards)
    /\ captures \in [Captures -> CaptureRows \cup {Missing, Gone}]
    /\ debrief \in Debriefs \cup {Missing}
    /\ proposals = [p \in DOMAIN proposals |-> proposals[p]] /\ DOMAIN proposals \subseteq 1..MaxSuggested
    /\ acceptances \in [Keys -> Selected \cup {Missing}]
    /\ DOMAIN outcomes = Keys
    /\ DOMAIN txn = Transactions

\* One card of a lineage is active at most, and an answer is about an active one.
ActiveOnce ==
    /\ \A c, d \in DOMAIN cards : cards[c].active /\ cards[d].active /\ Root(c) = Root(d) => c = d
    /\ \A c \in answering : c \in DOMAIN cards /\ cards[c].active

Lineage(root) == {d \in DOMAIN cards : Root(d) = root}

HoldsLineage(r) == Doing(r, "rooted") \/ Doing(r, "locked")

\* A request that has the lock of a root knows the lineage, and has it for itself.
LineageWorkOf(r) ==
    /\ Doing(r, "chosen") \/ HoldsLineage(r) =>
         txn[r].kind \in LineageKinds /\ txn[r].card \in DOMAIN cards /\ txn[r].root = Root(txn[r].card)
    /\ HoldsLineage(r) => txn[r].members = Lineage(txn[r].root)
    /\ Doing(r, "locked") => ~Refused(txn[r].kind, txn[r].card, txn[r].members)

LineageWork == \A r \in Transactions : LineageWorkOf(r)

OneHolder ==
    \A r, q \in Transactions : HoldsLineage(r) /\ HoldsLineage(q) /\ txn[r].root = txn[q].root => r = q

\* The topic lock has one holder, and what it has seen stays so.
TopicWorkOf(r) ==
    /\ Doing(r, "activate") => txn[r].topic \in Topics /\ ~Taken(txn[r].topic)
    /\ Doing(r, "accept") => Stops(txn[r].topics) = {} /\ acceptances[txn[r].key] = Missing

TopicWork ==
    /\ \A r, q \in Transactions : HoldsTopics(r) /\ HoldsTopics(q) => r = q
    /\ \A r \in Transactions : TopicWorkOf(r)

\* A capture that is being activated belongs to one request and has no card.
Activating(r) == Doing(r, "activating") \/ Doing(r, "activate")

CaptureWorkOf(r) ==
    /\ Doing(r, "edit") \/ Doing(r, "question") =>
          /\ txn[r].capture \in Captures /\ txn[r].loaded \in CaptureRows /\ txn[r].new \in CaptureRows
          /\ txn[r].new.card = txn[r].loaded.card
    /\ Doing(r, "discard") => txn[r].capture \in Captures
    /\ Activating(r) => txn[r].capture \in Captures /\ HasRow(txn[r].capture)
    /\ Doing(r, "activate") => captures[txn[r].capture].card = 0

CaptureWork ==
    /\ \A r, q \in Transactions : Activating(r) /\ Activating(q) /\ txn[r].capture = txn[q].capture => r = q
    /\ \A r \in Transactions : CaptureWorkOf(r)

UsedUp(k) == captures[k] = Gone \/ (captures[k] # Missing /\ captures[k].card # 0)

\* What a card was made of has been used up.
OriginsOnce ==
    /\ \A c, d \in DOMAIN cards : cards[c].origin = cards[d].origin => c = d
    /\ \A c \in DOMAIN cards, k \in Captures : cards[c].origin = <<"capture", k>> => UsedUp(k)
    /\ \A c \in DOMAIN cards, key \in Keys, p \in 1..MaxSuggested :
          cards[c].origin = <<"proposal", key, p>> => acceptances[key] # Missing
    /\ \A c \in DOMAIN cards, d \in Nat : cards[c].origin = <<"replace", d>> =>
          d \in DOMAIN cards /\ cards[d].next # 0

\* The item is proposed for by the request that has the account row.
ItemWorkOf(r) ==
    Doing(r, "accepting") \/ Doing(r, "accept") => txn[r].key \in Keys /\ txn[r].topics \in Selected

ItemWork ==
    /\ \A r, q \in Transactions : Doing(r, "proposing") /\ Doing(q, "proposing") => r = q
    /\ \A r \in Transactions : Doing(r, "proposing") => proposals = << >>
    /\ \A r \in Transactions : ItemWorkOf(r)
    /\ \A p \in DOMAIN proposals : proposals[p].batch = 0
    /\ \A key \in Keys : acceptances[key] # Missing => outcomes[key] = "committed"

DebriefWork ==
    /\ \A r \in Transactions : Doing(r, "save") \/ Doing(r, "submit") => txn[r].text \in Texts
    /\ DebriefStands

LineageInv == ActiveOnce /\ LineageWork /\ OneHolder

TopicInv == TopicsAreUnique /\ TopicWork

CardsInv == Rows /\ LineageInv /\ TopicInv /\ CaptureWork /\ OriginsOnce /\ ItemWork /\ DebriefWork

-----------------------------------------------------------------------------
(***************************************************************************)
(* Steps of the table of cards                                             *)
(***************************************************************************)
\* The roots are found in the table of the next state in the same way.
LEMMA RootNext ==
  ASSUME NEW c
  PROVE  Root(c)' = Oldest(cards')[c]
  BY DEF Root, Oldest

\* No card changes what it is about, where it comes from, or its lineage.
Succeeds ==
    /\ cards' \in Seq(CardRecords) /\ Linked(cards')
    /\ \A c \in DOMAIN cards : /\ c \in DOMAIN cards' /\ Root(c)' = Root(c)
                               /\ cards'[c].topic = cards[c].topic
                               /\ cards'[c].origin = cards[c].origin

\* A lineage is left alone.
Stays(root) == Lineage(root)' = Lineage(root) /\ \A d \in Lineage(root) : cards'[d] = cards[d]

\* The columns of a row.
LEMMA Columns ==
  ASSUME NEW s \in Seq(CardRecords)
  PROVE  /\ Len(s) \in Nat /\ DOMAIN s = 1..Len(s)
         /\ \A c \in DOMAIN s : /\ s[c] \in CardRecords
                                /\ s[c].topic \in Topics /\ s[c].active \in BOOLEAN
                                /\ s[c].prev \in Nat /\ s[c].next \in Nat /\ s[c].origin \in Origins
  <1>1. Len(s) \in Nat /\ DOMAIN s = 1..Len(s)
    OBVIOUS
  <1>2. \A c \in DOMAIN s : s[c] \in CardRecords
    OBVIOUS
  <1> QED
    BY <1>1, <1>2 DEF CardRecords

\* Tables of the same links have the same roots.
LEMMA RootsStay ==
  ASSUME Linked(cards), Linked(cards'), DOMAIN cards \subseteq DOMAIN cards',
         \A c \in DOMAIN cards : cards'[c].prev = cards[c].prev
  PROVE  \A c \in DOMAIN cards : Root(c)' = Root(c)
  BY OldestStays, RootIsOldest, RootNext

\* Cards that replace none begin lineages of their own.
LEMMA Added ==
  ASSUME cards \in Seq(CardRecords), Linked(cards), cards' \in Seq(CardRecords),
         \A c \in DOMAIN cards : c \in DOMAIN cards' /\ cards'[c] = cards[c],
         \A d \in DOMAIN cards' \ DOMAIN cards : cards'[d].prev = 0 /\ cards'[d].next = 0
  PROVE  /\ Succeeds
         /\ \A root \in DOMAIN cards : Stays(root)
         /\ \A d \in DOMAIN cards' \ DOMAIN cards : Root(d)' = d
  <1>1. /\ Len(cards) \in Nat /\ DOMAIN cards = 1..Len(cards)
        /\ Len(cards') \in Nat /\ DOMAIN cards' = 1..Len(cards')
    BY Columns
  <1>2. Linked(cards')
    <2>1. ASSUME NEW c \in DOMAIN cards'
          PROVE  cards'[c].prev \in 0 .. c-1 /\ (cards'[c].next = 0 \/ cards'[c].next \in DOMAIN cards')
      BY <1>1, <2>1 DEF Linked
    <2>2. ASSUME NEW c \in DOMAIN cards', NEW d \in DOMAIN cards'
          PROVE  (cards'[c].prev = d) <=> (cards'[d].next = c)
      <3>1. c # 0 /\ d # 0
        BY <1>1
      <3>2. CASE c \in DOMAIN cards /\ d \in DOMAIN cards
        BY <3>2 DEF Linked
      <3>3. CASE c \in DOMAIN cards /\ d \notin DOMAIN cards
        <4>1. cards'[c].prev # d
          <5>1. cards[c].prev \in 0 .. c-1 /\ c <= Len(cards) /\ ~(d <= Len(cards))
            BY <1>1, <3>3 DEF Linked
          <5> QED
            BY <1>1, <3>3, <5>1
        <4> QED
          BY <3>1, <3>3, <4>1
      <3>4. CASE c \notin DOMAIN cards /\ d \in DOMAIN cards
        BY <3>1, <3>4 DEF Linked
      <3>5. CASE c \notin DOMAIN cards /\ d \notin DOMAIN cards
        BY <3>1, <3>5
      <3> QED
        BY <3>2, <3>3, <3>4, <3>5
    <2> QED
      BY <1>1, <2>1, <2>2 DEF Linked
  <1>3. \A c \in DOMAIN cards : Root(c)' = Root(c)
    BY <1>2, RootsStay
  <1>4. \A d \in DOMAIN cards' \ DOMAIN cards : Root(d)' = d
    BY <1>2, RootNext, OldestIs
  <1>5. ASSUME NEW root \in DOMAIN cards PROVE Stays(root)
    BY <1>3, <1>4 DEF Stays, Lineage
  <1> QED
    BY <1>2, <1>3, <1>4, <1>5 DEF Succeeds

\* An archive or a restore changes one card and no link.
LEMMA Toggled ==
  ASSUME cards \in Seq(CardRecords), Linked(cards), NEW c \in DOMAIN cards, NEW active \in BOOLEAN,
         cards' = [cards EXCEPT ![c].active = active]
  PROVE  /\ Succeeds /\ DOMAIN cards' = DOMAIN cards
         /\ cards'[c].active = active
         /\ \A d \in DOMAIN cards : /\ d # c => cards'[d] = cards[d]
                                    /\ cards'[d].next = cards[d].next
  <1>1. /\ Len(cards) \in Nat /\ DOMAIN cards = 1..Len(cards)
    BY Columns
  <1>2. /\ DOMAIN cards' = DOMAIN cards
        /\ cards'[c] = [cards[c] EXCEPT !.active = active]
        /\ \A d \in DOMAIN cards : d # c => cards'[d] = cards[d]
    BY <1>1
  <1>3. /\ cards'[c] \in CardRecords /\ cards'[c].active = active
        /\ cards'[c].topic = cards[c].topic /\ cards'[c].origin = cards[c].origin
        /\ cards'[c].prev = cards[c].prev /\ cards'[c].next = cards[c].next
    <2>1. cards[c] \in CardRecords
      BY Columns
    <2> QED
      BY <1>2, <2>1 DEF CardRecords
  <1>4. cards' \in Seq(CardRecords) /\ Len(cards') = Len(cards)
    BY <1>2, <1>3
  <1>5. \A d \in DOMAIN cards : /\ cards'[d].topic = cards[d].topic /\ cards'[d].origin = cards[d].origin
                                /\ cards'[d].prev = cards[d].prev /\ cards'[d].next = cards[d].next
    BY <1>2, <1>3
  <1>6. Linked(cards')
    BY <1>2, <1>4, <1>5 DEF Linked
  <1>7. \A d \in DOMAIN cards : Root(d)' = Root(d)
    BY <1>2, <1>5, <1>6, RootsStay
  <1> QED
    BY <1>2, <1>3, <1>4, <1>5, <1>6, <1>7 DEF Succeeds

\* A replacement is the youngest of its lineage.
LEMMA ReplacedIs ==
  ASSUME cards \in Seq(CardRecords), Linked(cards), NEW c \in DOMAIN cards, cards[c].next = 0,
         cards' = Replaced(c), NEW n, n = Len(cards) + 1
  PROVE  /\ Succeeds /\ DOMAIN cards' = DOMAIN cards \cup {n} /\ n \notin DOMAIN cards
         /\ cards'[n] = NewCard(cards[c].topic, c, <<"replace", c>>)
         /\ Root(n)' = Root(c)
         /\ ~cards'[c].active /\ cards'[c].next # 0
         /\ \A d \in DOMAIN cards : d # c => cards'[d] = cards[d]
  <1> DEFINE new == NewCard(cards[c].topic, c, <<"replace", c>>)
             old == [cards EXCEPT ![c].active = FALSE, ![c].next = n]
  <1>1. /\ Len(cards) \in Nat /\ DOMAIN cards = 1..Len(cards) /\ n \in Nat /\ n # 0 /\ c \in Nat
    BY Columns
  <1>2. /\ DOMAIN old = DOMAIN cards
        /\ old[c] = [cards[c] EXCEPT !.active = FALSE, !.next = n]
        /\ \A d \in DOMAIN cards : d # c => old[d] = cards[d]
    BY <1>1
  <1>3. /\ old[c] \in CardRecords /\ ~old[c].active
        /\ old[c].topic = cards[c].topic /\ old[c].origin = cards[c].origin
        /\ old[c].prev = cards[c].prev /\ old[c].next = n
    <2>1. cards[c] \in CardRecords
      BY Columns
    <2> HIDE DEF old
    <2> QED
      BY <1>1, <1>2, <2>1 DEF CardRecords
  <1>4. old \in Seq(CardRecords) /\ Len(old) = Len(cards)
    <2>1. old = [cards EXCEPT ![c] = old[c]]
      BY <1>1, <1>2
    <2> HIDE DEF old
    <2> QED
      BY <1>1, <1>3, <2>1, ExceptSeq
  <1>5. new \in CardRecords /\ new.prev = c /\ new.next = 0 /\ new.topic = cards[c].topic
    <2>1. cards[c].topic \in Topics /\ <<"replace", c>> \in Origins
      BY <1>1, Columns DEF Origins
    <2> QED
      BY <1>1, <2>1 DEF NewCard, CardRecords
  <1>6. cards' = Append(old, new)
    BY DEF Replaced
  <1> HIDE DEF new, old
  <1>7. /\ cards' \in Seq(CardRecords) /\ Len(cards') = n /\ DOMAIN cards' = 1..n
        /\ cards'[n] = new /\ \A d \in DOMAIN cards : cards'[d] = old[d]
    BY <1>1, <1>4, <1>5, <1>6
  <1>8. /\ DOMAIN cards' = DOMAIN cards \cup {n} /\ n \notin DOMAIN cards
        /\ \A d \in DOMAIN cards : d # c => cards'[d] = cards[d]
        /\ \A d \in DOMAIN cards : /\ cards'[d].topic = cards[d].topic
                                   /\ cards'[d].origin = cards[d].origin
                                   /\ cards'[d].prev = cards[d].prev
    <2>1. DOMAIN cards' = DOMAIN cards \cup {n} /\ n \notin DOMAIN cards
      BY <1>1, <1>7
    <2>2. \A d \in DOMAIN cards : d # c => cards'[d] = cards[d]
      BY <1>2, <1>7
    <2>3. cards'[c] = old[c]
      BY <1>7
    <2> QED
      BY <1>3, <2>1, <2>2, <2>3
  <1>9. cards'[c].next = n /\ ~cards'[c].active
    BY <1>3, <1>7
  <1>10. Linked(cards')
    <2>1. ASSUME NEW d \in DOMAIN cards'
          PROVE  cards'[d].prev \in 0 .. d-1 /\ (cards'[d].next = 0 \/ cards'[d].next \in DOMAIN cards')
      <3>1. CASE d = n
        <4>1. c \in 0 .. n-1
          BY <1>1
        <4> QED
          BY <1>5, <1>7, <3>1, <4>1
      <3>2. CASE d \in DOMAIN cards /\ d # c
        BY <1>8, <3>2 DEF Linked
      <3>3. CASE d = c
        BY <1>8, <1>9, <3>3 DEF Linked
      <3> QED
        BY <1>8, <3>1, <3>2, <3>3
    <2>2. ASSUME NEW d \in DOMAIN cards', NEW e \in DOMAIN cards'
          PROVE  (cards'[d].prev = e) <=> (cards'[e].next = d)
      <3>0. \A f \in DOMAIN cards : cards[f].prev # n /\ cards[f].next # n
        BY <1>1, <1>8 DEF Linked
      <3>1. CASE d = n /\ e = n
        BY <1>1, <1>5, <1>7, <1>8, <3>1
      <3>2. CASE d = n /\ e = c
        BY <1>5, <1>7, <1>9, <3>2
      <3>3. CASE d = n /\ e # n /\ e # c
        <4>1. e \in DOMAIN cards
          BY <1>8, <3>3
        <4> QED
          BY <1>5, <1>7, <1>8, <3>0, <3>3, <4>1
      <3>4. CASE d # n /\ e = n
        <4>1. d \in DOMAIN cards /\ d # 0
          BY <1>1, <1>8, <3>4
        <4> QED
          BY <1>5, <1>7, <1>8, <3>0, <3>4, <4>1
      <3>5. CASE d # n /\ e = c
        <4>1. d \in DOMAIN cards /\ d # 0
          BY <1>1, <1>8, <3>5
        <4>2. cards[d].prev # c
          BY <4>1 DEF Linked
        <4> QED
          BY <1>8, <1>9, <3>5, <4>1, <4>2
      <3>6. CASE d # n /\ e # n /\ e # c
        BY <1>8, <3>6 DEF Linked
      <3> QED
        BY <3>1, <3>2, <3>3, <3>4, <3>5, <3>6
    <2> QED
      BY <1>1, <1>7, <2>1, <2>2 DEF Linked
  <1>11. \A d \in DOMAIN cards : Root(d)' = Root(d)
    BY <1>8, <1>10, RootsStay
  <1>12. Root(n)' = Root(c)
    <2>1. n \in DOMAIN cards' /\ cards'[n].prev = c /\ c # 0
      BY <1>1, <1>5, <1>7, <1>8
    <2>2. Oldest(cards')[n] = Oldest(cards')[c]
      BY <1>10, <2>1, OldestIs
    <2>3. Root(n)' = Oldest(cards')[n] /\ Root(c)' = Oldest(cards')[c]
      BY RootNext
    <2> QED
      BY <1>11, <2>2, <2>3
  <1> QED
    BY <1>1, <1>7, <1>8, <1>9, <1>10, <1>11, <1>12 DEF Succeeds, new

-----------------------------------------------------------------------------
(***************************************************************************)
(* Steps of the requests                                                   *)
(***************************************************************************)
\* One request moves on: it is done, or it does one of these things.
Becomes(r, ops) ==
    /\ DOMAIN txn' = Transactions
    /\ \A q \in Transactions \ {r} : txn'[q] = txn[q]
    /\ txn'[r] = Missing \/ txn'[r].op \in ops

LineageOps == {"chosen", "rooted", "locked"}
CaptureOps == {"edit", "question", "discard", "activating", "activate"}
DebriefOps == {"save", "submit"}
ProposalOps == {"wanting", "proposing", "accepting", "accept"}

\* A request that is finished has no record.
LEMMA FinishIs ==
  ASSUME DOMAIN txn = Transactions, NEW r \in Transactions, Finish(r)
  PROVE  Becomes(r, {}) /\ txn'[r] = Missing
  BY DEF Finish, Becomes

\* A request that keeps a record goes on with it.
LEMMA KeepIs ==
  ASSUME DOMAIN txn = Transactions, NEW r \in Transactions, NEW rec, Keep(r, rec)
  PROVE  Becomes(r, {rec.op}) /\ txn'[r] = rec
  BY DEF Keep, Becomes

\* What else a request might do is no more.
LEMMA BecomesMore ==
  ASSUME NEW r, NEW ops, NEW more, Becomes(r, ops), ops \subseteq more
  PROVE  Becomes(r, more)
  BY DEF Becomes

\* Requests that archive, restore or replace leave the rest of the library alone.
LEMMA LineageFrame ==
  ASSUME DOMAIN txn = Transactions, NEW r \in Transactions, LineageStep(r)
  PROVE  Becomes(r, LineageOps) /\ UNCHANGED <<answering, captures>>
  <1>1. ASSUME NEW kind \in LineageKinds, NEW c \in DOMAIN cards, Choose(r, kind, c)
        PROVE  Becomes(r, LineageOps) /\ UNCHANGED <<answering, captures>>
    BY <1>1, KeepIs DEF Choose, Becomes, LineageOps
  <1>2. CASE LockRoot(r)
    <2>1. CASE Finish(r)
      BY <1>2, <2>1, FinishIs, BecomesMore DEF LockRoot
    <2>2. CASE Keep(r, [txn[r] EXCEPT !.op = "rooted", !.members = MembersNow(txn[r])])
      BY <1>2, <2>2 DEF LockRoot, Keep, Becomes, LineageOps
    <2> QED
      BY <1>2, <2>1, <2>2 DEF LockRoot
  <1>3. CASE LockMembers(r)
    <2>1. CASE Finish(r)
      BY <1>3, <2>1, FinishIs, BecomesMore DEF LockMembers
    <2>2. CASE Keep(r, [txn[r] EXCEPT !.op = "locked"])
      BY <1>3, <2>2 DEF LockMembers, Keep, Becomes, LineageOps
    <2> QED
      BY <1>3, <2>1, <2>2 DEF LockMembers
  <1>4. CASE CommitLineage(r)
    BY <1>4, FinishIs, BecomesMore DEF CommitLineage
  <1> QED
    BY <1>1, <1>2, <1>3, <1>4 DEF LineageStep

\* Requests about captures start no answer.
LEMMA CaptureFrame ==
  ASSUME DOMAIN txn = Transactions, NEW r \in Transactions, CaptureStep(r)
  PROVE  Becomes(r, CaptureOps) /\ UNCHANGED answering
  <1> USE DEF CaptureOps
  <1>1. ASSUME NEW k \in Captures, EditCapture(r, k)
        PROVE  Becomes(r, CaptureOps) /\ UNCHANGED answering
    BY <1>1, KeepIs DEF EditCapture, Becomes
  <1>2. ASSUME NEW k \in Captures, NEW regenerate \in BOOLEAN, AskQuestion(r, k, regenerate)
        PROVE  Becomes(r, CaptureOps) /\ UNCHANGED answering
    BY <1>2, KeepIs DEF AskQuestion, Becomes
  <1>3. ASSUME NEW k \in Captures, DiscardCapture(r, k)
        PROVE  Becomes(r, CaptureOps) /\ UNCHANGED answering
    BY <1>3, KeepIs DEF DiscardCapture, Becomes
  <1>4. ASSUME NEW k \in Captures, LockCapture(r, k)
        PROVE  Becomes(r, CaptureOps) /\ UNCHANGED answering
    BY <1>4, KeepIs DEF LockCapture, Becomes
  <1>5. CASE CommitCapture(r)
    BY <1>5, FinishIs, BecomesMore DEF CommitCapture
  <1>6. CASE CommitDiscard(r)
    BY <1>6, FinishIs, BecomesMore DEF CommitDiscard
  <1>7. CASE CheckActivation(r)
    <2>1. CASE Finish(r)
      BY <1>7, <2>1, FinishIs, BecomesMore DEF CheckActivation
    <2>2. CASE Keep(r, [op |-> "activate", capture |-> txn[r].capture, topic |-> captures[txn[r].capture].topic])
      BY <1>7, <2>2 DEF CheckActivation, Keep, Becomes
    <2> QED
      BY <1>7, <2>1, <2>2 DEF CheckActivation
  <1>8. CASE CommitActivation(r)
    BY <1>8, FinishIs, BecomesMore DEF CommitActivation
  <1> QED
    BY <1>1, <1>2, <1>3, <1>4, <1>5, <1>6, <1>7, <1>8 DEF CaptureStep

\* Requests about the debrief write nothing else.
LEMMA DebriefFrame ==
  ASSUME DOMAIN txn = Transactions, NEW r \in Transactions, DebriefStep(r)
  PROVE  Becomes(r, DebriefOps) /\ UNCHANGED <<cards, answering, captures, proposals, acceptances, outcomes>>
  <1> USE DEF DebriefOps
  <1>1. ASSUME NEW op \in {"save", "submit"}, NEW text \in Texts, OpenDebrief(r, op, text)
        PROVE  Becomes(r, DebriefOps) /\ UNCHANGED <<cards, answering, captures, proposals, acceptances, outcomes>>
    BY <1>1 DEF OpenDebrief, Keep, Becomes, proposalVars
  <1>2. ASSUME NEW step, Writing(r, step), NEW to, Keep(r, [txn[r] EXCEPT !.step = to])
        PROVE  Becomes(r, DebriefOps)
    BY <1>2 DEF Writing, Doing, Keep, Becomes
  <1>3. ASSUME NEW step, Writing(r, step), Retries(r)
        PROVE  Becomes(r, DebriefOps)
    <2>1. CASE Finish(r)
      BY <2>1, FinishIs, BecomesMore
    <2>2. CASE Keep(r, [txn[r] EXCEPT !.step = "update", !.left = @ - 1])
      BY <1>3, <2>2 DEF Writing, Doing, Keep, Becomes
    <2> QED
      BY <1>3, <2>1, <2>2 DEF Retries
  <1>4. ASSUME Finish(r) PROVE Becomes(r, DebriefOps)
    BY <1>4, FinishIs, BecomesMore
  <1>5. CASE UpdateDebrief(r)
    <2>1. Becomes(r, DebriefOps)
      BY <1>2, <1>4, <1>5 DEF UpdateDebrief
    <2> QED
      BY <1>5, <2>1 DEF UpdateDebrief
  <1>6. CASE LookAtDebrief(r)
    <2>1. Becomes(r, DebriefOps)
      BY <1>2, <1>3, <1>4, <1>6 DEF LookAtDebrief
    <2> QED
      BY <1>6, <2>1 DEF LookAtDebrief
  <1>7. CASE InsertDebrief(r)
    <2>1. Becomes(r, DebriefOps)
      BY <1>3, <1>4, <1>7 DEF InsertDebrief
    <2> QED
      BY <1>7, <2>1 DEF InsertDebrief
  <1> QED
    BY <1>1, <1>5, <1>6, <1>7 DEF DebriefStep

\* Requests about the proposals leave captures and the debrief alone.
LEMMA ProposalFrame ==
  ASSUME DOMAIN txn = Transactions, NEW r \in Transactions, ProposalStep(r)
  PROVE  Becomes(r, ProposalOps) /\ UNCHANGED <<answering, captures, debrief, promised>>
  <1> USE DEF ProposalOps
  <1>1. CASE WantsProposals(r)
    BY <1>1 DEF WantsProposals, Keep, Becomes, proposalVars
  <1>2. ASSUME Finish(r) PROVE Becomes(r, ProposalOps)
    BY <1>2, FinishIs, BecomesMore
  <1>3. CASE LockAccount(r)
    <2>1. CASE Keep(r, [op |-> "proposing"])
      BY <1>3, <2>1 DEF LockAccount, Keep, Becomes, proposalVars
    <2> QED
      BY <1>2, <1>3, <2>1 DEF LockAccount, proposalVars
  <1>4. CASE CommitProposals(r)
    BY <1>2, <1>4 DEF CommitProposals
  <1>5. ASSUME NEW key \in Keys, NEW topics \in Selections, ReadAcceptance(r, key, topics)
        PROVE  Becomes(r, ProposalOps) /\ UNCHANGED <<answering, captures, debrief, promised>>
    <2>1. CASE Keep(r, [op |-> "accepting", key |-> key, topics |-> topics])
      BY <1>5, <2>1 DEF ReadAcceptance, Keep, Becomes
    <2>2. CASE txn[r] = Missing /\ UNCHANGED txn
      BY <1>5, <2>2 DEF ReadAcceptance, Becomes
    <2> QED
      BY <1>5, <2>1, <2>2 DEF ReadAcceptance
  <1>6. CASE CheckAcceptance(r)
    <2>1. CASE Keep(r, [txn[r] EXCEPT !.op = "accept"])
      BY <1>6, <2>1 DEF CheckAcceptance, Doing, Keep, Becomes
    <2>2. Finish(r) \/ Keep(r, [txn[r] EXCEPT !.op = "accept"])
      BY <1>6 DEF CheckAcceptance
    <2>3. UNCHANGED <<answering, captures, debrief, promised>>
      BY <1>6 DEF CheckAcceptance
    <2> QED
      BY <1>2, <2>1, <2>2, <2>3
  <1>7. CASE CommitAcceptance(r)
    BY <1>2, <1>7 DEF CommitAcceptance
  <1> QED
    BY <1>1, <1>3, <1>4, <1>5, <1>6, <1>7 DEF ProposalStep

-----------------------------------------------------------------------------
(***************************************************************************)
(* One active card                                                         *)
(***************************************************************************)
\* The root of a card is a card of its lineage.
LEMMA RootIn ==
  ASSUME Linked(cards), NEW c \in DOMAIN cards
  PROVE  Root(c) \in DOMAIN cards /\ Root(Root(c)) = Root(c)
  <1> DEFINE o == Oldest(cards)[c]
  <1>1. o \in 1..c /\ cards[o].prev = 0
    BY OldestRange
  <1>2. o \in DOMAIN cards
    BY <1>1 DEF Linked
  <1>3. Oldest(cards)[o] = o
    BY <1>1, <1>2, OldestIs
  <1> QED
    BY <1>2, <1>3, RootIsOldest

\* A step that writes no card leaves every lineage alone.
LEMMA CardsSame ==
  ASSUME Rows, UNCHANGED cards
  PROVE  Succeeds /\ DOMAIN cards' = DOMAIN cards /\ \A root \in DOMAIN cards : Stays(root)
  <1>1. \A c : Root(c)' = Root(c)
    BY RootIsOldest, RootNext
  <1>2. Succeeds
    BY <1>1 DEF Rows, Succeeds
  <1>3. \A root \in DOMAIN cards : Stays(root)
    BY <1>1 DEF Stays, Lineage
  <1> QED
    BY <1>2, <1>3

\* What a request has decided stands while the members of the lineage do.
LEMMA RefusedSame ==
  ASSUME NEW kind \in LineageKinds, NEW members, NEW c \in members,
         \A m \in members : cards'[m] = cards[m], (c \in answering') <=> (c \in answering)
  PROVE  Refused(kind, c, members)' <=> Refused(kind, c, members)
  BY DEF Refused, OtherActive, LineageKinds

\* The row locks of a request that has a lineage.
LEMMA LockedIs ==
  ASSUME NEW r \in Transactions
  PROVE  /\ Doing(r, "rooted") => Locked(r) = {txn[r].root}
         /\ Doing(r, "locked") => Locked(r) = txn[r].members
  BY DEF Locked, Doing

\* Requests know what they knew when their lineages are left alone.
LEMMA WorkStands ==
  ASSUME Rows, LineageInv, Succeeds, NEW q \in Transactions, txn'[q] = txn[q],
         DOMAIN txn' = Transactions,
         HoldsLineage(q) => Stays(txn[q].root),
         \A c \in DOMAIN cards : ~Unlocked(c) => ((c \in answering') <=> (c \in answering))
  PROVE  LineageWorkOf(q)' /\ (HoldsLineage(q)' <=> HoldsLineage(q))
  <1>1. \A op : Doing(q, op)' <=> Doing(q, op)
    BY DEF Doing, InFlight
  <1>2. HoldsLineage(q)' <=> HoldsLineage(q)
    BY <1>1 DEF HoldsLineage
  <1>3. LineageWorkOf(q)
    BY DEF LineageInv, LineageWork
  <1>4. PICK w : w = txn[q]
    OBVIOUS
  <1>5. ASSUME Doing(q, "chosen") \/ HoldsLineage(q)
        PROVE  w.kind \in LineageKinds /\ w.card \in DOMAIN cards' /\ w.root = Root(w.card)'
    <2>1. w.kind \in LineageKinds /\ w.card \in DOMAIN cards /\ w.root = Root(w.card)
      BY <1>3, <1>4, <1>5 DEF LineageWorkOf
    <2>2. PICK c : c = w.card
      OBVIOUS
    <2> QED
      BY <2>1, <2>2 DEF Succeeds
  <1>6. ASSUME HoldsLineage(q)
        PROVE  w.members = Lineage(w.root)' /\ w.members = Lineage(w.root)
    <2>1. PICK root : root = w.root
      OBVIOUS
    <2>2. w.members = Lineage(root)
      BY <1>3, <1>4, <1>6, <2>1 DEF LineageWorkOf
    <2>3. Lineage(root)' = Lineage(root)
      BY <1>4, <1>6, <2>1 DEF Stays
    <2> QED
      BY <2>1, <2>2, <2>3
  <1>7. ASSUME Doing(q, "locked")
        PROVE  ~Refused(w.kind, w.card, w.members)'
    <2>1. HoldsLineage(q)
      BY <1>7 DEF HoldsLineage
    <2>2. /\ w.kind \in LineageKinds /\ w.card \in DOMAIN cards /\ w.root = Root(w.card)
          /\ ~Refused(w.kind, w.card, w.members)
      BY <1>3, <1>4, <1>7, <2>1 DEF LineageWorkOf
    <2>3. w.card \in w.members
      BY <1>6, <2>1, <2>2 DEF Lineage
    <2>4. \A m \in w.members : cards'[m] = cards[m]
      BY <1>4, <1>6, <2>1 DEF Stays
    <2>5. ~Unlocked(w.card)
      BY <1>4, <1>7, <2>3, LockedIs DEF Unlocked
    <2>6. PICK kind, c, members : kind = w.kind /\ c = w.card /\ members = w.members
      OBVIOUS
    <2>7. ~Refused(kind, c, members)'
      BY <2>2, <2>3, <2>4, <2>5, <2>6, RefusedSame
    <2> QED
      BY <2>6, <2>7
  <1>8. txn'[q] = w
    BY <1>4
  <1> QED
    BY <1>1, <1>2, <1>5, <1>6, <1>7, <1>8 DEF LineageWorkOf

\* Every request that writes no row of an existing lineage keeps all of it.
LEMMA LineagesKept ==
  ASSUME Rows, LineageInv, Succeeds, NEW r, NEW ops, Becomes(r, ops), ops \cap LineageOps = {},
         \A root \in DOMAIN cards : Stays(root),
         \A d \in DOMAIN cards' \ DOMAIN cards : Root(d)' = d,
         \A c \in DOMAIN cards : ~Unlocked(c) => ((c \in answering') <=> (c \in answering)),
         \A c \in answering' : c \in DOMAIN cards /\ cards[c].active
  PROVE  LineageInv'
  <1>0. \A c \in DOMAIN cards : Root(c) \in DOMAIN cards
    BY RootIn DEF Rows
  <1>1. \A c \in DOMAIN cards : cards'[c] = cards[c]
    BY <1>0 DEF Stays, Lineage
  <1>2. ActiveOnce'
    <2>1. ASSUME NEW c \in DOMAIN cards', NEW d \in DOMAIN cards',
                 cards'[c].active, cards'[d].active, Root(c)' = Root(d)'
          PROVE  c = d
      <3>1. CASE c \in DOMAIN cards /\ d \in DOMAIN cards
        BY <1>1, <2>1, <3>1 DEF Succeeds, LineageInv, ActiveOnce
      <3>2. CASE c \in DOMAIN cards /\ d \notin DOMAIN cards
        BY <1>0, <2>1, <3>2 DEF Succeeds
      <3>3. CASE c \notin DOMAIN cards /\ d \in DOMAIN cards
        BY <1>0, <2>1, <3>3 DEF Succeeds
      <3>4. CASE c \notin DOMAIN cards /\ d \notin DOMAIN cards
        BY <2>1, <3>4
      <3> QED
        BY <3>1, <3>2, <3>3, <3>4
    <2>2. \A c \in answering' : c \in DOMAIN cards' /\ cards'[c].active
      BY <1>1 DEF Succeeds
    <2> QED
      BY <2>1, <2>2 DEF ActiveOnce
  <1>3. ASSUME NEW q \in Transactions, txn'[q] = txn[q]
        PROVE  LineageWorkOf(q)' /\ (HoldsLineage(q)' <=> HoldsLineage(q))
    <2>1. HoldsLineage(q) => Stays(txn[q].root)
      <3>1. LineageWorkOf(q)
        BY DEF LineageInv, LineageWork
      <3> QED
        BY <1>0, <3>1 DEF LineageWorkOf
    <2>2. DOMAIN txn' = Transactions
      BY DEF Becomes
    <2> QED
      BY <1>3, <2>1, <2>2, WorkStands
  <1>4. ASSUME NEW q \in Transactions, txn'[q] # txn[q]
        PROVE  LineageWorkOf(q)' /\ ~HoldsLineage(q)'
    <2>1. \A op \in LineageOps : ~Doing(q, op)'
      BY <1>4 DEF Becomes, Doing, InFlight
    <2> QED
      BY <2>1 DEF LineageWorkOf, HoldsLineage, LineageOps
  <1>5. LineageWork'
    BY <1>3, <1>4 DEF LineageWork
  <1>6. OneHolder'
    BY <1>3, <1>4 DEF LineageInv, OneHolder
  <1> QED
    BY <1>2, <1>5, <1>6 DEF LineageInv

\* A request that takes up a lineage writes no row, and knows the lineage when it has the lock.
LEMMA LineagesLocked ==
  ASSUME Rows, LineageInv, NEW r \in Transactions, UNCHANGED <<cards, answering>>,
         Becomes(r, LineageOps), LineageWorkOf(r)',
         HoldsLineage(r)' => \A q \in Transactions \ {r} :
                                HoldsLineage(q) => txn[q].root # txn'[r].root
  PROVE  LineageInv'
  <1>1. Succeeds /\ \A root \in DOMAIN cards : Stays(root)
    BY CardsSame
  <1>2. ActiveOnce'
    BY <1>1 DEF Succeeds, LineageInv, ActiveOnce
  <1>3. ASSUME NEW q \in Transactions \ {r}
        PROVE  LineageWorkOf(q)' /\ (HoldsLineage(q)' <=> HoldsLineage(q)) /\ txn'[q] = txn[q]
    <2>1. HoldsLineage(q) => Stays(txn[q].root)
      <3>1. LineageWorkOf(q)
        BY DEF LineageInv, LineageWork
      <3> QED
        BY <1>1, <3>1, RootIn DEF LineageWorkOf, Rows
    <2>2. txn'[q] = txn[q] /\ DOMAIN txn' = Transactions
      BY DEF Becomes
    <2> QED
      BY <1>1, <2>1, <2>2, WorkStands
  <1>4. LineageWork'
    BY <1>3 DEF LineageWork
  <1>5. OneHolder'
    <2>1. ASSUME NEW p \in Transactions, NEW q \in Transactions,
                 HoldsLineage(p)', HoldsLineage(q)', txn'[p].root = txn'[q].root
          PROVE  p = q
      <3>1. CASE p # r /\ q # r
        BY <1>3, <2>1, <3>1 DEF LineageInv, OneHolder
      <3>2. CASE p = r /\ q # r
        BY <1>3, <2>1, <3>2
      <3>3. CASE p # r /\ q = r
        BY <1>3, <2>1, <3>3
      <3> QED
        BY <3>1, <3>2, <3>3
    <2> QED
      BY <2>1 DEF OneHolder
  <1> QED
    BY <1>2, <1>4, <1>5 DEF LineageInv

\* A request that is done holds nothing and has to know nothing.
LEMMA Done ==
  ASSUME NEW r \in Transactions, txn'[r] = Missing
  PROVE  LineageWorkOf(r)' /\ \A op : ~Doing(r, op)'
  BY DEF LineageWorkOf, HoldsLineage, Doing, InFlight

\* Choosing a card, and locking its root and the members.
LEMMA LineagesChosen ==
  ASSUME Rows, LineageInv, NEW r \in Transactions, NEW kind \in LineageKinds, NEW c \in DOMAIN cards,
         Choose(r, kind, c)
  PROVE  LineageInv'
  <1>1. DOMAIN txn = Transactions
    BY DEF Rows
  <1>2. UNCHANGED <<cards, answering>>
    BY DEF Choose
  <1>3. PICK root, members : root = Root(c) /\ members = Component(c)
    OBVIOUS
  <1>4. txn'[r] = [op |-> "chosen", kind |-> kind, card |-> c, root |-> root, members |-> members]
    BY <1>1, <1>3 DEF Choose, Keep
  <1>5. Becomes(r, LineageOps)
    BY <1>1 DEF Choose, Keep, Becomes, LineageOps
  <1>6. Root(c)' = root /\ c \in DOMAIN cards'
    BY <1>2, <1>3, CardsSame DEF Succeeds
  <1>7. LineageWorkOf(r)' /\ ~HoldsLineage(r)'
    BY <1>4, <1>6 DEF LineageWorkOf, HoldsLineage, Doing
  <1> QED
    BY <1>2, <1>5, <1>7, LineagesLocked

\* Under the root's lock the links are read again.
LEMMA LineagesRooted ==
  ASSUME Rows, LineageInv, NEW r \in Transactions, LockRoot(r)
  PROVE  LineageInv'
  <1>1. DOMAIN txn = Transactions /\ Linked(cards)
    BY DEF Rows
  <1>2. UNCHANGED <<cards, answering>> /\ Doing(r, "chosen") /\ txn[r].root \notin LockedByOthers(r)
    BY DEF LockRoot
  <1>3. CASE Finish(r)
    <2>1. Becomes(r, LineageOps) /\ txn'[r] = Missing
      BY <1>1, <1>3, FinishIs, BecomesMore
    <2>2. LineageWorkOf(r)' /\ ~HoldsLineage(r)'
      BY <2>1, Done DEF HoldsLineage
    <2> QED
      BY <1>2, <2>1, <2>2, LineagesLocked
  <1>4. CASE Keep(r, [txn[r] EXCEPT !.op = "rooted", !.members = MembersNow(txn[r])])
    <2>1. PICK w : w = txn[r]
      OBVIOUS
    <2>2. w.kind \in LineageKinds /\ w.card \in DOMAIN cards /\ w.root = Root(w.card)
      BY <1>2, <2>1 DEF LineageInv, LineageWork, LineageWorkOf
    <2>3. PICK members : members = Component(w.card)
      OBVIOUS
    <2>4. members = Lineage(w.root)
      BY <1>1, <2>2, <2>3, ComponentIs DEF Lineage
    <2>5. txn'[r] = [w EXCEPT !.op = "rooted", !.members = members]
      BY <1>1, <1>4, <2>1, <2>3 DEF Keep, MembersNow
    <2>6. /\ txn'[r].op = "rooted" \/ txn'[r] = Missing
          /\ txn'[r].members = members \/ txn'[r] = Missing
          /\ txn'[r].kind = w.kind /\ txn'[r].card = w.card /\ txn'[r].root = w.root
      BY <2>5
    <2>7. Becomes(r, LineageOps)
      BY <1>1, <1>4, <2>6 DEF Keep, Becomes, LineageOps
    <2>8. PICK c, root : c = w.card /\ root = w.root
      OBVIOUS
    <2>9. c \in DOMAIN cards' /\ Root(c)' = root /\ Lineage(root)' = members
      <3>1. root \in DOMAIN cards
        BY <1>1, <2>2, <2>8, RootIn
      <3> QED
        BY <1>2, <2>2, <2>4, <2>8, <3>1, CardsSame DEF Succeeds, Stays
    <2>10. LineageWorkOf(r)'
      BY <2>2, <2>6, <2>8, <2>9 DEF LineageWorkOf, HoldsLineage, Doing, InFlight
    <2>11. ASSUME NEW q \in Transactions \ {r}, HoldsLineage(q), txn[q].root = w.root
           PROVE  FALSE
      <3>1. LineageWorkOf(q)
        BY DEF LineageInv, LineageWork
      <3>2. w.root \in Lineage(w.root)
        BY <1>1, <2>2, RootIn DEF Lineage
      <3>3. w.root \in Locked(q)
        BY <2>11, <3>1, <3>2, LockedIs DEF HoldsLineage, LineageWorkOf
      <3> QED
        BY <1>2, <2>1, <3>3 DEF LockedByOthers
    <2> QED
      BY <1>2, <2>6, <2>7, <2>10, <2>11, LineagesLocked
  <1> QED
    BY <1>3, <1>4 DEF LockRoot

\* With the members locked, the request is refused or has decided.
LEMMA LineagesDecided ==
  ASSUME Rows, LineageInv, NEW r \in Transactions, LockMembers(r)
  PROVE  LineageInv'
  <1>1. DOMAIN txn = Transactions /\ Linked(cards)
    BY DEF Rows
  <1>2. UNCHANGED <<cards, answering>> /\ Doing(r, "rooted")
    BY DEF LockMembers
  <1>3. CASE Finish(r)
    <2>1. Becomes(r, LineageOps) /\ txn'[r] = Missing
      BY <1>1, <1>3, FinishIs, BecomesMore
    <2>2. LineageWorkOf(r)' /\ ~HoldsLineage(r)'
      BY <2>1, Done DEF HoldsLineage
    <2> QED
      BY <1>2, <2>1, <2>2, LineagesLocked
  <1>4. CASE ~Refused(txn[r].kind, txn[r].card, txn[r].members) /\ Keep(r, [txn[r] EXCEPT !.op = "locked"])
    <2>1. PICK w : w = txn[r]
      OBVIOUS
    <2>2. /\ w.kind \in LineageKinds /\ w.card \in DOMAIN cards /\ w.root = Root(w.card)
          /\ w.members = Lineage(w.root) /\ ~Refused(w.kind, w.card, w.members)
      BY <1>2, <1>4, <2>1 DEF LineageInv, LineageWork, LineageWorkOf, HoldsLineage
    <2>3. txn'[r] = [w EXCEPT !.op = "locked"]
      BY <1>1, <1>4, <2>1 DEF Keep
    <2>4. /\ txn'[r].op = "locked" \/ txn'[r] = Missing
          /\ txn'[r].kind = w.kind /\ txn'[r].card = w.card /\ txn'[r].root = w.root
          /\ txn'[r].members = w.members
      BY <2>3
    <2>5. Becomes(r, LineageOps)
      BY <1>1, <1>4, <2>4 DEF Keep, Becomes, LineageOps
    <2>6. PICK kind, c, root, members :
             kind = w.kind /\ c = w.card /\ root = w.root /\ members = w.members
      OBVIOUS
    <2>7. root \in DOMAIN cards /\ Root(root) = root
      BY <1>1, <2>2, <2>6, RootIn
    <2>8. c \in DOMAIN cards' /\ Root(c)' = root /\ Lineage(root)' = members
      BY <1>2, <2>2, <2>6, <2>7, CardsSame DEF Succeeds, Stays
    <2>9. ~Refused(kind, c, members)'
      <3>1. c \in members
        BY <2>2, <2>6 DEF Lineage
      <3> QED
        BY <1>2, <2>2, <2>6, <3>1, RefusedSame
    <2>10. LineageWorkOf(r)'
      BY <2>2, <2>4, <2>6, <2>8, <2>9 DEF LineageWorkOf, HoldsLineage, Doing, InFlight
    <2>11. ASSUME NEW q \in Transactions \ {r}, HoldsLineage(q), txn[q].root = w.root
           PROVE  FALSE
      BY <1>2, <2>1, <2>11 DEF LineageInv, OneHolder, HoldsLineage
    <2> QED
      BY <1>2, <2>4, <2>5, <2>10, <2>11, LineagesLocked
  <1> QED
    BY <1>3, <1>4 DEF LockMembers

\* The rows that a request with a decided lineage writes: its card, and the replacement.
Rewrites(c, root) ==
    /\ Succeeds
    /\ \A d \in DOMAIN cards : d # c => cards'[d] = cards[d]
    /\ \A d \in DOMAIN cards' \ DOMAIN cards : Root(d)' = root

\* No other lineage notices.
LEMMA OthersStay ==
  ASSUME Rows, NEW c \in DOMAIN cards, NEW root, root = Root(c), Rewrites(c, root)
  PROVE  \A other \in DOMAIN cards : other # root => Stays(other)
  <1>1. ASSUME NEW other \in DOMAIN cards, other # root PROVE Lineage(other)' = Lineage(other)
    BY <1>1 DEF Lineage, Rewrites, Succeeds
  <1>2. ASSUME NEW other \in DOMAIN cards, other # root, NEW d \in Lineage(other)
        PROVE  cards'[d] = cards[d]
    BY <1>2 DEF Lineage, Rewrites
  <1> QED
    BY <1>1, <1>2 DEF Stays

\* What a request that decided may rely on when it commits.
LEMMA DecidedIs ==
  ASSUME Rows, LineageInv, NEW r \in Transactions, Doing(r, "locked")
  PROVE  /\ txn[r].kind \in LineageKinds /\ txn[r].card \in DOMAIN cards
         /\ txn[r].root = Root(txn[r].card) /\ txn[r].root \in DOMAIN cards
         /\ txn[r].kind # "archive" =>
              \A m \in DOMAIN cards : m # txn[r].card /\ Root(m) = txn[r].root => ~cards[m].active
         /\ txn[r].kind # "restore" => txn[r].card \notin answering /\ cards[txn[r].card].active
         /\ txn[r].kind = "restore" => ~cards[txn[r].card].active
         /\ txn[r].kind = "replace" => cards[txn[r].card].next = 0
  <1>1. PICK w : w = txn[r]
    OBVIOUS
  <1>2. /\ w.kind \in LineageKinds /\ w.card \in DOMAIN cards /\ w.root = Root(w.card)
        /\ w.members = Lineage(w.root) /\ ~Refused(w.kind, w.card, w.members)
    BY <1>1 DEF LineageInv, LineageWork, LineageWorkOf, HoldsLineage
  <1>3. w.root \in DOMAIN cards
    BY <1>2, RootIn DEF Rows
  <1>4. w.kind # "archive" => \A m \in DOMAIN cards : m # w.card /\ Root(m) = w.root => ~cards[m].active
    BY <1>2 DEF Refused, OtherActive, Lineage, LineageKinds
  <1>5. /\ w.kind # "restore" => w.card \notin answering /\ cards[w.card].active
        /\ w.kind = "restore" => ~cards[w.card].active
    BY <1>2 DEF Refused, LineageKinds
  <1>6. ASSUME w.kind = "replace" PROVE cards[w.card].next = 0
    <2>1. SUFFICES ASSUME cards[w.card].next # 0 PROVE FALSE
      OBVIOUS
    <2>2. PICK n : n = cards[w.card].next
      OBVIOUS
    <2>3. n \in DOMAIN cards /\ cards[n].prev = w.card
      BY <1>2, <2>1, <2>2 DEF Rows, Linked
    <2>4. w.card # 0 /\ Linked(cards)
      BY <1>2 DEF Rows, Linked
    <2>5. Root(n) = Root(w.card)
      BY <1>2, <2>3, <2>4, OldestIs, RootIsOldest
    <2>6. n \in w.members
      BY <1>2, <2>3, <2>5 DEF Lineage
    <2> QED
      BY <1>2, <1>6, <2>2, <2>6 DEF Refused
  <1> QED
    BY <1>1, <1>2, <1>3, <1>4, <1>5, <1>6

\* Archiving, restoring and replacing.
LEMMA Committed ==
  ASSUME Rows, LineageInv, NEW r \in Transactions, CommitLineage(r),
         NEW c, c = txn[r].card, NEW root, root = txn[r].root
  PROVE  /\ Rewrites(c, root)
         /\ \A d, e \in DOMAIN cards' : cards'[d].active /\ cards'[e].active
               /\ Root(d)' = root /\ Root(e)' = root => d = e
         /\ c \in answering => cards'[c].active
  <1>1. /\ Doing(r, "locked") /\ cards \in Seq(CardRecords) /\ Linked(cards)
    BY DEF CommitLineage, Rows
  <1>2. /\ txn[r].kind \in LineageKinds /\ c \in DOMAIN cards /\ root = Root(c)
        /\ txn[r].kind # "archive" => \A m \in DOMAIN cards : m # c /\ Root(m) = root => ~cards[m].active
        /\ txn[r].kind # "restore" => c \notin answering
        /\ txn[r].kind = "replace" => cards[c].next = 0
    BY <1>1, DecidedIs
  <1>3. CASE txn[r].kind = "archive"
    <2>1. cards' = [cards EXCEPT ![c].active = FALSE]
      BY <1>3 DEF CommitLineage
    <2>2. /\ Succeeds /\ DOMAIN cards' = DOMAIN cards /\ ~cards'[c].active
          /\ \A d \in DOMAIN cards : d # c => cards'[d] = cards[d]
      BY <1>1, <1>2, <2>1, Toggled
    <2>3. ASSUME NEW d \in DOMAIN cards', NEW e \in DOMAIN cards', cards'[d].active, cards'[e].active,
                 Root(d)' = root, Root(e)' = root
          PROVE  d = e
      <3>1. d # c /\ e # c /\ d \in DOMAIN cards /\ e \in DOMAIN cards
        BY <2>2, <2>3
      <3>2. cards[d].active /\ cards[e].active /\ Root(d) = Root(e)
        BY <2>2, <2>3, <3>1 DEF Succeeds
      <3> QED
        BY <3>1, <3>2 DEF LineageInv, ActiveOnce
    <2> QED
      BY <1>2, <1>3, <2>2, <2>3 DEF Rewrites
  <1>4. CASE txn[r].kind = "restore"
    <2>1. cards' = [cards EXCEPT ![c].active = TRUE]
      BY <1>4 DEF CommitLineage
    <2>2. /\ Succeeds /\ DOMAIN cards' = DOMAIN cards /\ cards'[c].active
          /\ \A d \in DOMAIN cards : d # c => cards'[d] = cards[d]
      BY <1>1, <1>2, <2>1, Toggled
    <2>3. ASSUME NEW d \in DOMAIN cards', cards'[d].active, Root(d)' = root
          PROVE  d = c
      BY <1>2, <1>4, <2>2, <2>3 DEF Succeeds
    <2> QED
      BY <2>2, <2>3 DEF Rewrites
  <1>5. CASE txn[r].kind = "replace"
    <2>1. cards' = Replaced(c)
      BY <1>5 DEF CommitLineage
    <2>2. PICK n : n = Len(cards) + 1
      OBVIOUS
    <2>3. /\ Succeeds /\ DOMAIN cards' = DOMAIN cards \cup {n} /\ n \notin DOMAIN cards
          /\ Root(n)' = root /\ ~cards'[c].active
          /\ \A d \in DOMAIN cards : d # c => cards'[d] = cards[d]
      BY <1>1, <1>2, <1>5, <2>1, <2>2, ReplacedIs
    <2>4. ASSUME NEW d \in DOMAIN cards', cards'[d].active, Root(d)' = root
          PROVE  d = n
      BY <1>2, <1>5, <2>3, <2>4 DEF Succeeds
    <2> QED
      BY <1>2, <1>5, <2>3, <2>4 DEF Rewrites
  <1> QED
    BY <1>2, <1>3, <1>4, <1>5 DEF LineageKinds

\* The commit of a decided request concerns its lineage only.
LEMMA LineagesCommitted ==
  ASSUME Rows, LineageInv, NEW r \in Transactions, CommitLineage(r)
  PROVE  LineageInv'
  <1>1. /\ Doing(r, "locked") /\ DOMAIN txn = Transactions /\ Linked(cards)
        /\ UNCHANGED answering /\ Finish(r)
    BY DEF CommitLineage, Rows
  <1>2. PICK c, root : c = txn[r].card /\ root = txn[r].root
    OBVIOUS
  <1>3. c \in DOMAIN cards /\ root = Root(c)
    BY <1>1, <1>2, DecidedIs
  <1>4. /\ Rewrites(c, root)
        /\ \A d, e \in DOMAIN cards' : cards'[d].active /\ cards'[e].active
              /\ Root(d)' = root /\ Root(e)' = root => d = e
        /\ c \in answering => cards'[c].active
    BY <1>2, Committed
  <1>5. \A other \in DOMAIN cards : other # root => Stays(other)
    BY <1>3, <1>4, OthersStay
  <1>6. Becomes(r, {}) /\ txn'[r] = Missing
    BY <1>1, FinishIs
  <1>7. ActiveOnce'
    <2>1. ASSUME NEW d \in DOMAIN cards', NEW e \in DOMAIN cards',
                 cards'[d].active, cards'[e].active, Root(d)' = Root(e)'
          PROVE  d = e
      <3>1. CASE Root(d)' = root
        BY <1>4, <2>1, <3>1
      <3>2. CASE Root(d)' # root
        <4>1. d \in DOMAIN cards /\ e \in DOMAIN cards
          BY <1>4, <2>1, <3>2 DEF Rewrites
        <4>2. d # c /\ e # c
          BY <1>3, <1>4, <2>1, <3>2 DEF Rewrites, Succeeds
        <4>3. cards[d].active /\ cards[e].active /\ Root(d) = Root(e)
          BY <1>4, <2>1, <4>1, <4>2 DEF Rewrites, Succeeds
        <4> QED
          BY <4>1, <4>3 DEF LineageInv, ActiveOnce
      <3> QED
        BY <3>1, <3>2
    <2>2. \A d \in answering' : d \in DOMAIN cards' /\ cards'[d].active
      BY <1>1, <1>4 DEF Rewrites, Succeeds, LineageInv, ActiveOnce
    <2> QED
      BY <2>1, <2>2 DEF ActiveOnce
  <1>8. ASSUME NEW q \in Transactions \ {r}
        PROVE  LineageWorkOf(q)' /\ (HoldsLineage(q)' <=> HoldsLineage(q)) /\ txn'[q] = txn[q]
    <2>1. HoldsLineage(q) => Stays(txn[q].root)
      <3>1. ASSUME HoldsLineage(q) PROVE txn[q].root # root /\ txn[q].root \in DOMAIN cards
        <4>1. LineageWorkOf(q)
          BY DEF LineageInv, LineageWork
        <4>2. HoldsLineage(r)
          BY <1>1 DEF HoldsLineage
        <4> QED
          BY <1>1, <1>2, <3>1, <4>1, <4>2, RootIn DEF LineageInv, OneHolder, LineageWorkOf
      <3> QED
        BY <1>5, <3>1
    <2>2. txn'[q] = txn[q] /\ DOMAIN txn' = Transactions
      BY <1>6 DEF Becomes
    <2>3. Succeeds
      BY <1>4 DEF Rewrites
    <2> QED
      BY <1>1, <2>1, <2>2, <2>3, WorkStands
  <1>9. LineageWorkOf(r)' /\ ~HoldsLineage(r)'
    BY <1>6, Done DEF HoldsLineage
  <1>10. LineageWork'
    BY <1>8, <1>9 DEF LineageWork
  <1>11. OneHolder'
    BY <1>8, <1>9 DEF LineageInv, OneHolder
  <1> QED
    BY <1>7, <1>10, <1>11 DEF LineageInv

\* An answer starts and ends about a card that no request has locked.
LEMMA AnswersKeep ==
  ASSUME Rows, LineageInv, NEW c \in DOMAIN cards, StartAnswer(c) \/ EndAnswer(c)
  PROVE  LineageInv'
  <1>1. UNCHANGED <<cards, txn>> /\ Unlocked(c)
    BY DEF StartAnswer, EndAnswer
  <1>2. Succeeds /\ (\A root \in DOMAIN cards : Stays(root)) /\ DOMAIN cards' = DOMAIN cards
    BY <1>1, CardsSame
  <1>3. \A d \in DOMAIN cards : ~Unlocked(d) => ((d \in answering') <=> (d \in answering))
    BY <1>1 DEF StartAnswer, EndAnswer
  <1>4. \A d \in answering' : d \in DOMAIN cards /\ cards[d].active
    BY DEF StartAnswer, EndAnswer, LineageInv, ActiveOnce
  <1>5. ASSUME NEW q \in Transactions
        PROVE  LineageWorkOf(q)' /\ (HoldsLineage(q)' <=> HoldsLineage(q))
    <2>1. HoldsLineage(q) => Stays(txn[q].root)
      <3>1. LineageWorkOf(q)
        BY DEF LineageInv, LineageWork
      <3> QED
        BY <1>2, <3>1, RootIn DEF LineageWorkOf, Rows
    <2>2. txn'[q] = txn[q] /\ DOMAIN txn' = Transactions
      BY <1>1 DEF Rows
    <2> QED
      BY <1>2, <1>3, <2>1, <2>2, WorkStands
  <1>6. ActiveOnce'
    BY <1>1, <1>2, <1>4 DEF Succeeds, LineageInv, ActiveOnce
  <1>7. LineageWork'
    BY <1>5 DEF LineageWork
  <1>8. OneHolder'
    BY <1>1, <1>5 DEF LineageInv, OneHolder
  <1> QED
    BY <1>6, <1>7, <1>8 DEF LineageInv

\* Requests that write no card and take up no lineage keep all of it.
LEMMA LineagesIdle ==
  ASSUME Rows, LineageInv, NEW r, NEW ops, Becomes(r, ops), ops \cap LineageOps = {},
         UNCHANGED <<cards, answering>>
  PROVE  LineageInv'
  <1>1. Succeeds /\ DOMAIN cards' = DOMAIN cards /\ \A root \in DOMAIN cards : Stays(root)
    BY CardsSame
  <1>2. \A c \in answering' : c \in DOMAIN cards /\ cards[c].active
    BY DEF LineageInv, ActiveOnce
  <1>3. /\ \A d \in DOMAIN cards' \ DOMAIN cards : Root(d)' = d
        /\ \A c \in DOMAIN cards : ~Unlocked(c) => ((c \in answering') <=> (c \in answering))
    BY <1>1
  <1> QED
    BY <1>1, <1>2, <1>3, LineagesKept

-----------------------------------------------------------------------------
(***************************************************************************)
(* New lineages                                                            *)
(***************************************************************************)
\* Cards are added, and begin lineages of their own.
Adds ==
    /\ cards' \in Seq(CardRecords)
    /\ \A c \in DOMAIN cards : c \in DOMAIN cards' /\ cards'[c] = cards[c]
    /\ \A d \in DOMAIN cards' \ DOMAIN cards : cards'[d].prev = 0 /\ cards'[d].next = 0

\* An activation adds a card of the capture.
LEMMA ActivationAdds ==
  ASSUME Rows, TopicWork, CaptureWork, NEW r \in Transactions, CommitActivation(r)
  PROVE  /\ Adds
         /\ \E n : /\ DOMAIN cards' = DOMAIN cards \cup {n} /\ n \notin DOMAIN cards /\ n # 0
                   /\ cards'[n] = NewCard(txn[r].topic, 0, <<"capture", txn[r].capture>>)
                   /\ captures' = [captures EXCEPT ![txn[r].capture].card = n,
                                                   ![txn[r].capture].status = "activated"]
  <1>1. PICK t, k, n : t = txn[r].topic /\ k = txn[r].capture /\ n = Len(cards) + 1
    OBVIOUS
  <1>2. /\ Doing(r, "activate") /\ cards' = Append(cards, NewCard(t, 0, <<"capture", k>>))
        /\ captures' = [captures EXCEPT ![k].card = n, ![k].status = "activated"]
    BY <1>1 DEF CommitActivation
  <1>3. t \in Topics /\ k \in Captures
    BY <1>1, <1>2 DEF TopicWork, TopicWorkOf, CaptureWork, CaptureWorkOf, Activating
  <1>4. PICK new : new = NewCard(t, 0, <<"capture", k>>)
    OBVIOUS
  <1>5. new \in CardRecords /\ new.prev = 0 /\ new.next = 0
    BY <1>3, <1>4 DEF NewCard, CardRecords, Origins
  <1>6. cards \in Seq(CardRecords) /\ cards' = Append(cards, new)
    BY <1>2, <1>4 DEF Rows
  <1>7. /\ cards' \in Seq(CardRecords) /\ DOMAIN cards' = DOMAIN cards \cup {n}
        /\ n \notin DOMAIN cards /\ n # 0 /\ cards'[n] = new
        /\ \A c \in DOMAIN cards : cards'[c] = cards[c]
    BY <1>1, <1>5, <1>6
  <1>8. Adds
    BY <1>5, <1>7 DEF Adds
  <1> QED
    BY <1>1, <1>2, <1>4, <1>7, <1>8

\* The cards are those of selected proposals, one of each.
Made(key, topics) ==
    /\ \A d \in DOMAIN cards' \ DOMAIN cards : \E p \in DOMAIN topics :
          p \in 1..MaxSuggested /\ cards'[d] = NewCard(topics[p], 0, <<"proposal", key, p>>)
    /\ \A d, e \in DOMAIN cards' \ DOMAIN cards : cards'[d].origin = cards'[e].origin => d = e

\* An acceptance adds a card for every selected proposal, and one for each.
LEMMA AcceptanceAdds ==
  ASSUME Rows, ItemWork, NEW r \in Transactions, CommitAcceptance(r),
         NEW key, key = txn[r].key, NEW topics, topics = txn[r].topics
  PROVE  Adds /\ Made(key, topics)
  <1>1. Doing(r, "accept") /\ cards \in Seq(CardRecords)
    BY DEF CommitAcceptance, Rows
  <1>2. key \in Keys /\ topics \in Selected
    BY <1>1 DEF ItemWork, ItemWorkOf
  <1>3. /\ DOMAIN topics \subseteq 1..MaxSuggested
        /\ \A p \in DOMAIN topics : topics[p] \in Topics
    BY <1>2 DEF Selected
  <1>4. PICK n : n = Cardinality(DOMAIN topics)
    OBVIOUS
  <1>5. n \in Nat
    <2>1. IsFiniteSet(1..MaxSuggested)
      BY FS_Interval, ProposalsAssumption
    <2> QED
      BY <1>3, <1>4, <2>1, FS_Subset, FS_CardinalityType
  <1>6. PICK selected \in InOrder(DOMAIN topics) :
           cards' = cards \o [i \in DOMAIN selected |->
                       NewCard(topics[selected[i]], 0, <<"proposal", key, selected[i]>>)]
    BY DEF CommitAcceptance
  <1>7. /\ selected \in [1..n -> DOMAIN topics]
        /\ \A i, j \in 1..n : i < j => selected[i] < selected[j]
    BY <1>4, <1>6 DEF InOrder
  <1> DEFINE made == [i \in 1..n |-> NewCard(topics[selected[i]], 0, <<"proposal", key, selected[i]>>)]
  <1>8. ASSUME NEW i \in 1..n
        PROVE  /\ made[i] = NewCard(topics[selected[i]], 0, <<"proposal", key, selected[i]>>)
               /\ made[i] \in CardRecords /\ made[i].prev = 0 /\ made[i].next = 0
               /\ made[i].origin = <<"proposal", key, selected[i]>>
    <2>1. PICK p \in DOMAIN topics : p = selected[i]
      BY <1>7
    <2>2. topics[p] \in Topics /\ <<"proposal", key, p>> \in Origins
      BY <1>2, <1>3 DEF Origins
    <2> QED
      BY <2>1, <2>2 DEF NewCard, CardRecords
  <1>9. made \in Seq(CardRecords) /\ Len(made) = n /\ DOMAIN made = 1..n
    <2>1. made \in [1..n -> CardRecords]
      BY <1>8
    <2> HIDE DEF made
    <2> QED
      BY <1>5, <2>1
  <1>10. cards' = cards \o made
    BY <1>6, <1>7
  <1>11. \A i, j \in 1..n : selected[i] = selected[j] => i = j
    <2>1. ASSUME NEW i \in 1..n, NEW j \in 1..n, selected[i] = selected[j] PROVE i = j
      <3>1. selected[i] \in Nat /\ selected[j] \in Nat
        BY <1>3, <1>7
      <3>2. ~(i < j) /\ ~(j < i)
        BY <1>7, <2>1, <3>1
      <3> QED
        BY <3>2
    <2> QED
      BY <2>1
  <1> HIDE DEF made
  <1>12. Len(cards) \in Nat /\ DOMAIN cards = 1..Len(cards)
    BY <1>1
  <1>13. /\ cards' \in Seq(CardRecords) /\ Len(cards') = Len(cards) + n
         /\ DOMAIN cards' = 1 .. Len(cards) + n
         /\ \A c \in DOMAIN cards : cards'[c] = cards[c]
         /\ \A d \in DOMAIN cards' \ DOMAIN cards : d - Len(cards) \in 1..n /\ cards'[d] = made[d - Len(cards)]
    <2>1. cards' \in Seq(CardRecords) /\ Len(cards') = Len(cards) + n
      BY <1>1, <1>9, <1>10, ConcatProperties
    <2>2. DOMAIN cards' = 1 .. Len(cards) + n
      BY <2>1
    <2>3. \A c \in DOMAIN cards : cards'[c] = cards[c]
      BY <1>1, <1>9, <1>10
    <2>4. ASSUME NEW d \in DOMAIN cards' \ DOMAIN cards
          PROVE  d - Len(cards) \in 1..n /\ cards'[d] = made[d - Len(cards)]
      <3>1. d \in Nat /\ d > Len(cards) /\ d <= Len(cards) + n /\ d - Len(cards) \in 1..n
        BY <1>5, <1>12, <2>2
      <3> QED
        BY <1>1, <1>9, <1>10, <3>1
    <2> QED
      BY <2>1, <2>2, <2>3, <2>4
  <1>14. Adds
    <2>1. \A c \in DOMAIN cards : c \in DOMAIN cards'
      BY <1>5, <1>12, <1>13
    <2>2. ASSUME NEW d \in DOMAIN cards' \ DOMAIN cards
          PROVE  cards'[d].prev = 0 /\ cards'[d].next = 0
      <3>1. PICK i \in 1..n : cards'[d] = made[i]
        BY <1>13
      <3> QED
        BY <1>8, <3>1
    <2> QED
      BY <1>13, <2>1, <2>2 DEF Adds
  <1>15. \A d \in DOMAIN cards' \ DOMAIN cards : \E p \in DOMAIN topics :
               p \in 1..MaxSuggested /\ cards'[d] = NewCard(topics[p], 0, <<"proposal", key, p>>)
    BY <1>3, <1>7, <1>8, <1>13
  <1>16. ASSUME NEW d \in DOMAIN cards' \ DOMAIN cards, NEW e \in DOMAIN cards' \ DOMAIN cards,
                cards'[d].origin = cards'[e].origin
         PROVE  d = e
    <2>1. PICK i \in 1..n, j \in 1..n : /\ i = d - Len(cards) /\ j = e - Len(cards)
                                       /\ cards'[d] = made[i] /\ cards'[e] = made[j]
      BY <1>13
    <2>2. <<"proposal", key, selected[i]>> = <<"proposal", key, selected[j]>>
      <3>1. /\ made[i].origin = <<"proposal", key, selected[i]>>
            /\ made[j].origin = <<"proposal", key, selected[j]>>
        BY <1>8
      <3>2. made[i].origin = made[j].origin
        BY <1>16, <2>1
      <3> QED
        BY <3>1, <3>2
    <2>3. i = j
      BY <1>11, <2>2
    <2>4. d \in Nat /\ e \in Nat
      BY <1>13
    <2> QED
      BY <1>12, <2>1, <2>3, <2>4
  <1> QED
    BY <1>14, <1>15, <1>16 DEF Made

\* New lineages are no harm to the others.
LEMMA LineagesAdded ==
  ASSUME Rows, LineageInv, Adds, NEW r, NEW ops, Becomes(r, ops), ops \cap LineageOps = {},
         UNCHANGED answering
  PROVE  LineageInv'
  <1>1. /\ Succeeds /\ \A root \in DOMAIN cards : Stays(root)
        /\ \A d \in DOMAIN cards' \ DOMAIN cards : Root(d)' = d
    BY Added DEF Adds, Rows
  <1>2. \A c \in answering' : c \in DOMAIN cards /\ cards[c].active
    BY DEF LineageInv, ActiveOnce
  <1>3. \A c \in DOMAIN cards : ~Unlocked(c) => ((c \in answering') <=> (c \in answering))
    OBVIOUS
  <1> QED
    BY <1>1, <1>2, <1>3, LineagesKept

\* What an archive, a restore or a replacement makes of the table.
LEMMA CommittedRows ==
  ASSUME Rows, LineageInv, NEW r \in Transactions, CommitLineage(r)
  PROVE  \E c \in DOMAIN cards :
            /\ Succeeds
            /\ \A d \in DOMAIN cards : cards[d].next # 0 => cards'[d].next # 0
            /\ \/ DOMAIN cards' = DOMAIN cards
               \/ \E n : /\ DOMAIN cards' = DOMAIN cards \cup {n} /\ n \notin DOMAIN cards
                         /\ cards'[n] = NewCard(cards[c].topic, c, <<"replace", c>>)
                         /\ Root(n)' = Root(c) /\ cards[c].next = 0 /\ cards'[c].next # 0
  <1>1. PICK c : c = txn[r].card
    OBVIOUS
  <1>2. /\ Doing(r, "locked") /\ cards \in Seq(CardRecords) /\ Linked(cards)
    BY DEF CommitLineage, Rows
  <1>3. txn[r].kind \in LineageKinds /\ c \in DOMAIN cards /\ (txn[r].kind = "replace" => cards[c].next = 0)
    BY <1>1, <1>2, DecidedIs
  <1>4. ASSUME NEW active \in BOOLEAN, cards' = [cards EXCEPT ![c].active = active]
        PROVE  Succeeds /\ DOMAIN cards' = DOMAIN cards /\ \A d \in DOMAIN cards : cards'[d].next = cards[d].next
    BY <1>2, <1>3, <1>4, Toggled
  <1>5. CASE txn[r].kind \in {"archive", "restore"}
    <2>1. cards' = [cards EXCEPT ![c].active = FALSE] \/ cards' = [cards EXCEPT ![c].active = TRUE]
      BY <1>1, <1>5 DEF CommitLineage
    <2>2. Succeeds /\ DOMAIN cards' = DOMAIN cards /\ \A d \in DOMAIN cards : cards'[d].next = cards[d].next
      BY <1>4, <2>1
    <2> QED
      BY <1>3, <2>2
  <1>6. CASE txn[r].kind = "replace"
    <2>1. cards' = Replaced(c)
      BY <1>1, <1>6 DEF CommitLineage
    <2>2. PICK n : n = Len(cards) + 1
      OBVIOUS
    <2>3. /\ Succeeds /\ DOMAIN cards' = DOMAIN cards \cup {n} /\ n \notin DOMAIN cards
          /\ cards'[n] = NewCard(cards[c].topic, c, <<"replace", c>>)
          /\ Root(n)' = Root(c) /\ cards'[c].next # 0
          /\ \A d \in DOMAIN cards : d # c => cards'[d] = cards[d]
      BY <1>2, <1>3, <1>6, <2>1, <2>2, ReplacedIs
    <2>4. \A d \in DOMAIN cards : cards[d].next # 0 => cards'[d].next # 0
      BY <2>3
    <2> QED
      BY <1>3, <1>6, <2>3, <2>4
  <1> QED
    BY <1>3, <1>5, <1>6 DEF LineageKinds

-----------------------------------------------------------------------------
(***************************************************************************)
(* One lineage of a topic                                                  *)
(***************************************************************************)
TopicOps == {"activate", "accept"}

\* What has been seen under the topic lock stands while no topic is taken.
LEMMA TopicsKept ==
  ASSUME TopicInv, TopicsAreUnique', UNCHANGED acceptances, \A t : Taken(t)' => Taken(t),
         DOMAIN txn' = Transactions,
         \A q \in Transactions : txn'[q] = txn[q] \/ \A op \in TopicOps : ~Doing(q, op)'
  PROVE  TopicInv'
  <1>1. ASSUME NEW q \in Transactions, HoldsTopics(q)'
        PROVE  txn'[q] = txn[q] /\ HoldsTopics(q)
    BY <1>1 DEF HoldsTopics, Doing, InFlight, TopicOps
  <1>2. ASSUME NEW topics, Stops(topics) = {} PROVE Stops(topics)' = {}
    BY <1>2 DEF Stops, Repeats
  <1>3. ASSUME NEW q \in Transactions PROVE TopicWorkOf(q)'
    <2>1. ASSUME Doing(q, "activate")' PROVE (txn[q].topic \in Topics /\ ~Taken(txn[q].topic))'
      <3>1. txn'[q] = txn[q] /\ Doing(q, "activate")
        BY <1>1, <2>1 DEF HoldsTopics, Doing, InFlight
      <3>2. PICK t : t = txn[q].topic
        OBVIOUS
      <3>3. t \in Topics /\ ~Taken(t)
        BY <3>1, <3>2 DEF TopicInv, TopicWork, TopicWorkOf
      <3>4. ~Taken(t)' /\ txn'[q].topic = t
        BY <3>1, <3>2, <3>3
      <3> QED
        BY <3>3, <3>4
    <2>2. ASSUME Doing(q, "accept")' PROVE (Stops(txn[q].topics) = {} /\ acceptances[txn[q].key] = Missing)'
      <3>1. txn'[q] = txn[q] /\ Doing(q, "accept")
        BY <1>1, <2>2 DEF HoldsTopics, Doing, InFlight
      <3>2. PICK topics, key : topics = txn[q].topics /\ key = txn[q].key
        OBVIOUS
      <3>3. Stops(topics) = {} /\ acceptances[key] = Missing
        BY <3>1, <3>2 DEF TopicInv, TopicWork, TopicWorkOf
      <3>4. Stops(topics)' = {} /\ txn'[q].topics = topics /\ txn'[q].key = key
        BY <1>2, <3>1, <3>2, <3>3
      <3> QED
        BY <3>3, <3>4
    <2> QED
      BY <2>1, <2>2 DEF TopicWorkOf
  <1>4. \A p, q \in Transactions : HoldsTopics(p)' /\ HoldsTopics(q)' => p = q
    BY <1>1 DEF TopicInv, TopicWork
  <1> QED
    BY <1>3, <1>4 DEF TopicInv, TopicWork

\* Requests that do not want the lock, beside a table that stays.
LEMMA TopicsIdle ==
  ASSUME Rows, TopicInv, UNCHANGED <<cards, acceptances>>, NEW r, NEW ops, Becomes(r, ops),
         ops \cap TopicOps = {}
  PROVE  TopicInv'
  <1>1. TopicsAreUnique'
    <2>1. Succeeds
      BY CardsSame
    <2> QED
      BY <2>1 DEF Succeeds, TopicInv, TopicsAreUnique
  <1>2. \A t : Taken(t)' => Taken(t)
    BY DEF Taken
  <1>3. /\ DOMAIN txn' = Transactions
        /\ \A q \in Transactions : txn'[q] = txn[q] \/ \A op \in TopicOps : ~Doing(q, op)'
    BY DEF Becomes, Doing, InFlight
  <1> QED
    BY <1>1, <1>2, <1>3, TopicsKept

\* A replacement has the topic of the card it replaces, so it needs no lock.
LEMMA TopicsCommitted ==
  ASSUME Rows, LineageInv, TopicInv, NEW r \in Transactions, CommitLineage(r), UNCHANGED acceptances
  PROVE  TopicInv'
  <1>1. PICK c \in DOMAIN cards :
            /\ Succeeds
            /\ \/ DOMAIN cards' = DOMAIN cards
               \/ \E n : /\ DOMAIN cards' = DOMAIN cards \cup {n} /\ n \notin DOMAIN cards
                         /\ cards'[n] = NewCard(cards[c].topic, c, <<"replace", c>>)
                         /\ Root(n)' = Root(c)
    BY CommittedRows
  <1>0. ASSUME NEW d \in DOMAIN cards'
        PROVE  \E e \in DOMAIN cards : cards'[d].topic = cards[e].topic /\ Root(d)' = Root(e)
    <2>1. CASE d \in DOMAIN cards
      BY <1>1, <2>1 DEF Succeeds
    <2>2. CASE d \notin DOMAIN cards
      <3>1. cards'[d] = NewCard(cards[c].topic, c, <<"replace", c>>) /\ Root(d)' = Root(c)
        BY <1>1, <2>2
      <3>2. cards'[d].topic = cards[c].topic
        BY <3>1 DEF NewCard
      <3> QED
        BY <3>1, <3>2
    <2> QED
      BY <2>1, <2>2
  <1>2. \A t : Taken(t)' => Taken(t)
    BY <1>0 DEF Taken
  <1>3. TopicsAreUnique'
    BY <1>0 DEF TopicInv, TopicsAreUnique
  <1>4. txn'[r] = Missing /\ Becomes(r, {})
    BY FinishIs DEF CommitLineage, Rows
  <1>5. /\ DOMAIN txn' = Transactions
        /\ \A q \in Transactions : txn'[q] = txn[q] \/ \A op \in TopicOps : ~Doing(q, op)'
    BY <1>4 DEF Becomes, Doing, InFlight
  <1> QED
    BY <1>2, <1>3, <1>5, TopicsKept

\* A request that gets the lock has it alone.
LEMMA TopicsLocked ==
  ASSUME Rows, TopicInv, UNCHANGED <<cards, acceptances>>, NEW r \in Transactions, TopicsUnlocked(r),
         NEW ops, Becomes(r, ops), TopicWorkOf(r)'
  PROVE  TopicInv'
  <1>1. TopicsAreUnique'
    <2>1. Succeeds
      BY CardsSame
    <2> QED
      BY <2>1 DEF Succeeds, TopicInv, TopicsAreUnique
  <1>2. ASSUME NEW q \in Transactions \ {r} PROVE ~HoldsTopics(q)' /\ TopicWorkOf(q)'
    <2>1. ~HoldsTopics(q)'
      BY DEF Becomes, TopicsUnlocked, HoldsTopics, Doing, InFlight
    <2> QED
      BY <2>1 DEF HoldsTopics, TopicWorkOf
  <1> QED
    BY <1>1, <1>2 DEF TopicInv, TopicWork

\* The holder of the lock is done: nobody has it.
LEMMA TopicsReleased ==
  ASSUME TopicInv, TopicsAreUnique', NEW r \in Transactions, HoldsTopics(r), Becomes(r, {}), txn'[r] = Missing
  PROVE  TopicInv'
  <1>1. ASSUME NEW q \in Transactions PROVE ~HoldsTopics(q)' /\ TopicWorkOf(q)'
    <2>1. ~HoldsTopics(q)'
      <3>1. CASE q = r
        BY <3>1 DEF HoldsTopics, Doing, InFlight
      <3>2. CASE q # r
        BY <3>2 DEF Becomes, TopicInv, TopicWork, HoldsTopics, Doing, InFlight
      <3> QED
        BY <3>1, <3>2
    <2> QED
      BY <2>1 DEF HoldsTopics, TopicWorkOf
  <1> QED
    BY <1>1 DEF TopicInv, TopicWork

\* Captures that are activated.
LEMMA TopicsCaptured ==
  ASSUME Rows, TopicInv, CaptureWork, NEW r \in Transactions, CaptureStep(r), UNCHANGED acceptances
  PROVE  TopicInv'
  <1>1. DOMAIN txn = Transactions /\ Linked(cards)
    BY DEF Rows
  <1>2. Becomes(r, CaptureOps)
    BY <1>1, CaptureFrame
  <1>3. CASE UNCHANGED cards /\ ~Doing(r, "activate")'
    <2>1. Becomes(r, CaptureOps \ TopicOps)
      BY <1>2, <1>3 DEF Becomes, CaptureOps, TopicOps, Doing, InFlight
    <2> QED
      BY <1>3, <2>1, TopicsIdle
  <1>4. CASE CheckActivation(r)
    <2>1. PICK k : k = txn[r].capture
      OBVIOUS
    <2>2. Doing(r, "activating") /\ TopicsUnlocked(r) /\ UNCHANGED cards
      BY <1>4 DEF CheckActivation
    <2>3. CASE Activates(captures[k]) /\ Keep(r, [op |-> "activate", capture |-> k, topic |-> captures[k].topic])
      <3>1. PICK t : t = captures[k].topic
        OBVIOUS
      <3>2. k \in Captures /\ captures[k] \in CaptureRows
        BY <2>1, <2>2 DEF CaptureWork, CaptureWorkOf, Activating, HasRow, Rows
      <3>3. t \in Topics /\ ~Taken(t)
        BY <2>3, <3>1, <3>2 DEF Activates, CaptureRows
      <3>4. txn'[r] = [op |-> "activate", capture |-> k, topic |-> t]
        BY <1>1, <2>3, <3>1 DEF Keep
      <3>5. ~Taken(t)'
        BY <2>2, <3>3 DEF Taken
      <3>6. TopicWorkOf(r)'
        BY <3>3, <3>4, <3>5 DEF TopicWorkOf, Doing
      <3> QED
        BY <1>2, <2>2, <3>6, TopicsLocked
    <2>4. CASE Finish(r)
      <3>1. ~Doing(r, "activate")'
        BY <1>1, <2>4, FinishIs, Done
      <3> QED
        BY <1>3, <2>2, <3>1
    <2> QED
      BY <1>4, <2>1, <2>3, <2>4 DEF CheckActivation
  <1>5. CASE CommitActivation(r)
    <2>1. PICK t, k : t = txn[r].topic /\ k = txn[r].capture
      OBVIOUS
    <2>2. Doing(r, "activate") /\ Finish(r)
      BY <1>5 DEF CommitActivation
    <2>3. ~Taken(t)
      BY <2>1, <2>2 DEF TopicInv, TopicWork, TopicWorkOf
    <2>4. PICK n : /\ Adds /\ DOMAIN cards' = DOMAIN cards \cup {n} /\ n \notin DOMAIN cards
                   /\ cards'[n] = NewCard(t, 0, <<"capture", k>>)
      BY <1>5, <2>1, ActivationAdds DEF TopicInv
    <2>5. Succeeds
      BY <2>4, Added DEF Adds, Rows
    <2>6. TopicsAreUnique'
      <3>1. ASSUME NEW c \in DOMAIN cards', NEW d \in DOMAIN cards', cards'[c].topic = cards'[d].topic
            PROVE  Root(c)' = Root(d)'
        <4>1. CASE c \in DOMAIN cards /\ d \in DOMAIN cards
          BY <2>5, <3>1, <4>1 DEF Succeeds, TopicInv, TopicsAreUnique
        <4>2. CASE c = n /\ d = n
          BY <4>2
        <4>3. \A e \in DOMAIN cards : cards'[e].topic # t
          BY <2>3, <2>5 DEF Succeeds, Taken
        <4>4. cards'[n].topic = t
          BY <2>4 DEF NewCard
        <4> QED
          BY <2>4, <3>1, <4>1, <4>2, <4>3, <4>4
      <3> QED
        BY <3>1 DEF TopicsAreUnique
    <2>7. HoldsTopics(r) /\ Becomes(r, {}) /\ txn'[r] = Missing
      BY <1>1, <2>2, FinishIs DEF HoldsTopics
    <2> QED
      BY <2>6, <2>7, TopicsReleased
  <1>6. ASSUME NEW k \in Captures, EditCapture(r, k) PROVE TopicInv'
    BY <1>1, <1>3, <1>6 DEF EditCapture, Keep, Doing
  <1>7. ASSUME NEW k \in Captures, NEW regenerate \in BOOLEAN, AskQuestion(r, k, regenerate) PROVE TopicInv'
    BY <1>1, <1>3, <1>7 DEF AskQuestion, Keep, Doing
  <1>8. ASSUME NEW k \in Captures, DiscardCapture(r, k) \/ LockCapture(r, k) PROVE TopicInv'
    BY <1>1, <1>3, <1>8 DEF DiscardCapture, LockCapture, Keep, Doing
  <1>9. CASE CommitCapture(r) \/ CommitDiscard(r)
    <2>1. UNCHANGED cards /\ Finish(r)
      BY <1>9 DEF CommitCapture, CommitDiscard
    <2> QED
      BY <1>1, <1>3, <2>1, FinishIs, Done
  <1> QED
    BY <1>4, <1>5, <1>6, <1>7, <1>8, <1>9 DEF CaptureStep

\* Proposals that are accepted.
LEMMA TopicsProposed ==
  ASSUME Rows, TopicInv, ItemWork, NEW r \in Transactions, ProposalStep(r)
  PROVE  TopicInv'
  <1>1. DOMAIN txn = Transactions /\ Linked(cards)
    BY DEF Rows
  <1>2. Becomes(r, ProposalOps)
    BY <1>1, ProposalFrame
  <1>3. CASE UNCHANGED <<cards, acceptances>> /\ ~Doing(r, "accept")'
    <2>1. Becomes(r, ProposalOps \ TopicOps)
      BY <1>2, <1>3 DEF Becomes, ProposalOps, TopicOps, Doing, InFlight
    <2> QED
      BY <1>3, <2>1, TopicsIdle
  <1>4. CASE CheckAcceptance(r)
    <2>1. PICK key, topics : key = txn[r].key /\ topics = txn[r].topics
      OBVIOUS
    <2>2. Doing(r, "accepting") /\ TopicsUnlocked(r) /\ UNCHANGED <<cards, acceptances>>
      BY <1>4 DEF CheckAcceptance
    <2>3. CASE /\ ~Replays(key, topics) /\ ~Reused(key, topics) /\ Stops(topics) = {}
               /\ Keep(r, [txn[r] EXCEPT !.op = "accept"])
      <3>1. txn'[r] = [txn[r] EXCEPT !.op = "accept"]
        BY <1>1, <2>3 DEF Keep
      <3>2. /\ txn'[r].op = "accept" \/ txn'[r] = Missing
            /\ txn'[r].key = key /\ txn'[r].topics = topics
        BY <2>1, <3>1
      <3>3. acceptances[key] = Missing
        BY <2>3 DEF Replays, Reused
      <3>4. Stops(topics)' = {}
        BY <2>2, <2>3 DEF Stops, Repeats, Taken
      <3>5. TopicWorkOf(r)'
        BY <2>2, <3>2, <3>3, <3>4 DEF TopicWorkOf, Doing, InFlight
      <3> QED
        BY <1>2, <2>2, <3>5, TopicsLocked
    <2>4. CASE Finish(r)
      <3>1. ~Doing(r, "accept")'
        BY <1>1, <2>4, FinishIs, Done
      <3> QED
        BY <1>3, <2>2, <3>1
    <2> QED
      BY <1>4, <2>1, <2>3, <2>4 DEF CheckAcceptance, ReplaysUnderLock
  <1>5. CASE CommitAcceptance(r)
    <2>1. PICK key, topics : key = txn[r].key /\ topics = txn[r].topics
      OBVIOUS
    <2>2. Doing(r, "accept") /\ Finish(r)
      BY <1>5 DEF CommitAcceptance
    <2>3. Stops(topics) = {}
      BY <2>1, <2>2 DEF TopicInv, TopicWork, TopicWorkOf
    <2>4. Adds /\ Made(key, topics)
      BY <1>5, <2>1, AcceptanceAdds
    <2>5. Succeeds
      BY <2>4, Added DEF Adds, Rows
    <2>6. \A p \in DOMAIN topics : ~Taken(topics[p]) /\ ~Repeats(topics, p)
      BY <2>3 DEF Stops
    <2>7. \A d \in DOMAIN cards' \ DOMAIN cards : \E p \in DOMAIN topics :
             p \in 1..MaxSuggested /\ cards'[d].topic = topics[p] /\ cards'[d].origin = <<"proposal", key, p>>
      BY <2>4 DEF Made, NewCard
    <2>8. TopicsAreUnique'
      <3>1. ASSUME NEW c \in DOMAIN cards', NEW d \in DOMAIN cards', cards'[c].topic = cards'[d].topic
            PROVE  Root(c)' = Root(d)'
        <4>1. CASE c \in DOMAIN cards /\ d \in DOMAIN cards
          BY <2>5, <3>1, <4>1 DEF Succeeds, TopicInv, TopicsAreUnique
        <4>2. ASSUME NEW e \in DOMAIN cards, NEW f \in DOMAIN cards' \ DOMAIN cards
              PROVE  cards'[e].topic # cards'[f].topic
          BY <2>5, <2>6, <2>7 DEF Succeeds, Taken
        <4>3. CASE c \notin DOMAIN cards /\ d \notin DOMAIN cards
          <5>1. PICK p \in DOMAIN topics : p \in 1..MaxSuggested /\ cards'[c].topic = topics[p]
                                           /\ cards'[c].origin = <<"proposal", key, p>>
            BY <2>7, <4>3
          <5>2. PICK q \in DOMAIN topics : q \in 1..MaxSuggested /\ cards'[d].topic = topics[q]
                                           /\ cards'[d].origin = <<"proposal", key, q>>
            BY <2>7, <4>3
          <5>3. ~(p < q) /\ ~(q < p)
            BY <2>6, <3>1, <5>1, <5>2 DEF Repeats
          <5>4. p = q
            BY <5>1, <5>2, <5>3
          <5>5. c = d
            BY <2>4, <4>3, <5>1, <5>2, <5>4 DEF Made
          <5> QED
            BY <5>5
        <4> QED
          BY <3>1, <4>1, <4>2, <4>3
      <3> QED
        BY <3>1 DEF TopicsAreUnique
    <2>9. HoldsTopics(r) /\ Becomes(r, {}) /\ txn'[r] = Missing
      BY <1>1, <2>2, FinishIs DEF HoldsTopics
    <2> QED
      BY <2>8, <2>9, TopicsReleased
  <1>6. CASE WantsProposals(r)
    BY <1>1, <1>3, <1>6 DEF WantsProposals, Keep, Doing, proposalVars
  <1>7. CASE LockAccount(r)
    <2>1. CASE Finish(r)
      BY <1>1, <1>3, <1>7, <2>1, FinishIs, Done DEF LockAccount, proposalVars
    <2>2. CASE Keep(r, [op |-> "proposing"])
      BY <1>1, <1>3, <1>7, <2>2 DEF LockAccount, Keep, Doing, proposalVars
    <2> QED
      BY <1>7, <2>1, <2>2 DEF LockAccount
  <1>8. CASE CommitProposals(r)
    BY <1>1, <1>3, <1>8, FinishIs, Done DEF CommitProposals
  <1>9. ASSUME NEW key \in Keys, NEW topics \in Selections, ReadAcceptance(r, key, topics)
        PROVE  TopicInv'
    <2>1. CASE Keep(r, [op |-> "accepting", key |-> key, topics |-> topics])
      BY <1>1, <1>3, <1>9, <2>1 DEF ReadAcceptance, Keep, Doing
    <2>2. CASE UNCHANGED txn
      BY <1>1, <1>3, <1>9, <2>2 DEF ReadAcceptance, Doing, InFlight
    <2> QED
      BY <1>9, <2>1, <2>2 DEF ReadAcceptance
  <1> QED
    BY <1>4, <1>5, <1>6, <1>7, <1>8, <1>9 DEF ProposalStep

-----------------------------------------------------------------------------
(***************************************************************************)
(* One batch of proposals                                                  *)
(***************************************************************************)
ItemOps == {"proposing", "accepting", "accept"}

\* The proposals are the same ones.
ProposalsStay ==
    /\ DOMAIN proposals' = DOMAIN proposals /\ proposals' = [p \in DOMAIN proposals' |-> proposals'[p]]
    /\ \A p \in DOMAIN proposals : proposals'[p].batch = proposals[p].batch
    /\ proposals = << >> => proposals' = << >>

\* Rows that nobody writes are the same ones.
LEMMA ProposalsSame ==
  ASSUME Rows, UNCHANGED proposals
  PROVE  ProposalsStay
  BY DEF Rows, ProposalsStay

\* One of them gets another disposition.
LEMMA ProposalMarked ==
  ASSUME Rows, NEW p, NEW disposition, proposals' = [proposals EXCEPT ![p].disposition = disposition]
  PROVE  ProposalsStay
  <1>1. /\ DOMAIN proposals' = DOMAIN proposals /\ proposals' = [i \in DOMAIN proposals' |-> proposals'[i]]
    BY DEF Rows
  <1>2. \A i \in DOMAIN proposals : proposals'[i].batch = proposals[i].batch
    OBVIOUS
  <1>3. ASSUME proposals = << >> PROVE proposals' = << >>
    <2>1. DOMAIN proposals' = {}
      BY <1>1, <1>3
    <2> QED
      BY <1>1, <2>1
  <1> QED
    BY <1>1, <1>2, <1>3 DEF ProposalsStay

\* The ones that are accepted do.
LEMMA ProposalsAccepted ==
  ASSUME NEW r, CommitAcceptance(r)
  PROVE  ProposalsStay
  <1>1. PICK topics : topics = txn[r].topics
    OBVIOUS
  <1>2. proposals' = [p \in DOMAIN proposals |->
               IF p \in DOMAIN topics THEN [proposals[p] EXCEPT !.disposition = "accepted"] ELSE proposals[p]]
    BY <1>1 DEF CommitAcceptance
  <1>3. DOMAIN proposals' = DOMAIN proposals /\ proposals' = [i \in DOMAIN proposals' |-> proposals'[i]]
    BY <1>2
  <1>4. \A i \in DOMAIN proposals : proposals'[i].batch = proposals[i].batch
    BY <1>2
  <1>5. ASSUME proposals = << >> PROVE proposals' = << >>
    <2>1. DOMAIN proposals' = {}
      BY <1>3, <1>5
    <2> QED
      BY <1>3, <2>1
  <1> QED
    BY <1>3, <1>4, <1>5 DEF ProposalsStay

\* What has been promised by a key, and the requests about the item.
KeysStand == \A key \in Keys : acceptances[key] # Missing => outcomes[key] = "committed"

\* A step of one request that proposes nothing keeps what holds of the item.
LEMMA ItemsKept ==
  ASSUME ItemWork, ProposalsStay, KeysStand', NEW r \in Transactions, NEW ops, Becomes(r, ops),
         ItemWorkOf(r)', ~Doing(r, "proposing")'
  PROVE  ItemWork'
  <1>1. ASSUME NEW q \in Transactions PROVE ItemWorkOf(q)'
    <2>1. CASE q # r
      <3>1. txn'[q] = txn[q] /\ ItemWorkOf(q)
        BY <2>1 DEF Becomes, ItemWork
      <3> QED
        BY <3>1 DEF ItemWorkOf, Doing, InFlight
    <2> QED
      BY <2>1
  <1>2. ASSUME NEW q \in Transactions, Doing(q, "proposing")' PROVE Doing(q, "proposing")
    BY <1>2 DEF Becomes, Doing, InFlight
  <1>3. \A q \in Transactions : Doing(q, "proposing")' => proposals' = << >>
    BY <1>2 DEF ItemWork, ProposalsStay
  <1>4. \A p \in DOMAIN proposals' : proposals'[p].batch = 0
    BY DEF ItemWork, ProposalsStay
  <1> QED
    BY <1>1, <1>2, <1>3, <1>4 DEF ItemWork, KeysStand

\* A request that is about something else.
LEMMA ItemsIdle ==
  ASSUME Rows, ItemWork, UNCHANGED <<proposals, acceptances, outcomes>>,
         NEW r \in Transactions, NEW ops, Becomes(r, ops), ops \cap ItemOps = {}
  PROVE  ItemWork'
  <1>1. ItemWorkOf(r)' /\ ~Doing(r, "proposing")'
    BY DEF Becomes, ItemOps, ItemWorkOf, Doing, InFlight
  <1>2. KeysStand'
    BY DEF KeysStand, ItemWork
  <1> QED
    BY <1>1, <1>2, ItemsKept, ProposalsSame

\* The user answers an overlap.
LEMMA ItemsResolved ==
  ASSUME Rows, ItemWork, Resolving
  PROVE  ItemWork' /\ ProposalsStay
  <1>1. PICK p \in DOMAIN proposals, choice \in {"keep_new", "use_existing", "skip"} : Resolve(p, choice)
    BY DEF Resolving
  <1>2. PICK disposition : proposals' = [proposals EXCEPT ![p].disposition = disposition]
    BY <1>1 DEF Resolve
  <1>3. ProposalsStay
    BY <1>2, ProposalMarked
  <1>4. UNCHANGED <<txn, acceptances, outcomes>>
    BY <1>1 DEF Resolve
  <1>5. ASSUME NEW q \in Transactions PROVE ItemWorkOf(q)' /\ (Doing(q, "proposing")' <=> Doing(q, "proposing"))
    BY <1>4 DEF ItemWork, ItemWorkOf, Doing, InFlight
  <1>6. \A p1 \in DOMAIN proposals' : proposals'[p1].batch = 0
    BY <1>3 DEF ItemWork, ProposalsStay
  <1>7. \A q \in Transactions : Doing(q, "proposing")' => proposals' = << >>
    BY <1>3, <1>5 DEF ItemWork, ProposalsStay
  <1> QED
    BY <1>3, <1>4, <1>5, <1>6, <1>7 DEF ItemWork

\* A generated batch is the item's only one.
LEMMA ItemsGenerated ==
  ASSUME Rows, ItemWork, NEW r \in Transactions, CommitProposals(r)
  PROVE  /\ ItemWork'
         /\ proposals' = [p \in DOMAIN proposals' |-> proposals'[p]] /\ DOMAIN proposals' \subseteq 1..MaxSuggested
  <1>1. /\ DOMAIN txn = Transactions /\ Doing(r, "proposing") /\ Finish(r) /\ UNCHANGED <<acceptances, outcomes>>
    BY DEF Rows, CommitProposals
  <1>2. proposals = << >>
    BY <1>1 DEF ItemWork
  <1>3. PICK batch \in SeqOf(Candidates, MaxSuggested) :
           proposals' = proposals \o [i \in DOMAIN batch |-> Proposal(batch[i], Len(proposals))]
    BY DEF CommitProposals
  <1>4. PICK n \in 0..MaxSuggested : batch \in [1..n -> Candidates]
    BY DEF SeqOf
  <1> DEFINE made == [i \in 1..n |-> Proposal(batch[i], 0)]
  <1>5. proposals' = << >> \o made
    BY <1>2, <1>3, <1>4
  <1>6. n \in Nat
    BY <1>4, ProposalsAssumption
  <1>7. \A i \in 1..n : made[i].batch = 0
    BY DEF Proposal
  <1>8. made = [i \in 1..n |-> made[i]] /\ DOMAIN made = 1..n
    OBVIOUS
  <1> HIDE DEF made
  <1>9. made \in Seq({made[i] : i \in 1..n})
    <2>1. made \in [1..n -> {made[i] : i \in 1..n}]
      BY <1>8
    <2> QED
      BY <1>6, <2>1
  <1>10. proposals' = made
    BY <1>5, <1>9, ConcatEmptySeq
  <1>11. proposals' = [p \in DOMAIN proposals' |-> proposals'[p]] /\ DOMAIN proposals' \subseteq 1..MaxSuggested
    BY <1>4, <1>6, <1>8, <1>10, ProposalsAssumption
  <1>12. \A p \in DOMAIN proposals' : proposals'[p].batch = 0
    BY <1>7, <1>8, <1>10
  <1>13. Becomes(r, {}) /\ txn'[r] = Missing
    BY <1>1, FinishIs
  <1>14. ASSUME NEW q \in Transactions PROVE ItemWorkOf(q)' /\ ~Doing(q, "proposing")'
    <2>1. CASE q = r
      BY <1>13, <2>1, Done DEF ItemWorkOf
    <2>2. CASE q # r
      BY <1>1, <1>13, <2>2 DEF Becomes, ItemWork, ItemWorkOf, Doing, InFlight
    <2> QED
      BY <2>1, <2>2
  <1> QED
    BY <1>1, <1>11, <1>12, <1>14 DEF ItemWork

\* Requests about the proposals.
LEMMA ItemsProposed ==
  ASSUME Rows, ItemWork, TopicWork, NEW r \in Transactions, ProposalStep(r)
  PROVE  /\ ItemWork'
         /\ proposals' = [p \in DOMAIN proposals' |-> proposals'[p]] /\ DOMAIN proposals' \subseteq 1..MaxSuggested
  <1>1. DOMAIN txn = Transactions /\ KeysStand
    BY DEF Rows, ItemWork, KeysStand
  <1>2. Becomes(r, ProposalOps)
    BY <1>1, ProposalFrame
  <1>3. ASSUME ProposalsStay
        PROVE  proposals' = [p \in DOMAIN proposals' |-> proposals'[p]] /\ DOMAIN proposals' \subseteq 1..MaxSuggested
    BY <1>3 DEF ProposalsStay, Rows
  <1>4. CASE WantsProposals(r) \/ (LockAccount(r) /\ Finish(r))
    <2>1. UNCHANGED <<proposals, acceptances, outcomes>>
      BY <1>4 DEF WantsProposals, LockAccount, proposalVars
    <2>2. \A op \in ItemOps : ~Doing(r, op)'
      <3>1. CASE WantsProposals(r)
        BY <1>1, <3>1 DEF WantsProposals, Keep, ItemOps, Doing
      <3>2. CASE Finish(r)
        BY <1>1, <3>2, FinishIs, Done
      <3> QED
        BY <1>4, <3>1, <3>2
    <2>3. Becomes(r, ProposalOps \ ItemOps)
      BY <1>2, <2>2 DEF Becomes, ProposalOps, ItemOps, Doing, InFlight
    <2>4. ItemWork'
      BY <2>1, <2>3, ItemsIdle
    <2> QED
      BY <1>3, <2>1, <2>4, ProposalsSame
  <1>5. CASE LockAccount(r) /\ StillMissing /\ Keep(r, [op |-> "proposing"])
    <2>1. UNCHANGED <<proposals, acceptances, outcomes>> /\ AccountUnlocked /\ proposals = << >>
      BY <1>5 DEF LockAccount, StillMissing, proposalVars
    <2>2. ProposalsStay
      BY <2>1, ProposalsSame
    <2>3. \A q \in Transactions \ {r} : txn'[q] = txn[q] /\ ~Doing(q, "proposing")
      BY <1>2, <2>1 DEF Becomes, AccountUnlocked, Doing
    <2>4. \A p, q \in Transactions : Doing(p, "proposing")' /\ Doing(q, "proposing")' => p = q
      BY <2>3 DEF Doing, InFlight
    <2>5. txn'[r].op = "proposing"
      BY <1>1, <1>5 DEF Keep
    <2>6. ASSUME NEW q \in Transactions PROVE ItemWorkOf(q)'
      <3>1. CASE q = r
        BY <2>5, <3>1 DEF ItemWorkOf, Doing
      <3>2. CASE q # r
        <4>1. ItemWorkOf(q) /\ txn'[q] = txn[q]
          BY <2>3, <3>2 DEF ItemWork
        <4> QED
          BY <4>1 DEF ItemWorkOf, Doing, InFlight
      <3> QED
        BY <3>1, <3>2
    <2> QED
      BY <1>3, <2>1, <2>2, <2>4, <2>6 DEF ItemWork
  <1>6. ASSUME NEW key \in Keys, NEW topics \in Selections, ReadAcceptance(r, key, topics)
        PROVE  ItemWork' /\ UNCHANGED proposals
    <2>1. UNCHANGED <<proposals, acceptances>> /\ txn[r] = Missing
      BY <1>6 DEF ReadAcceptance
    <2>2. CASE Keep(r, [op |-> "accepting", key |-> key, topics |-> topics]) /\ UNCHANGED outcomes
      <3>1. topics \in Selected
        BY DEF Selections, Selected, Rows
      <3>2. txn'[r] = [op |-> "accepting", key |-> key, topics |-> topics]
        BY <1>1, <2>2 DEF Keep
      <3>3. ItemWorkOf(r)' /\ ~Doing(r, "proposing")'
        BY <3>1, <3>2 DEF ItemWorkOf, Doing
      <3>4. KeysStand'
        BY <1>1, <2>1, <2>2 DEF KeysStand
      <3> QED
        BY <1>2, <2>1, <3>3, <3>4, ItemsKept, ProposalsSame
    <2>3. CASE Ended(key, "committed") /\ UNCHANGED txn
      <3>1. KeysStand'
        BY <1>1, <2>1, <2>3 DEF KeysStand, Ended, Rows
      <3>2. ItemWorkOf(r)' /\ ~Doing(r, "proposing")'
        BY <2>1, <2>3 DEF ItemWorkOf, Doing, InFlight
      <3> QED
        BY <1>2, <2>1, <3>1, <3>2, ItemsKept, ProposalsSame
    <2> QED
      BY <1>6, <2>1, <2>2, <2>3 DEF ReadAcceptance
  <1>7. CASE CheckAcceptance(r)
    <2>1. PICK key, topics : key = txn[r].key /\ topics = txn[r].topics
      OBVIOUS
    <2>2. Doing(r, "accepting") /\ UNCHANGED acceptances
      BY <1>7 DEF CheckAcceptance
    <2>3. key \in Keys /\ topics \in Selected
      BY <2>1, <2>2 DEF ItemWork, ItemWorkOf
    <2>4. ItemWorkOf(r)' /\ ~Doing(r, "proposing")'
      <3>1. CASE Finish(r)
        BY <1>1, <3>1, FinishIs, Done DEF ItemWorkOf
      <3>2. CASE Keep(r, [txn[r] EXCEPT !.op = "accept"])
        <4>1. txn'[r] = [txn[r] EXCEPT !.op = "accept"]
          BY <1>1, <3>2 DEF Keep
        <4>2. /\ txn'[r].op = "accept" \/ txn'[r] = Missing
              /\ txn'[r].key = key /\ txn'[r].topics = topics
          BY <2>1, <4>1
        <4> QED
          BY <2>3, <4>2 DEF ItemWorkOf, Doing, InFlight
      <3> QED
        BY <1>7, <3>1, <3>2 DEF CheckAcceptance
    <2>5. ProposalsStay
      <3>1. CASE UNCHANGED proposals
        BY <3>1, ProposalsSame
      <3>2. CASE proposals' = [proposals EXCEPT ![Min(Stops(topics))].disposition = "existing"]
        BY <3>2, ProposalMarked
      <3> QED
        BY <1>7, <2>1, <3>1, <3>2 DEF CheckAcceptance
    <2>6. KeysStand'
      <3>1. CASE UNCHANGED outcomes
        BY <1>1, <2>2, <3>1 DEF KeysStand
      <3>2. CASE Ended(key, "committed")
        BY <1>1, <2>2, <3>2 DEF KeysStand, Ended, Rows
      <3>3. CASE ~Replays(key, topics) /\ ~Reused(key, topics) /\ Ended(key, "clash")
        <4>1. acceptances[key] = Missing
          BY <3>3 DEF Replays, Reused
        <4> QED
          BY <1>1, <2>2, <3>3, <4>1 DEF KeysStand, Ended, Rows
      <3> QED
        BY <1>7, <2>1, <3>1, <3>2, <3>3 DEF CheckAcceptance, ReplaysUnderLock
    <2> QED
      BY <1>2, <1>3, <2>4, <2>5, <2>6, ItemsKept
  <1>8. CASE CommitAcceptance(r)
    <2>1. PICK key, topics : key = txn[r].key /\ topics = txn[r].topics
      OBVIOUS
    <2>2. /\ Doing(r, "accept") /\ Finish(r) /\ acceptances' = [acceptances EXCEPT ![key] = topics]
          /\ Ended(key, "committed")
      BY <1>8, <2>1 DEF CommitAcceptance
    <2>3. ItemWorkOf(r)' /\ ~Doing(r, "proposing")'
      BY <1>1, <2>2, FinishIs, Done DEF ItemWorkOf
    <2>4. KeysStand'
      BY <1>1, <2>2 DEF KeysStand, Ended, Rows
    <2> QED
      BY <1>2, <1>3, <1>8, <2>3, <2>4, ItemsKept, ProposalsAccepted
  <1>9. CASE CommitProposals(r)
    BY <1>9, ItemsGenerated
  <1>10. CASE WantsProposals(r) \/ LockAccount(r)
    BY <1>4, <1>5, <1>10 DEF LockAccount
  <1>11. ASSUME NEW key \in Keys, NEW topics \in Selections, ReadAcceptance(r, key, topics)
         PROVE  /\ ItemWork'
                /\ proposals' = [p \in DOMAIN proposals' |-> proposals'[p]]
                /\ DOMAIN proposals' \subseteq 1..MaxSuggested
    BY <1>3, <1>6, <1>11, ProposalsSame
  <1> QED
    BY <1>7, <1>8, <1>9, <1>10, <1>11 DEF ProposalStep

-----------------------------------------------------------------------------
(***************************************************************************)
(* The debrief                                                             *)
(***************************************************************************)
\* Requests that write no debrief.
LEMMA DebriefIdle ==
  ASSUME DebriefWork, UNCHANGED <<debrief, promised>>, NEW r, NEW ops, Becomes(r, ops), ops \cap DebriefOps = {}
  PROVE  DebriefWork'
  <1>1. \A q \in Transactions : Doing(q, "save")' \/ Doing(q, "submit")' =>
           txn'[q] = txn[q] /\ (Doing(q, "save") \/ Doing(q, "submit"))
    BY DEF Becomes, Doing, InFlight, DebriefOps
  <1> QED
    BY <1>1 DEF DebriefWork, DebriefStands, Submitted

\* Requests that do write over one that is not submitted.
LEMMA DebriefKept ==
  ASSUME Rows, DebriefWork, NEW r \in Transactions, DebriefStep(r)
  PROVE  DebriefWork' /\ debrief' \in Debriefs \cup {Missing}
  <1>1. DOMAIN txn = Transactions /\ debrief \in Debriefs \cup {Missing}
    BY DEF Rows
  <1>2. Becomes(r, DebriefOps)
    BY <1>1, DebriefFrame
  <1>3. PICK text : text = txn[r].text
    OBVIOUS
  <1>4. ASSUME txn'[r] = Missing \/ txn'[r].text \in Texts
        PROVE  \A q \in Transactions : Doing(q, "save")' \/ Doing(q, "submit")' => txn'[q].text \in Texts
    BY <1>2, <1>4 DEF Becomes, DebriefWork, Doing, InFlight
  <1>5. ASSUME NEW op \in {"save", "submit"}, NEW t \in Texts, OpenDebrief(r, op, t)
        PROVE  DebriefWork' /\ debrief' \in Debriefs \cup {Missing}
    <2>1. UNCHANGED <<debrief, promised>> /\ txn'[r].text \in Texts
      BY <1>1, <1>5 DEF OpenDebrief, Keep, proposalVars
    <2> QED
      BY <1>1, <1>4, <2>1 DEF DebriefWork, DebriefStands, Submitted
  <1>6. ASSUME NEW step, Writing(r, step) PROVE text \in Texts
    BY <1>3, <1>6 DEF Writing, DebriefWork
  <1>7. ASSUME Finish(r) \/ Retries(r) \/ (\E to : Keep(r, [txn[r] EXCEPT !.step = to])), text \in Texts
        PROVE  txn'[r] = Missing \/ txn'[r].text \in Texts
    <2>1. CASE Finish(r)
      BY <1>1, <2>1, FinishIs
    <2>2. CASE \E to : Keep(r, [txn[r] EXCEPT !.step = to])
      BY <1>1, <1>3, <1>7, <2>2 DEF Keep
    <2>3. CASE Keep(r, [txn[r] EXCEPT !.step = "update", !.left = @ - 1])
      BY <1>1, <1>3, <1>7, <2>3 DEF Keep
    <2> QED
      BY <1>7, <2>1, <2>2, <2>3 DEF Retries
  <1>8. ASSUME promised = {}, Promise(r), NEW submitted \in BOOLEAN, submitted = (txn[r].op = "submit"),
               debrief' = Debrief(text, submitted), text \in Texts
        PROVE  DebriefStands' /\ debrief' \in Debriefs \cup {Missing}
    <2>1. debrief' \in Debriefs /\ debrief'.text = text /\ debrief'.submitted = submitted
      BY <1>8 DEF Debrief, Debriefs
    <2>2. debrief' # Missing
      BY <2>1, ItemAssumption
    <2>3. promised' = IF submitted THEN {text} ELSE {}
      BY <1>3, <1>8 DEF Promise
    <2>4. DebriefStands'
      BY <2>1, <2>2, <2>3 DEF DebriefStands, Submitted
    <2> QED
      BY <2>1, <2>4
  <1>9. ASSUME ~Submitted PROVE promised = {}
    BY <1>9 DEF DebriefWork, DebriefStands
  <1>10. PICK submitted \in BOOLEAN : submitted = (txn[r].op = "submit")
    OBVIOUS
  <1>11. CASE UpdateDebrief(r)
    <2>1. text \in Texts
      BY <1>6, <1>11 DEF UpdateDebrief
    <2>2. txn'[r] = Missing \/ txn'[r].text \in Texts
      BY <1>7, <1>11, <2>1 DEF UpdateDebrief
    <2>3. CASE Updates
      <3>1. promised = {}
        BY <1>9, <2>3 DEF Updates, Submitted
      <3>2. debrief' = Debrief(text, submitted) /\ Promise(r)
        BY <1>3, <1>10, <1>11, <2>3 DEF UpdateDebrief
      <3>3. DebriefStands' /\ debrief' \in Debriefs \cup {Missing}
        BY <1>8, <1>10, <2>1, <3>1, <3>2
      <3> QED
        BY <1>4, <2>2, <3>3 DEF DebriefWork
    <2>4. CASE UNCHANGED <<debrief, promised>>
      BY <1>1, <1>4, <2>2, <2>4 DEF DebriefWork, DebriefStands, Submitted
    <2> QED
      BY <1>11, <2>3, <2>4 DEF UpdateDebrief
  <1>12. CASE LookAtDebrief(r)
    <2>1. text \in Texts
      BY <1>6, <1>12 DEF LookAtDebrief
    <2>2. txn'[r] = Missing \/ txn'[r].text \in Texts
      BY <1>7, <1>12, <2>1 DEF LookAtDebrief
    <2>3. UNCHANGED debrief
      BY <1>12 DEF LookAtDebrief
    <2>4. CASE UNCHANGED promised
      BY <1>1, <1>4, <2>2, <2>3, <2>4 DEF DebriefWork, DebriefStands, Submitted
    <2>5. CASE debrief # Missing /\ debrief.submitted /\ debrief.text = text /\ Promise(r)
      BY <1>1, <1>3, <1>4, <2>2, <2>3, <2>5 DEF DebriefWork, DebriefStands, Submitted, Promise
    <2> QED
      BY <1>3, <1>12, <2>4, <2>5 DEF LookAtDebrief
  <1>13. CASE InsertDebrief(r)
    <2>1. text \in Texts
      BY <1>6, <1>13 DEF InsertDebrief
    <2>2. txn'[r] = Missing \/ txn'[r].text \in Texts
      BY <1>7, <1>13, <2>1 DEF InsertDebrief
    <2>3. CASE debrief = Missing
      <3>1. promised = {}
        BY <1>9, <2>3 DEF Submitted
      <3>2. debrief' = Debrief(text, submitted) /\ Promise(r)
        BY <1>3, <1>10, <1>13, <2>3 DEF InsertDebrief
      <3>3. DebriefStands' /\ debrief' \in Debriefs \cup {Missing}
        BY <1>8, <1>10, <2>1, <3>1, <3>2
      <3> QED
        BY <1>4, <2>2, <3>3 DEF DebriefWork
    <2>4. CASE UNCHANGED <<debrief, promised>>
      BY <1>1, <1>4, <2>2, <2>4 DEF DebriefWork, DebriefStands, Submitted
    <2> QED
      BY <1>13, <2>3, <2>4 DEF InsertDebrief
  <1> QED
    BY <1>5, <1>11, <1>12, <1>13 DEF DebriefStep

-----------------------------------------------------------------------------
(***************************************************************************)
(* Captures                                                                *)
(***************************************************************************)
\* The columns of a capture.
LEMMA CaptureColumns ==
  ASSUME NEW k \in CaptureRows
  PROVE  /\ k.topic \in Topics /\ k.basis \in BOOLEAN /\ k.question \in BOOLEAN
         /\ k.status \in {"pending", "ready", "activated"} /\ k.card \in Nat
         /\ k # Missing /\ k # Gone
  BY RowAssumption DEF CaptureRows

\* refresh_capture_status leaves the card alone.
LEMMA RefreshedIs ==
  ASSUME NEW k \in CaptureRows
  PROVE  Refreshed(k) \in CaptureRows /\ Refreshed(k).card = k.card
  BY DEF Refreshed, CaptureRows

\* So does an edit of which the columns are written over a row that has changed.
LEMMA WrittenIs ==
  ASSUME NEW loaded \in CaptureRows, NEW new \in CaptureRows, NEW row \in CaptureRows,
         new.card = loaded.card
  PROVE  Written(loaded, new, row) \in CaptureRows /\ Written(loaded, new, row).card = row.card
  <1> DEFINE F == {"topic", "basis", "question", "status", "card"}
             w == Written(loaded, new, row)
  <1>1. DOMAIN row = F
    BY DEF CaptureRows
  <1>2. w = [f \in F |-> IF new[f] # loaded[f] THEN new[f] ELSE row[f]]
    BY <1>1 DEF Written
  <1> HIDE DEF w
  <1>3. /\ w.topic \in {new.topic, row.topic} /\ w.basis \in {new.basis, row.basis}
        /\ w.question \in {new.question, row.question} /\ w.status \in {new.status, row.status}
        /\ w.card = row.card
    BY <1>2
  <1>4. w = [topic |-> w.topic, basis |-> w.basis, question |-> w.question, status |-> w.status, card |-> w.card]
    BY <1>2
  <1>5. /\ w.topic \in Topics /\ w.basis \in BOOLEAN /\ w.question \in BOOLEAN
        /\ w.status \in {"pending", "ready", "activated"} /\ w.card \in Nat
    BY <1>3, CaptureColumns
  <1>6. w \in CaptureRows
    BY <1>4, <1>5 DEF CaptureRows
  <1> QED
    BY <1>3, <1>6 DEF w

\* A step of one request that writes no row another request is activating.
LEMMA CapturesKept ==
  ASSUME CaptureWork, NEW r \in Transactions, NEW ops, Becomes(r, ops), CaptureWorkOf(r)',
         \A q \in Transactions \ {r} : Activating(q) =>
            /\ Activating(r)' => txn[q].capture # txn'[r].capture
            /\ captures'[txn[q].capture] = captures[txn[q].capture]
  PROVE  CaptureWork'
  <1>1. ASSUME NEW q \in Transactions \ {r}
        PROVE  txn'[q] = txn[q] /\ CaptureWorkOf(q)' /\ (Activating(q)' <=> Activating(q))
    <2>1. txn'[q] = txn[q] /\ DOMAIN txn' = Transactions
      BY DEF Becomes
    <2>2. \A op : Doing(q, op)' <=> Doing(q, op)
      BY <2>1 DEF Doing, InFlight
    <2>3. CaptureWorkOf(q)
      BY DEF CaptureWork
    <2>4. Activating(q)' <=> Activating(q)
      BY <2>2 DEF Activating
    <2>5. CaptureWorkOf(q)'
      <3>1. PICK w : w = txn[q]
        OBVIOUS
      <3>2. Activating(q) => captures'[w.capture] = captures[w.capture]
        BY <3>1
      <3>3. Doing(q, "activate") => Activating(q)
        BY DEF Activating
      <3>4. txn'[q] = w
        BY <2>1, <3>1
      <3> QED
        BY <2>2, <2>3, <2>4, <3>1, <3>2, <3>3, <3>4 DEF CaptureWorkOf, HasRow
    <2> QED
      BY <2>1, <2>4, <2>5
  <1>2. \A q \in Transactions : CaptureWorkOf(q)'
    BY <1>1
  <1>3. ASSUME NEW p \in Transactions, NEW q \in Transactions, Activating(p)', Activating(q)',
               txn'[p].capture = txn'[q].capture
        PROVE  p = q
    <2>1. CASE p # r /\ q # r
      BY <1>1, <1>3, <2>1 DEF CaptureWork
    <2>2. CASE p = r /\ q # r
      BY <1>1, <1>3, <2>2
    <2>3. CASE p # r /\ q = r
      BY <1>1, <1>3, <2>3
    <2> QED
      BY <2>1, <2>2, <2>3
  <1> QED
    BY <1>2, <1>3 DEF CaptureWork

\* Requests that are about something else.
LEMMA CapturesIdle ==
  ASSUME CaptureWork, UNCHANGED captures, NEW r \in Transactions, NEW ops, Becomes(r, ops),
         ops \cap CaptureOps = {}
  PROVE  CaptureWork'
  <1>1. \A op \in CaptureOps : ~Doing(r, op)'
    BY DEF Becomes, Doing, InFlight
  <1>2. CaptureWorkOf(r)' /\ ~Activating(r)'
    BY <1>1 DEF CaptureOps, CaptureWorkOf, Activating
  <1> QED
    BY <1>2, CapturesKept

\* A capture is created where there is none.
LEMMA CapturesCreated ==
  ASSUME Rows, CaptureWork, NEW k \in Captures, NEW t \in Topics, CreateCapture(k, t)
  PROVE  CaptureWork' /\ captures' \in [Captures -> CaptureRows \cup {Missing, Gone}]
  <1>1. /\ captures[k] = Missing /\ captures' = [captures EXCEPT ![k] = NewCapture(t)] /\ UNCHANGED txn
        /\ captures \in [Captures -> CaptureRows \cup {Missing, Gone}]
    BY DEF CreateCapture, Rows
  <1>2. NewCapture(t) \in CaptureRows
    BY DEF NewCapture, CaptureRows
  <1>3. captures' \in [Captures -> CaptureRows \cup {Missing, Gone}]
    BY <1>1, <1>2
  <1>4. \A other \in Captures : HasRow(other) => captures'[other] = captures[other]
    BY <1>1 DEF HasRow
  <1>5. ASSUME NEW q \in Transactions PROVE CaptureWorkOf(q)' /\ (Activating(q)' <=> Activating(q))
    <2>1. \A op : Doing(q, op)' <=> Doing(q, op)
      BY <1>1 DEF Doing, InFlight
    <2>2. CaptureWorkOf(q)
      BY DEF CaptureWork
    <2>3. Doing(q, "activate") => Activating(q)
      BY DEF Activating
    <2>4. Activating(q)' <=> Activating(q)
      BY <2>1 DEF Activating
    <2> QED
      BY <1>1, <1>4, <2>1, <2>2, <2>3, <2>4 DEF CaptureWorkOf, HasRow
  <1> QED
    BY <1>1, <1>3, <1>5 DEF CaptureWork

\* What a request about captures writes: nothing, or one row that no other request activates.
WritesRow(r, k, row) ==
    /\ k \in Captures /\ captures' = [captures EXCEPT ![k] = row]
    /\ row \in CaptureRows \cup {Gone}
    /\ \A q \in Transactions \ {r} : Activating(q) => txn[q].capture # k

\* The other rows, those in activation among them, stay.
LEMMA RowWritten ==
  ASSUME Rows, NEW r, NEW k, NEW row, WritesRow(r, k, row)
  PROVE  /\ captures' \in [Captures -> CaptureRows \cup {Missing, Gone}] /\ captures'[k] = row
         /\ \A other \in Captures \ {k} : captures'[other] = captures[other]
         /\ \A q \in Transactions \ {r} : Activating(q) => captures'[txn[q].capture] = captures[txn[q].capture]
  <1>1. /\ captures' \in [Captures -> CaptureRows \cup {Missing, Gone}] /\ captures'[k] = row
        /\ \A other : other # k => captures'[other] = captures[other]
    BY DEF WritesRow, Rows
  <1> QED
    BY <1>1 DEF WritesRow

\* A commit writes the row as it was edited.
LEMMA CommitCaptureWrites ==
  ASSUME Rows, CaptureWork, NEW r \in Transactions, CommitCapture(r), NEW k, k = txn[r].capture
  PROVE  /\ captures[k] \in CaptureRows
         /\ \E row \in CaptureRows : WritesRow(r, k, row) /\ row.card = captures[k].card
  <1>1. /\ Doing(r, "edit") \/ Doing(r, "question")
        /\ HasRow(k) /\ CaptureUnlocked(k)
        /\ captures' = [captures EXCEPT ![k] = Written(txn[r].loaded, txn[r].new, captures[k])]
    BY DEF CommitCapture
  <1>2. PICK loaded, new : loaded = txn[r].loaded /\ new = txn[r].new
    OBVIOUS
  <1>3. k \in Captures /\ loaded \in CaptureRows /\ new \in CaptureRows /\ new.card = loaded.card
    BY <1>1, <1>2 DEF CaptureWork, CaptureWorkOf
  <1>4. captures[k] \in CaptureRows
    BY <1>1, <1>3 DEF HasRow, Rows
  <1>5. PICK row : row = Written(loaded, new, captures[k])
    OBVIOUS
  <1>6. row \in CaptureRows /\ row.card = captures[k].card
    BY <1>3, <1>4, <1>5, WrittenIs
  <1>7. \A q \in Transactions \ {r} : Activating(q) => txn[q].capture # k
    BY <1>1 DEF CaptureUnlocked, Activating, Doing
  <1>8. WritesRow(r, k, row)
    BY <1>1, <1>2, <1>3, <1>5, <1>6, <1>7 DEF WritesRow
  <1> QED
    BY <1>4, <1>6, <1>8

\* A discard leaves no row.
LEMMA CommitDiscardWrites ==
  ASSUME CaptureWork, NEW r \in Transactions, CommitDiscard(r), NEW k, k = txn[r].capture
  PROVE  WritesRow(r, k, Gone)
  <1>1. Doing(r, "discard") /\ CaptureUnlocked(k) /\ captures' = [captures EXCEPT ![k] = Gone]
    BY DEF CommitDiscard
  <1>2. k \in Captures
    BY <1>1 DEF CaptureWork, CaptureWorkOf
  <1>3. \A q \in Transactions \ {r} : Activating(q) => txn[q].capture # k
    BY <1>1 DEF CaptureUnlocked, Activating, Doing
  <1> QED
    BY <1>1, <1>2, <1>3 DEF WritesRow

\* An activation gives the capture its card.
LEMMA CommitActivationWrites ==
  ASSUME Rows, CaptureWork, NEW r \in Transactions, CommitActivation(r), NEW k, k = txn[r].capture
  PROVE  /\ captures[k] \in CaptureRows /\ captures[k].card = 0
         /\ \E row \in CaptureRows : WritesRow(r, k, row) /\ row.card # 0
  <1>1. PICK n : n = Len(cards) + 1
    OBVIOUS
  <1>2. /\ Doing(r, "activate")
        /\ captures' = [captures EXCEPT ![k].card = n, ![k].status = "activated"]
    BY <1>1 DEF CommitActivation
  <1>3. k \in Captures /\ HasRow(k) /\ captures[k].card = 0 /\ Activating(r)
    BY <1>2 DEF CaptureWork, CaptureWorkOf, Activating
  <1>4. captures[k] \in CaptureRows
    BY <1>3 DEF HasRow, Rows
  <1>5. n \in Nat /\ n # 0
    BY <1>1, Columns DEF Rows
  <1>6. PICK row : row = [captures[k] EXCEPT !.card = n, !.status = "activated"]
    OBVIOUS
  <1>7. row \in CaptureRows /\ row.card = n
    BY <1>4, <1>5, <1>6 DEF CaptureRows
  <1>8. captures' = [captures EXCEPT ![k] = row]
    BY <1>2, <1>3, <1>6 DEF Rows
  <1>9. \A q \in Transactions \ {r} : Activating(q) => txn[q].capture # k
    BY <1>3 DEF CaptureWork
  <1>10. WritesRow(r, k, row)
    BY <1>3, <1>7, <1>8, <1>9 DEF WritesRow
  <1> QED
    BY <1>3, <1>4, <1>5, <1>7, <1>10

\* Requests about captures.
LEMMA CapturesMove ==
  ASSUME Rows, CaptureWork, NEW r \in Transactions, CaptureStep(r)
  PROVE  CaptureWork' /\ captures' \in [Captures -> CaptureRows \cup {Missing, Gone}]
  <1>1. DOMAIN txn = Transactions /\ captures \in [Captures -> CaptureRows \cup {Missing, Gone}]
    BY DEF Rows
  <1>2. Becomes(r, CaptureOps)
    BY <1>1, CaptureFrame
  <1>3. ASSUME CaptureWorkOf(r)', ~Activating(r)', UNCHANGED captures PROVE CaptureWork'
    BY <1>2, <1>3, CapturesKept
  <1>4. ASSUME Finish(r) PROVE CaptureWorkOf(r)' /\ ~Activating(r)'
    BY <1>1, <1>4, FinishIs, Done DEF CaptureWorkOf, Activating
  <1>5. ASSUME NEW k \in Captures, HasRow(k) PROVE captures[k] \in CaptureRows
    BY <1>1, <1>5 DEF HasRow
  <1>6. ASSUME NEW k \in Captures, EditCapture(r, k) PROVE CaptureWork' /\ UNCHANGED captures
    <2>1. PICK t \in Topics, b \in BOOLEAN, q \in BOOLEAN :
             Keep(r, [op |-> "edit", capture |-> k, loaded |-> captures[k],
                       new |-> Refreshed([captures[k] EXCEPT !.topic = t, !.basis = b, !.question = q])])
      BY <1>6 DEF EditCapture
    <2>2. captures[k] \in CaptureRows /\ UNCHANGED captures
      BY <1>5, <1>6 DEF EditCapture
    <2>3. PICK loaded, edited, new :
             /\ loaded = captures[k] /\ edited = [captures[k] EXCEPT !.topic = t, !.basis = b, !.question = q]
             /\ new = Refreshed(edited)
      OBVIOUS
    <2>4. edited \in CaptureRows /\ edited.card = loaded.card
      BY <2>2, <2>3 DEF CaptureRows
    <2>5. new \in CaptureRows /\ new.card = loaded.card
      BY <2>3, <2>4, RefreshedIs
    <2>6. txn'[r] = [op |-> "edit", capture |-> k, loaded |-> loaded, new |-> new]
      BY <1>1, <2>1, <2>3 DEF Keep
    <2>7. CaptureWorkOf(r)' /\ ~Activating(r)'
      BY <2>2, <2>3, <2>5, <2>6 DEF CaptureWorkOf, Activating, Doing
    <2> QED
      BY <1>3, <2>2, <2>7
  <1>7. ASSUME NEW k \in Captures, NEW regenerate \in BOOLEAN, AskQuestion(r, k, regenerate)
        PROVE  CaptureWork' /\ UNCHANGED captures
    <2>1. captures[k] \in CaptureRows /\ UNCHANGED captures
      BY <1>5, <1>7 DEF AskQuestion
    <2>2. PICK loaded, asked, new :
             /\ loaded = captures[k] /\ asked = [captures[k] EXCEPT !.question = TRUE]
             /\ new = Refreshed(asked)
      OBVIOUS
    <2>3. asked \in CaptureRows /\ asked.card = loaded.card
      BY <2>1, <2>2 DEF CaptureRows
    <2>4. new \in CaptureRows /\ new.card = loaded.card
      BY <2>2, <2>3, RefreshedIs
    <2>5. txn'[r] = [op |-> "question", capture |-> k, loaded |-> loaded, new |-> new]
      BY <1>1, <1>7, <2>2 DEF AskQuestion, Keep
    <2>6. CaptureWorkOf(r)' /\ ~Activating(r)'
      BY <2>1, <2>2, <2>4, <2>5 DEF CaptureWorkOf, Activating, Doing
    <2> QED
      BY <1>3, <2>1, <2>6
  <1>8. ASSUME NEW k \in Captures, DiscardCapture(r, k) PROVE CaptureWork' /\ UNCHANGED captures
    <2>1. txn'[r] = [op |-> "discard", capture |-> k] /\ UNCHANGED captures
      BY <1>1, <1>8 DEF DiscardCapture, Keep
    <2>2. CaptureWorkOf(r)' /\ ~Activating(r)'
      BY <2>1 DEF CaptureWorkOf, Activating, Doing
    <2> QED
      BY <1>3, <2>1, <2>2
  <1>9. ASSUME NEW k \in Captures, LockCapture(r, k) PROVE CaptureWork' /\ UNCHANGED captures
    <2>1. /\ txn'[r] = [op |-> "activating", capture |-> k] /\ UNCHANGED captures
          /\ HasRow(k) /\ CaptureUnlocked(k)
      BY <1>1, <1>9 DEF LockCapture, Keep
    <2>2. CaptureWorkOf(r)'
      BY <2>1 DEF CaptureWorkOf, Activating, Doing, HasRow
    <2>3. \A q \in Transactions \ {r} : Activating(q) => txn[q].capture # k
      BY <2>1 DEF CaptureUnlocked, Activating, Doing
    <2> QED
      BY <1>2, <2>1, <2>2, <2>3, CapturesKept
  <1>10. CASE CommitCapture(r)
    <2>1. PICK k, row : row \in CaptureRows /\ WritesRow(r, k, row)
      BY <1>10, CommitCaptureWrites
    <2>2. CaptureWorkOf(r)' /\ ~Activating(r)'
      BY <1>4, <1>10 DEF CommitCapture
    <2> QED
      BY <1>2, <2>1, <2>2, RowWritten, CapturesKept
  <1>11. CASE CommitDiscard(r)
    <2>1. PICK k : WritesRow(r, k, Gone)
      BY <1>11, CommitDiscardWrites
    <2>2. CaptureWorkOf(r)' /\ ~Activating(r)'
      BY <1>4, <1>11 DEF CommitDiscard
    <2> QED
      BY <1>2, <2>1, <2>2, RowWritten, CapturesKept
  <1>12. CASE CheckActivation(r)
    <2>1. PICK k : k = txn[r].capture
      OBVIOUS
    <2>2. Doing(r, "activating") /\ UNCHANGED captures
      BY <1>12 DEF CheckActivation
    <2>3. k \in Captures /\ HasRow(k) /\ Activating(r)
      BY <2>1, <2>2 DEF CaptureWork, CaptureWorkOf, Activating
    <2>4. CASE Activates(captures[k]) /\ Keep(r, [op |-> "activate", capture |-> k, topic |-> captures[k].topic])
      <3>1. PICK t : t = captures[k].topic
        OBVIOUS
      <3>2. txn'[r] = [op |-> "activate", capture |-> k, topic |-> t]
        BY <1>1, <2>4, <3>1 DEF Keep
      <3>3. CaptureWorkOf(r)'
        BY <2>2, <2>3, <2>4, <3>2 DEF CaptureWorkOf, Activating, Doing, HasRow, Activates
      <3>4. \A q \in Transactions \ {r} : Activating(q) => txn[q].capture # k
        BY <2>1, <2>3 DEF CaptureWork
      <3> QED
        BY <1>1, <1>2, <2>2, <3>2, <3>3, <3>4, CapturesKept
    <2>5. CASE Finish(r)
      BY <1>1, <1>3, <1>4, <2>2, <2>5
    <2> QED
      BY <1>12, <2>1, <2>4, <2>5 DEF CheckActivation
  <1>13. CASE CommitActivation(r)
    <2>1. PICK k, row : row \in CaptureRows /\ WritesRow(r, k, row)
      BY <1>13, CommitActivationWrites
    <2>2. CaptureWorkOf(r)' /\ ~Activating(r)'
      BY <1>4, <1>13 DEF CommitActivation
    <2> QED
      BY <1>2, <2>1, <2>2, RowWritten, CapturesKept
  <1> QED
    BY <1>1, <1>6, <1>7, <1>8, <1>9, <1>10, <1>11, <1>12, <1>13 DEF CaptureStep

-----------------------------------------------------------------------------
(***************************************************************************)
(* One card of each origin                                                 *)
(***************************************************************************)
\* A card that is added is made of something that had made no card, and is used up now.
Fresh(n) ==
    /\ \A c \in DOMAIN cards : cards[c].origin # cards'[n].origin
    /\ \A m \in DOMAIN cards' \ DOMAIN cards : cards'[m].origin = cards'[n].origin => m = n
    /\ \A k \in Captures : cards'[n].origin = <<"capture", k>> => UsedUp(k)'
    /\ \A key \in Keys, p \in 1..MaxSuggested :
          cards'[n].origin = <<"proposal", key, p>> => acceptances'[key] # Missing
    /\ \A d \in Nat : cards'[n].origin = <<"replace", d>> => d \in DOMAIN cards' /\ cards'[d].next # 0

\* Cards made of something fresh leave every origin single.
LEMMA OriginsMove ==
  ASSUME OriginsOnce, Succeeds,
         \A d \in DOMAIN cards : cards[d].next # 0 => cards'[d].next # 0,
         \A k \in Captures : UsedUp(k) => UsedUp(k)',
         \A key \in Keys : acceptances[key] # Missing => acceptances'[key] # Missing,
         \A n \in DOMAIN cards' \ DOMAIN cards : Fresh(n)
  PROVE  OriginsOnce'
  <1>1. \A c \in DOMAIN cards : c \in DOMAIN cards' /\ cards'[c].origin = cards[c].origin
    BY DEF Succeeds
  <1>2. \A c, d \in DOMAIN cards' : cards'[c].origin = cards'[d].origin => c = d
    <2>1. ASSUME NEW c \in DOMAIN cards', NEW d \in DOMAIN cards', cards'[c].origin = cards'[d].origin
          PROVE  c = d
      <3>1. CASE c \in DOMAIN cards /\ d \in DOMAIN cards
        BY <1>1, <2>1, <3>1 DEF OriginsOnce
      <3>2. CASE c \notin DOMAIN cards
        BY <1>1, <2>1, <3>2 DEF Fresh
      <3>3. CASE d \notin DOMAIN cards
        BY <1>1, <2>1, <3>3 DEF Fresh
      <3> QED
        BY <3>1, <3>2, <3>3
    <2> QED
      BY <2>1
  <1>3. ASSUME NEW c \in DOMAIN cards', NEW k \in Captures, cards'[c].origin = <<"capture", k>>
        PROVE  UsedUp(k)'
    <2>1. CASE c \in DOMAIN cards
      BY <1>1, <1>3, <2>1 DEF OriginsOnce
    <2>2. CASE c \notin DOMAIN cards
      BY <1>3, <2>2 DEF Fresh
    <2> QED
      BY <2>1, <2>2
  <1>4. ASSUME NEW c \in DOMAIN cards', NEW key \in Keys, NEW p \in 1..MaxSuggested,
               cards'[c].origin = <<"proposal", key, p>>
        PROVE  acceptances'[key] # Missing
    <2>1. CASE c \in DOMAIN cards
      BY <1>1, <1>4, <2>1 DEF OriginsOnce
    <2>2. CASE c \notin DOMAIN cards
      BY <1>4, <2>2 DEF Fresh
    <2> QED
      BY <2>1, <2>2
  <1>5. ASSUME NEW c \in DOMAIN cards', NEW d \in Nat, cards'[c].origin = <<"replace", d>>
        PROVE  d \in DOMAIN cards' /\ cards'[d].next # 0
    <2>1. CASE c \in DOMAIN cards
      BY <1>1, <1>5, <2>1 DEF OriginsOnce
    <2>2. CASE c \notin DOMAIN cards
      BY <1>5, <2>2 DEF Fresh
    <2> QED
      BY <2>1, <2>2
  <1> QED
    BY <1>2, <1>3, <1>4, <1>5 DEF OriginsOnce

\* A step that writes no card.
LEMMA OriginsIdle ==
  ASSUME Rows, OriginsOnce, UNCHANGED cards, \A k \in Captures : UsedUp(k) => UsedUp(k)', UNCHANGED acceptances
  PROVE  OriginsOnce'
  <1>1. Succeeds /\ DOMAIN cards' = DOMAIN cards
    BY CardsSame
  <1> QED
    BY <1>1, OriginsMove

\* What has been used up stays so.
LEMMA UsedUpSame ==
  ASSUME UNCHANGED captures
  PROVE  \A k \in Captures : UsedUp(k) => UsedUp(k)'
  BY DEF UsedUp

\* A row that is written leaves the other captures alone.
LEMMA UsedUpWritten ==
  ASSUME Rows, NEW r, NEW k, NEW row, WritesRow(r, k, row),
         UsedUp(k) => row = Gone \/ (row # Missing /\ row.card # 0)
  PROVE  \A other \in Captures : UsedUp(other) => UsedUp(other)'
  <1>1. /\ captures'[k] = row /\ \A other \in Captures \ {k} : captures'[other] = captures[other]
    BY RowWritten
  <1> QED
    BY <1>1 DEF UsedUp

\* A card is replaced once.
LEMMA OriginsCommitted ==
  ASSUME Rows, LineageInv, OriginsOnce, NEW r \in Transactions, CommitLineage(r), UNCHANGED <<captures, acceptances>>
  PROVE  OriginsOnce'
  <1>1. PICK c \in DOMAIN cards :
            /\ Succeeds
            /\ \A d \in DOMAIN cards : cards[d].next # 0 => cards'[d].next # 0
            /\ \/ DOMAIN cards' = DOMAIN cards
               \/ \E n : /\ DOMAIN cards' = DOMAIN cards \cup {n} /\ n \notin DOMAIN cards
                         /\ cards'[n] = NewCard(cards[c].topic, c, <<"replace", c>>)
                         /\ Root(n)' = Root(c) /\ cards[c].next = 0 /\ cards'[c].next # 0
    BY CommittedRows
  <1>2. ASSUME NEW n \in DOMAIN cards' \ DOMAIN cards PROVE Fresh(n)
    <2>1. /\ DOMAIN cards' = DOMAIN cards \cup {n} /\ cards[c].next = 0 /\ cards'[c].next # 0
          /\ cards'[n] = NewCard(cards[c].topic, c, <<"replace", c>>)
      BY <1>1
    <2>2. cards'[n].origin = <<"replace", c>>
      BY <2>1 DEF NewCard
    <2>3. c \in Nat
      BY DEF Rows, Linked
    <2>4. \A d \in DOMAIN cards : cards[d].origin # <<"replace", c>>
      BY <2>1, <2>3 DEF OriginsOnce
    <2>5. \A k : <<"capture", k>> # <<"replace", c>>
      OBVIOUS
    <2>6. \A key, p : <<"proposal", key, p>> # <<"replace", c>>
      OBVIOUS
    <2>7. \A d : <<"replace", d>> = <<"replace", c>> => d = c
      OBVIOUS
    <2> QED
      BY <2>1, <2>2, <2>4, <2>5, <2>6, <2>7 DEF Fresh
  <1> QED
    BY <1>1, <1>2, OriginsMove, UsedUpSame

\* A capture is activated once.
LEMMA OriginsCaptured ==
  ASSUME Rows, OriginsOnce, TopicWork, CaptureWork, NEW r \in Transactions, CaptureStep(r), UNCHANGED acceptances
  PROVE  OriginsOnce'
  <1>1. CASE UNCHANGED <<cards, captures>>
    BY <1>1, OriginsIdle, UsedUpSame
  <1>2. CASE CommitCapture(r)
    <2>1. PICK k : k = txn[r].capture
      OBVIOUS
    <2>2. captures[k] \in CaptureRows /\ UNCHANGED cards
      BY <1>2, <2>1, CommitCaptureWrites DEF CommitCapture
    <2>3. PICK row \in CaptureRows : WritesRow(r, k, row) /\ row.card = captures[k].card
      BY <1>2, <2>1, CommitCaptureWrites
    <2>4. UsedUp(k) => row # Missing /\ row.card # 0
      BY <2>2, <2>3, CaptureColumns DEF UsedUp
    <2>5. \A other \in Captures : UsedUp(other) => UsedUp(other)'
      BY <2>3, <2>4, UsedUpWritten
    <2> QED
      BY <2>2, <2>5, OriginsIdle
  <1>3. CASE CommitDiscard(r)
    <2>1. PICK k : WritesRow(r, k, Gone)
      BY <1>3, CommitDiscardWrites
    <2>2. \A other \in Captures : UsedUp(other) => UsedUp(other)'
      BY <2>1, UsedUpWritten
    <2>3. UNCHANGED cards
      BY <1>3 DEF CommitDiscard
    <2> QED
      BY <2>2, <2>3, OriginsIdle
  <1>4. CASE CommitActivation(r)
    <2>1. PICK k, t : k = txn[r].capture /\ t = txn[r].topic
      OBVIOUS
    <2>2. captures[k] \in CaptureRows /\ captures[k].card = 0
      BY <1>4, <2>1, CommitActivationWrites
    <2>3. PICK row \in CaptureRows : WritesRow(r, k, row) /\ row.card # 0
      BY <1>4, <2>1, CommitActivationWrites
    <2>4. k \in Captures /\ captures'[k] = row /\ UsedUp(k)' /\ ~UsedUp(k)
      <3>1. k \in Captures /\ captures'[k] = row
        BY <2>3, RowWritten DEF WritesRow
      <3>2. row # Missing /\ captures[k] # Gone
        BY <2>2, CaptureColumns
      <3> QED
        BY <2>2, <2>3, <3>1, <3>2 DEF UsedUp
    <2>5. \A other \in Captures : UsedUp(other) => UsedUp(other)'
      BY <2>3, <2>4, UsedUpWritten
    <2>6. PICK n : /\ Adds /\ DOMAIN cards' = DOMAIN cards \cup {n} /\ n \notin DOMAIN cards
                   /\ cards'[n] = NewCard(t, 0, <<"capture", k>>)
      BY <1>4, <2>1, ActivationAdds
    <2>7. Succeeds /\ \A d \in DOMAIN cards : cards'[d] = cards[d]
      BY <2>6, Added DEF Adds, Rows
    <2>8. Fresh(n)
      <3>1. cards'[n].origin = <<"capture", k>>
        BY <2>6 DEF NewCard
      <3>2. \A c \in DOMAIN cards : cards[c].origin # <<"capture", k>>
        BY <2>4 DEF OriginsOnce
      <3>3. \A d : <<"replace", d>> # <<"capture", k>>
        OBVIOUS
      <3>4. \A key, p : <<"proposal", key, p>> # <<"capture", k>>
        OBVIOUS
      <3>5. \A other : <<"capture", other>> = <<"capture", k>> => other = k
        OBVIOUS
      <3> QED
        BY <2>4, <2>6, <3>1, <3>2, <3>3, <3>4, <3>5 DEF Fresh
    <2> QED
      BY <2>5, <2>6, <2>7, <2>8, OriginsMove
  <1>5. CASE CheckActivation(r)
    BY <1>1, <1>5 DEF CheckActivation
  <1>6. ASSUME NEW k \in Captures, \/ EditCapture(r, k) \/ DiscardCapture(r, k) \/ LockCapture(r, k)
                                   \/ \E regenerate \in BOOLEAN : AskQuestion(r, k, regenerate)
        PROVE  OriginsOnce'
    BY <1>1, <1>6 DEF EditCapture, DiscardCapture, LockCapture, AskQuestion
  <1> QED
    BY <1>2, <1>3, <1>4, <1>5, <1>6 DEF CaptureStep

\* A key makes its cards once.
LEMMA OriginsAccepted ==
  ASSUME Rows, OriginsOnce, TopicWork, ItemWork, NEW r \in Transactions, CommitAcceptance(r)
  PROVE  OriginsOnce' /\ acceptances' \in [Keys -> Selected \cup {Missing}]
  <1>1. PICK key, topics : key = txn[r].key /\ topics = txn[r].topics
    OBVIOUS
  <1>2. /\ Doing(r, "accept") /\ acceptances' = [acceptances EXCEPT ![key] = topics] /\ UNCHANGED captures
        /\ acceptances \in [Keys -> Selected \cup {Missing}]
    BY <1>1 DEF CommitAcceptance, Rows
  <1>3. key \in Keys /\ topics \in Selected /\ acceptances[key] = Missing
    BY <1>1, <1>2 DEF ItemWork, ItemWorkOf, TopicWork, TopicWorkOf
  <1>4. topics # Missing
    BY <1>3, ItemAssumption
  <1>5. /\ acceptances' \in [Keys -> Selected \cup {Missing}] /\ acceptances'[key] # Missing
        /\ \A other \in Keys : acceptances[other] # Missing => acceptances'[other] # Missing
    BY <1>2, <1>3, <1>4
  <1>6. Adds /\ Made(key, topics)
    BY <1>1, AcceptanceAdds
  <1>7. Succeeds /\ \A d \in DOMAIN cards : cards'[d] = cards[d]
    BY <1>6, Added DEF Adds, Rows
  <1>8. ASSUME NEW n \in DOMAIN cards' \ DOMAIN cards PROVE Fresh(n)
    <2>1. PICK p \in 1..MaxSuggested : cards'[n] = NewCard(topics[p], 0, <<"proposal", key, p>>)
      BY <1>6 DEF Made
    <2>2. cards'[n].origin = <<"proposal", key, p>>
      BY <2>1 DEF NewCard
    <2>3. \A c \in DOMAIN cards : cards[c].origin # <<"proposal", key, p>>
      BY <1>3 DEF OriginsOnce
    <2>4. \A d : <<"replace", d>> # <<"proposal", key, p>> /\ <<"capture", d>> # <<"proposal", key, p>>
      OBVIOUS
    <2>5. \A other, q : <<"proposal", other, q>> = <<"proposal", key, p>> => other = key
      OBVIOUS
    <2>6. \A m \in DOMAIN cards' \ DOMAIN cards : cards'[m].origin = cards'[n].origin => m = n
      BY <1>6 DEF Made
    <2> QED
      BY <1>5, <2>2, <2>3, <2>4, <2>5, <2>6 DEF Fresh
  <1>9. OriginsOnce'
    BY <1>2, <1>5, <1>7, <1>8, OriginsMove, UsedUpSame
  <1> QED
    BY <1>5, <1>9

-----------------------------------------------------------------------------
(***************************************************************************)
(* The theorems                                                            *)
(***************************************************************************)
\* The library and the item are empty at first.
LEMMA InitHolds ==
  ASSUME ProposalsInit
  PROVE  CardsInv
  <1> USE DEF ProposalsInit, LibraryInit
  <1>1. ASSUME NEW r \in Transactions, NEW op PROVE ~Doing(r, op)
    BY DEF Doing, InFlight
  <1>2. cards \in Seq(CardRecords) /\ Linked(cards) /\ DOMAIN cards = {}
    BY DEF Linked
  <1>3. Rows
    <2>1. proposals = [p \in DOMAIN proposals |-> proposals[p]] /\ DOMAIN proposals \subseteq 1..MaxSuggested
      OBVIOUS
    <2>2. /\ captures \in [Captures -> CaptureRows \cup {Missing, Gone}]
          /\ acceptances \in [Keys -> Selected \cup {Missing}]
      OBVIOUS
    <2> QED
      BY <1>2, <2>1, <2>2 DEF Rows
  <1>4. LineageInv
    BY <1>1, <1>2 DEF LineageInv, ActiveOnce, LineageWork, LineageWorkOf, OneHolder, HoldsLineage
  <1>5. TopicInv
    BY <1>1, <1>2 DEF TopicInv, TopicsAreUnique, TopicWork, TopicWorkOf, HoldsTopics
  <1>6. CaptureWork
    BY <1>1 DEF CaptureWork, CaptureWorkOf, Activating
  <1>7. OriginsOnce
    BY <1>2 DEF OriginsOnce
  <1>8. ItemWork
    BY <1>1 DEF ItemWork, ItemWorkOf
  <1>9. DebriefWork
    BY <1>1 DEF DebriefWork, DebriefStands
  <1> QED
    BY <1>3, <1>4, <1>5, <1>6, <1>7, <1>8, <1>9 DEF CardsInv

\* A part of the state that a step leaves alone keeps its part of the invariant.
LEMMA Untouched ==
  ASSUME Rows, UNCHANGED txn
  PROVE  /\ LineageInv /\ UNCHANGED <<cards, answering>> => LineageInv'
         /\ TopicInv /\ UNCHANGED <<cards, acceptances>> => TopicInv'
         /\ CaptureWork /\ UNCHANGED captures => CaptureWork'
         /\ ItemWork /\ UNCHANGED <<proposals, acceptances, outcomes>> => ItemWork'
         /\ DebriefWork /\ UNCHANGED <<debrief, promised>> => DebriefWork'
  <1>1. \A r, op : Doing(r, op)' <=> Doing(r, op)
    BY DEF Doing, InFlight
  <1>2. ASSUME LineageInv, UNCHANGED <<cards, answering>> PROVE LineageInv'
    <2>1. Succeeds /\ (\A root \in DOMAIN cards : Stays(root)) /\ DOMAIN cards' = DOMAIN cards
      BY <1>2, CardsSame
    <2>2. \A r \in Transactions : HoldsLineage(r) => Stays(txn[r].root)
      BY <1>2, <2>1, RootIn DEF Rows, LineageInv, LineageWork, LineageWorkOf
    <2>3. \A r \in Transactions : LineageWorkOf(r)' /\ (HoldsLineage(r)' <=> HoldsLineage(r))
      BY <1>2, <2>1, <2>2, WorkStands DEF Rows
    <2>4. ActiveOnce'
      BY <1>2, <2>1 DEF Succeeds, LineageInv, ActiveOnce
    <2> QED
      BY <1>2, <2>3, <2>4 DEF LineageInv, LineageWork, OneHolder
  <1>3. ASSUME TopicInv, UNCHANGED <<cards, acceptances>> PROVE TopicInv'
    <2>1. Succeeds
      BY <1>3, CardsSame
    <2>2. TopicsAreUnique'
      BY <1>3, <2>1 DEF Succeeds, TopicInv, TopicsAreUnique
    <2>3. (\A t : Taken(t)' => Taken(t)) /\ DOMAIN txn' = Transactions
      BY <1>3 DEF Taken, Rows
    <2> QED
      BY <1>3, <2>2, <2>3, TopicsKept
  <1>4. ASSUME CaptureWork, UNCHANGED captures PROVE CaptureWork'
    BY <1>1, <1>4 DEF CaptureWork, CaptureWorkOf, Activating, HasRow
  <1>5. ASSUME ItemWork, UNCHANGED <<proposals, acceptances, outcomes>> PROVE ItemWork'
    BY <1>1, <1>5 DEF ItemWork, ItemWorkOf
  <1>6. ASSUME DebriefWork, UNCHANGED <<debrief, promised>> PROVE DebriefWork'
    BY <1>1, <1>6 DEF DebriefWork, DebriefStands, Submitted
  <1> QED
    BY <1>2, <1>3, <1>4, <1>5, <1>6

\* A request that is given up leaves everything as it was.
LEMMA RollbackKeeps ==
  ASSUME CardsInv, NEW r \in Transactions, Becomes(r, {}), UNCHANGED <<cards, answering, captures, proposalVars>>
  PROVE  CardsInv'
  <1> USE DEF CardsInv, proposalVars
  <1>1. Rows'
    BY DEF Rows, Becomes
  <1>2. LineageInv'
    BY LineagesIdle
  <1>3. TopicInv'
    BY TopicsIdle
  <1>4. CaptureWork'
    BY CapturesIdle
  <1>5. OriginsOnce'
    BY OriginsIdle, UsedUpSame
  <1>6. ItemWork'
    BY ItemsIdle
  <1>7. DebriefWork'
    BY DebriefIdle
  <1> QED
    BY <1>1, <1>2, <1>3, <1>4, <1>5, <1>6, <1>7

\* Archive, restore and replace.
LEMMA LineageStepKeeps ==
  ASSUME CardsInv, NEW r \in Transactions, LineageStep(r), UNCHANGED proposalVars
  PROVE  CardsInv'
  <1> USE DEF CardsInv, proposalVars
  <1>1. Becomes(r, LineageOps) /\ UNCHANGED <<answering, captures>>
    BY LineageFrame DEF Rows
  <1>2. \/ UNCHANGED cards /\ LineageInv'
        \/ CommitLineage(r)
    BY LineagesChosen, LineagesRooted, LineagesDecided DEF LineageStep, Choose, LockRoot, LockMembers
  <1>3. LineageInv'
    BY <1>2, LineagesCommitted
  <1>4. Succeeds
    BY <1>2, CardsSame, CommittedRows
  <1>5. Rows'
    BY <1>1, <1>4 DEF Rows, Succeeds, Becomes
  <1>6. LineageOps \cap TopicOps = {} /\ LineageOps \cap CaptureOps = {} /\ LineageOps \cap ItemOps = {}
        /\ LineageOps \cap DebriefOps = {}
    BY DEF LineageOps, TopicOps, CaptureOps, ItemOps, DebriefOps
  <1>7. TopicInv'
    BY <1>1, <1>2, <1>6, TopicsIdle, TopicsCommitted
  <1>8. CaptureWork'
    BY <1>1, <1>6, CapturesIdle
  <1>9. OriginsOnce'
    BY <1>1, <1>2, OriginsIdle, UsedUpSame, OriginsCommitted
  <1>10. ItemWork'
    BY <1>1, <1>6, ItemsIdle
  <1>11. DebriefWork'
    BY <1>1, <1>6, DebriefIdle
  <1> QED
    BY <1>3, <1>5, <1>7, <1>8, <1>9, <1>10, <1>11

\* Captures.
LEMMA CaptureStepKeeps ==
  ASSUME CardsInv, NEW r \in Transactions, CaptureStep(r), UNCHANGED proposalVars
  PROVE  CardsInv'
  <1> USE DEF CardsInv, proposalVars
  <1>1. Becomes(r, CaptureOps) /\ UNCHANGED answering
    BY CaptureFrame DEF Rows
  <1>2. UNCHANGED cards \/ CommitActivation(r)
    BY DEF CaptureStep, EditCapture, AskQuestion, DiscardCapture, LockCapture, CommitCapture,
           CommitDiscard, CheckActivation
  <1>3. UNCHANGED cards \/ Adds
    BY <1>2, ActivationAdds DEF TopicInv
  <1>4. Succeeds
    BY <1>3, CardsSame, Added DEF Adds, Rows
  <1>5. CaptureWork' /\ captures' \in [Captures -> CaptureRows \cup {Missing, Gone}]
    BY CapturesMove
  <1>6. Rows'
    BY <1>1, <1>4, <1>5 DEF Rows, Succeeds, Becomes
  <1>7. CaptureOps \cap LineageOps = {} /\ CaptureOps \cap ItemOps = {} /\ CaptureOps \cap DebriefOps = {}
    BY DEF LineageOps, CaptureOps, ItemOps, DebriefOps
  <1>8. LineageInv'
    BY <1>1, <1>3, <1>7, LineagesIdle, LineagesAdded
  <1>9. TopicInv'
    BY TopicsCaptured
  <1>10. OriginsOnce'
    BY OriginsCaptured DEF TopicInv
  <1>11. ItemWork'
    BY <1>1, <1>7, ItemsIdle
  <1>12. DebriefWork'
    BY <1>1, <1>7, DebriefIdle
  <1> QED
    BY <1>5, <1>6, <1>8, <1>9, <1>10, <1>11, <1>12

\* Captures that are created, and answers that start and end.
LEMMA OtherStepKeeps ==
  ASSUME CardsInv, UNCHANGED proposalVars,
         \/ \E k \in Captures, t \in Topics : CreateCapture(k, t)
         \/ \E c \in DOMAIN cards : StartAnswer(c) \/ EndAnswer(c)
  PROVE  CardsInv'
  <1> USE DEF CardsInv, proposalVars
  <1>1. UNCHANGED <<cards, txn>>
    BY DEF CreateCapture, StartAnswer, EndAnswer
  <1>2. TopicInv' /\ ItemWork' /\ DebriefWork'
    BY <1>1, Untouched
  <1>3. ASSUME NEW k \in Captures, NEW t \in Topics, CreateCapture(k, t) PROVE CardsInv'
    <2>1. CaptureWork' /\ captures' \in [Captures -> CaptureRows \cup {Missing, Gone}]
      BY <1>3, CapturesCreated
    <2>2. LineageInv'
      BY <1>1, <1>3, Untouched DEF CreateCapture
    <2>3. \A other \in Captures : UsedUp(other) => UsedUp(other)'
      BY <1>3, RowAssumption DEF CreateCapture, UsedUp, Rows
    <2>4. OriginsOnce'
      BY <1>1, <2>3, OriginsIdle
    <2>5. Rows'
      BY <1>1, <2>1 DEF Rows
    <2> QED
      BY <1>2, <2>1, <2>2, <2>4, <2>5
  <1>4. ASSUME NEW c \in DOMAIN cards, StartAnswer(c) \/ EndAnswer(c) PROVE CardsInv'
    <2>1. UNCHANGED captures
      BY <1>4 DEF StartAnswer, EndAnswer
    <2>2. LineageInv'
      BY <1>4, AnswersKeep
    <2>3. CaptureWork'
      BY <1>1, <2>1, Untouched
    <2>4. OriginsOnce'
      BY <1>1, <2>1, OriginsIdle, UsedUpSame
    <2>5. Rows'
      BY <1>1, <2>1 DEF Rows
    <2> QED
      BY <1>2, <2>2, <2>3, <2>4, <2>5
  <1> QED
    BY <1>3, <1>4

\* The debrief.
LEMMA DebriefStepKeeps ==
  ASSUME CardsInv, NEW r \in Transactions, DebriefStep(r)
  PROVE  CardsInv'
  <1> USE DEF CardsInv
  <1>1. Becomes(r, DebriefOps) /\ UNCHANGED <<cards, answering, captures, proposals, acceptances, outcomes>>
    BY DebriefFrame DEF Rows
  <1>2. DebriefWork' /\ debrief' \in Debriefs \cup {Missing}
    BY DebriefKept
  <1>3. Rows'
    BY <1>1, <1>2 DEF Rows, Becomes
  <1>4. DebriefOps \cap LineageOps = {} /\ DebriefOps \cap ItemOps = {} /\ DebriefOps \cap CaptureOps = {}
        /\ DebriefOps \cap TopicOps = {}
    BY DEF LineageOps, TopicOps, CaptureOps, ItemOps, DebriefOps
  <1>5. LineageInv'
    BY <1>1, <1>4, LineagesIdle
  <1>6. TopicInv'
    BY <1>1, <1>4, TopicsIdle
  <1>7. CaptureWork'
    BY <1>1, <1>4, CapturesIdle
  <1>8. OriginsOnce'
    BY <1>1, OriginsIdle, UsedUpSame
  <1>9. ItemWork'
    BY <1>1, <1>4, ItemsIdle
  <1> QED
    BY <1>2, <1>3, <1>5, <1>6, <1>7, <1>8, <1>9

\* The proposals.
LEMMA ProposalStepKeeps ==
  ASSUME CardsInv, NEW r \in Transactions, ProposalStep(r)
  PROVE  CardsInv'
  <1> USE DEF CardsInv
  <1>1. Becomes(r, ProposalOps) /\ UNCHANGED <<answering, captures, debrief, promised>>
    BY ProposalFrame DEF Rows
  <1>2. \/ UNCHANGED <<cards, acceptances>>
        \/ CommitAcceptance(r)
    BY DEF ProposalStep, WantsProposals, LockAccount, CommitProposals, ReadAcceptance, CheckAcceptance, proposalVars
  <1>3. UNCHANGED cards \/ Adds
    BY <1>2, AcceptanceAdds
  <1>4. Succeeds
    BY <1>3, CardsSame, Added DEF Adds, Rows
  <1>5. OriginsOnce' /\ acceptances' \in [Keys -> Selected \cup {Missing}]
    <2>1. CASE UNCHANGED <<cards, acceptances>>
      BY <1>1, <2>1, OriginsIdle, UsedUpSame DEF Rows
    <2>2. CASE CommitAcceptance(r)
      BY <2>2, OriginsAccepted DEF TopicInv
    <2> QED
      BY <1>2, <2>1, <2>2
  <1>6. /\ ItemWork'
        /\ proposals' = [p \in DOMAIN proposals' |-> proposals'[p]] /\ DOMAIN proposals' \subseteq 1..MaxSuggested
    BY ItemsProposed DEF TopicInv
  <1>7. DOMAIN outcomes' = Keys
    BY DEF Rows, ProposalStep, WantsProposals, LockAccount, CommitProposals, ReadAcceptance, CheckAcceptance,
           CommitAcceptance, Ended, proposalVars
  <1>8. Rows'
    BY <1>1, <1>4, <1>5, <1>6, <1>7 DEF Rows, Succeeds, Becomes
  <1>9. ProposalOps \cap LineageOps = {} /\ ProposalOps \cap DebriefOps = {} /\ ProposalOps \cap CaptureOps = {}
    BY DEF LineageOps, CaptureOps, ProposalOps, DebriefOps
  <1>10. LineageInv'
    BY <1>1, <1>3, <1>9, LineagesIdle, LineagesAdded
  <1>11. TopicInv'
    BY TopicsProposed
  <1>12. CaptureWork'
    BY <1>1, <1>9, CapturesIdle
  <1>13. DebriefWork'
    BY <1>1, <1>9, DebriefIdle
  <1> QED
    BY <1>5, <1>6, <1>8, <1>10, <1>11, <1>12, <1>13

\* The user's answer to an overlap.
LEMMA ResolvingKeeps ==
  ASSUME CardsInv, Resolving
  PROVE  CardsInv'
  <1> USE DEF CardsInv
  <1>1. UNCHANGED <<cards, answering, captures, txn, debrief, promised, acceptances, outcomes>>
    BY DEF Resolving, Resolve
  <1>2. ItemWork' /\ ProposalsStay
    BY ItemsResolved
  <1>3. LineageInv' /\ TopicInv' /\ CaptureWork' /\ DebriefWork'
    BY <1>1, Untouched
  <1>4. OriginsOnce'
    BY <1>1, OriginsIdle, UsedUpSame
  <1>5. Rows'
    BY <1>1, <1>2 DEF Rows, ProposalsStay
  <1> QED
    BY <1>2, <1>3, <1>4, <1>5

\* Whatever requests do to the library of an account and to a plan item, in whichever
\* order, and whichever of them are given up, the invariant holds.
THEOREM LibraryInvariant == ProposalsSpec => []CardsInv
  <1>1. ProposalsInit => CardsInv
    BY InitHolds
  <1>2. CardsInv /\ [ProposalsNext]_<<libraryVars, proposalVars>> => CardsInv'
    <2> SUFFICES ASSUME CardsInv, [ProposalsNext]_<<libraryVars, proposalVars>> PROVE CardsInv'
      OBVIOUS
    <2>1. ASSUME NEW r \in Transactions, Rollback(r), UNCHANGED proposalVars PROVE CardsInv'
      <3>1. Becomes(r, {}) /\ UNCHANGED <<cards, answering, captures>>
        BY <2>1, FinishIs DEF Rollback, CardsInv, Rows
      <3> QED
        BY <2>1, <3>1, RollbackKeeps
    <2>2. CASE LibraryNext /\ UNCHANGED proposalVars
      BY <2>1, <2>2, LineageStepKeeps, CaptureStepKeeps, OtherStepKeeps DEF LibraryNext
    <2>3. CASE \E r \in Transactions : DebriefStep(r) \/ ProposalStep(r)
      BY <2>3, DebriefStepKeeps, ProposalStepKeeps
    <2>4. CASE Resolving
      BY <2>4, ResolvingKeeps
    <2>5. CASE UNCHANGED <<libraryVars, proposalVars>>
      <3>1. UNCHANGED <<cards, answering, captures, txn, debrief, promised, proposals, acceptances, outcomes>>
        BY <2>5 DEF libraryVars, proposalVars
      <3>2. LineageInv' /\ TopicInv' /\ CaptureWork' /\ ItemWork' /\ DebriefWork'
        BY <3>1, Untouched DEF CardsInv
      <3>3. OriginsOnce'
        BY <3>1, OriginsIdle, UsedUpSame DEF CardsInv
      <3>4. Rows'
        BY <3>1 DEF CardsInv, Rows
      <3> QED
        BY <3>2, <3>3, <3>4 DEF CardsInv
    <2> QED
      BY <2>2, <2>3, <2>4, <2>5 DEF ProposalsNext
  <1> QED
    BY <1>1, <1>2, PTL DEF ProposalsSpec

\* The two sides of every replacement agree, a lineage has one active card at most, an
\* answer is about an active one, and two cards have one topic only if they are of one
\* lineage (_owned_lineage_for_update and lock_topic_creation).
THEOREM LibraryWhole == ProposalsSpec => []LibraryIsWhole
  <1>1. CardsInv => LibraryIsWhole
    <2> SUFFICES ASSUME CardsInv PROVE LibraryIsWhole
      OBVIOUS
    <2>1. Linked(cards) /\ ActiveOnce /\ TopicsAreUnique
      BY DEF CardsInv, Rows, LineageInv, TopicInv
    <2>2. ASSUME NEW c \in DOMAIN cards PROVE Cardinality({d \in Component(c) : cards[d].active}) <= 1
      <3> DEFINE A == {d \in Component(c) : cards[d].active}
      <3>1. Component(c) = {d \in DOMAIN cards : Root(d) = Root(c)}
        BY <2>1, ComponentIs
      <3>2. \A d, e \in A : d = e
        BY <2>1, <3>1 DEF ActiveOnce
      <3>3. CASE A = {}
        <4>1. Cardinality({}) = 0
          BY FS_EmptySet
        <4> QED
          BY <3>3, <4>1
      <3>4. ASSUME NEW d \in A PROVE Cardinality(A) <= 1
        <4>1. A = {d}
          BY <3>2, <3>4
        <4> HIDE DEF A
        <4>2. Cardinality({d}) = 1
          BY FS_Singleton
        <4> QED
          BY <4>1, <4>2
      <3> QED
        BY <3>3, <3>4
    <2>3. \A c, d \in DOMAIN cards : (cards[c].prev = d) <=> (cards[d].next = c)
      BY <2>1 DEF Linked
    <2>4. LineagesAreWhole
      BY <2>1, <2>2, <2>3 DEF LineagesAreWhole, ActiveOnce
    <2> QED
      BY <2>1, <2>4 DEF LibraryIsWhole
  <1> QED
    BY <1>1, LibraryInvariant, PTL

\* Neither a retry nor a late writer undoes what an earlier request was told: a capture
\* becomes one card at most and a key one batch, the item is proposed for once, a key that
\* made its cards is not told they were in the way, and a confirmed debrief stands.
THEOREM ProposalsSound == ProposalsSpec => []ProposalsAreSound
  <1>1. CardsInv => ProposalsAreSound
    BY DEF CardsInv, OriginsOnce, ItemWork, DebriefWork, ProposalsAreSound, CreatedOnce
  <1> QED
    BY <1>1, LibraryInvariant, PTL

-----------------------------------------------------------------------------
(***************************************************************************)
(* The rows of the account those cards are of                              *)
(***************************************************************************)
\* How far a table is from the account's.
Rank(t) ==
    CASE t = "users" -> 0
      [] t \in {"receipts", "proposals", "sessions", "assignments", "phases", "revisions",
                "duplications"} -> 2
      [] t \in {"checks", "audits", "probes", "weeks"} -> 3
      [] t = "items" -> 4
      [] t \in {"dependencies", "debriefs", "card_proposals"} -> 5
      [] t = "acceptances" -> 6
      [] t = "links" -> 7
      [] OTHER -> 1

LEMMA RankIsNat == \A t : Rank(t) \in Nat
  BY DEF Rank

\* A row stands on rows nearer to the account's.
LEMMA RankFalls ==
  ASSUME NEW r \in Refs, r.onDelete = "cascade"
  PROVE  Rank(r.to) < Rank(r.from)
  <1>1. CASE r \in OwnedRows
    BY <1>1 DEF OwnedRows, Ref, Rank
  <1>2. CASE r \in IdentityRows \cup CardRows
    BY <1>2 DEF IdentityRows, CardRows, Ref, Rank
  <1>3. CASE r \in SourceRows \cup LessonRows
    BY <1>3 DEF SourceRows, LessonRows, Ref, Rank
  <1>4. CASE r \in PilotRows \cup PlanRows
    BY <1>4 DEF PilotRows, PlanRows, Ref, Rank
  <1>5. CASE r \in PlanHistoryRows
    BY <1>5 DEF PlanHistoryRows, Ref, Rank
  <1>6. CASE r \in PlanCardRows
    BY <1>6 DEF PlanCardRows, Ref, Rank
  <1> QED
    BY <1>1, <1>2, <1>3, <1>4, <1>5, <1>6 DEF Refs

\* Reading one list of tables after another reads the tables of both.
LEMMA BothRead ==
  ASSUME NEW S, NEW a \in Seq(S), NEW b \in Seq(S)
  PROVE  a \o b \in Seq(S) /\ ToSet(a \o b) = ToSet(a) \cup ToSet(b)
  <1>1. /\ a \o b \in Seq(S) /\ Len(a \o b) = Len(a) + Len(b)
        /\ DOMAIN a = 1 .. Len(a) /\ DOMAIN b = 1 .. Len(b) /\ Len(a) \in Nat /\ Len(b) \in Nat
        /\ DOMAIN (a \o b) = 1 .. Len(a) + Len(b)
        /\ \A i \in 1 .. Len(a) : (a \o b)[i] = a[i]
        /\ \A i \in 1 .. Len(b) : (a \o b)[Len(a) + i] = b[i]
    OBVIOUS
  <1> DEFINE c == a \o b
  <1> HIDE DEF c
  <1>2. ASSUME NEW x \in ToSet(c) PROVE x \in ToSet(a) \cup ToSet(b)
    <2>1. PICK i \in DOMAIN c : x = c[i]
      BY <1>2 DEF ToSet
    <2>2. CASE i \in 1 .. Len(a)
      BY <1>1, <2>1, <2>2 DEF ToSet, c
    <2>3. CASE i \notin 1 .. Len(a)
      <3>1. i - Len(a) \in 1 .. Len(b) /\ i = Len(a) + (i - Len(a))
        BY <1>1, <2>1, <2>3 DEF c
      <3>2. x = b[i - Len(a)]
        BY <1>1, <2>1, <3>1 DEF c
      <3> QED
        BY <1>1, <3>1, <3>2 DEF ToSet
    <2> QED
      BY <2>2, <2>3
  <1>3. ASSUME NEW x \in ToSet(a) \cup ToSet(b) PROVE x \in ToSet(c)
    <2>1. CASE x \in ToSet(a)
      <3>1. PICK i \in DOMAIN a : x = a[i]
        BY <2>1 DEF ToSet
      <3>2. i \in DOMAIN c /\ c[i] = x
        BY <1>1, <3>1 DEF c
      <3> QED
        BY <3>2 DEF ToSet
    <2>2. CASE x \in ToSet(b)
      <3>1. PICK i \in DOMAIN b : x = b[i]
        BY <2>2 DEF ToSet
      <3>2. Len(a) + i \in DOMAIN c /\ c[Len(a) + i] = x
        BY <1>1, <3>1 DEF c
      <3> QED
        BY <3>2 DEF ToSet
    <2> QED
      BY <1>3, <2>1, <2>2
  <1> QED
    BY <1>1, <1>2, <1>3 DEF c

TableNames ==
    {"users", "settings", "identities", "receipts", "auth_sessions", "devices", "drafts",
     "sources", "proposals", "cards", "captures", "sessions", "probes", "plans", "phases",
     "weeks", "items", "dependencies", "revisions", "debriefs", "card_proposals",
     "acceptances", "links", "duplications", "consents", "usage", "checks", "audits",
     "enrollments", "assignments"}

\* The tables are those of the five lists.
LEMMA TablesAre ==
  /\ Tables = ToSet(AccountReads) \cup ToSet(LibraryReads) \cup ToSet(PlanReads)
                  \cup ToSet(PlanCardReads) \cup ToSet(PilotReads)
  /\ ExportOrder \in Seq(TableNames)
  <1>1. /\ AccountReads \in Seq(TableNames) /\ LibraryReads \in Seq(TableNames)
        /\ PlanReads \in Seq(TableNames) /\ PlanCardReads \in Seq(TableNames)
        /\ PilotReads \in Seq(TableNames)
    <2>1. AccountReads \in Seq(TableNames)
      BY DEF AccountReads, TableNames
    <2>2. LibraryReads \in Seq(TableNames)
      BY DEF LibraryReads, TableNames
    <2>3. PlanReads \in Seq(TableNames)
      BY DEF PlanReads, TableNames
    <2>4. PlanCardReads \in Seq(TableNames)
      BY DEF PlanCardReads, TableNames
    <2>5. PilotReads \in Seq(TableNames)
      BY DEF PilotReads, TableNames
    <2> QED
      BY <2>1, <2>2, <2>3, <2>4, <2>5
  <1> DEFINE a == AccountReads \o LibraryReads
             b == a \o PlanReads
             c == b \o PlanCardReads
             d == c \o PilotReads
  <1>2. a \in Seq(TableNames) /\ ToSet(a) = ToSet(AccountReads) \cup ToSet(LibraryReads)
    BY <1>1, BothRead
  <1> HIDE DEF a
  <1>3. b \in Seq(TableNames) /\ ToSet(b) = ToSet(a) \cup ToSet(PlanReads)
    BY <1>1, <1>2, BothRead
  <1> HIDE DEF b
  <1>4. c \in Seq(TableNames) /\ ToSet(c) = ToSet(b) \cup ToSet(PlanCardReads)
    BY <1>1, <1>3, BothRead
  <1> HIDE DEF c
  <1>5. d \in Seq(TableNames) /\ ToSet(d) = ToSet(c) \cup ToSet(PilotReads)
    BY <1>1, <1>4, BothRead
  <1>6. ExportOrder = d
    BY DEF ExportOrder, a, b, c, d
  <1> QED
    BY <1>2, <1>3, <1>4, <1>5, <1>6 DEF Tables

\* Every foreign key is between tables the export reads.
LEMMA RefsAreTables ==
  /\ \A r \in Refs : r.to \in Tables /\ r.from \in Tables
  /\ {"users", "cards", "sessions", "probes"} \subseteq Tables
  <1>1. /\ {"users", "settings", "identities", "receipts", "auth_sessions", "devices"}
               \subseteq ToSet(AccountReads)
        /\ {"drafts", "sources", "proposals", "cards", "captures", "sessions", "probes"}
               \subseteq ToSet(LibraryReads)
        /\ {"plans", "phases", "weeks", "items", "dependencies", "revisions", "debriefs"}
               \subseteq ToSet(PlanReads)
        /\ {"card_proposals", "acceptances", "links", "duplications"} \subseteq ToSet(PlanCardReads)
        /\ {"consents", "usage", "checks", "audits", "enrollments", "assignments"}
               \subseteq ToSet(PilotReads)
    BY DEF ToSet, AccountReads, LibraryReads, PlanReads, PlanCardReads, PilotReads
  <1>2. TableNames \subseteq Tables
    BY <1>1, TablesAre DEF TableNames
  <1>3. \A r \in OwnedRows \cup IdentityRows \cup CardRows : r.to \in Tables /\ r.from \in Tables
    BY <1>2 DEF TableNames, OwnedRows, IdentityRows, CardRows, Ref
  <1>4. \A r \in SourceRows \cup LessonRows \cup PilotRows : r.to \in Tables /\ r.from \in Tables
    BY <1>2 DEF TableNames, SourceRows, LessonRows, PilotRows, Ref
  <1>5. \A r \in PlanRows \cup PlanHistoryRows : r.to \in Tables /\ r.from \in Tables
    BY <1>2 DEF TableNames, PlanRows, PlanHistoryRows, Ref
  <1>6. \A r \in PlanCardRows : r.to \in Tables /\ r.from \in Tables
    BY <1>2 DEF TableNames, PlanCardRows, Ref
  <1> QED
    BY <1>2, <1>3, <1>4, <1>5, <1>6 DEF Refs, TableNames

\* What a table needs are the targets of its cascading keys, all nearer to the account.
LEMMA NeedsAre ==
  /\ DOMAIN Needs = Tables
  /\ \A t \in Tables : \A p : p \in Needs[t] <=>
         \E r \in Refs : r.from = t /\ r.to = p /\ r.onDelete = "cascade"
  /\ \A t \in Tables : \A p : p \in Needs[t] => p \in Tables /\ Rank(p) < Rank(t)
  <1>1. DOMAIN Needs = Tables
    BY DEF Needs
  <1>2. ASSUME NEW t \in Tables, NEW p
        PROVE  p \in Needs[t] <=> \E r \in Refs : r.from = t /\ r.to = p /\ r.onDelete = "cascade"
    BY DEF Needs
  <1> QED
    BY <1>1, <1>2, RefsAreTables, RankFalls

\* A table has a function that says what it stands on.
LEMMA StandsExists ==
  \E f : f = [t \in Tables |-> {t} \cup UNION {f[p] : p \in Needs[t]}]
  <1> DEFINE Upto(n) == {t \in Tables : Rank(t) <= n}
             Good(n, f) == f = [t \in Upto(n) |-> {t} \cup UNION {f[p] : p \in Needs[t]}]
             S == {n \in Nat : \E f : Good(n, f)}
  <1>1. \A t \in Tables : \A p : p \in Needs[t] => p \in Tables /\ Rank(p) < Rank(t)
    BY NeedsAre
  <1>2. ASSUME NEW n \in Nat, \A m \in Nat : m < n => m \in S PROVE n \in S
    <2>1. \E g : \A t \in Tables : Rank(t) < n => g[t] = {t} \cup UNION {g[p] : p \in Needs[t]}
      <3>1. CASE n = 0
        BY <3>1, RankIsNat
      <3>2. CASE n # 0
        <4>1. n - 1 \in Nat /\ n - 1 < n
          BY <3>2
        <4>2. n - 1 \in S
          <5> HIDE DEF S
          <5> QED
            BY <1>2, <4>1
        <4>3. PICK g : Good(n - 1, g)
          BY <4>2
        <4>4. ASSUME NEW t \in Tables, Rank(t) < n
              PROVE  g[t] = {t} \cup UNION {g[p] : p \in Needs[t]}
          <5>1. t \in Upto(n - 1)
            BY <4>1, <4>4, RankIsNat
          <5> HIDE DEF Upto
          <5> QED
            BY <4>3, <5>1
        <4> QED
          BY <4>4
      <3> QED
        BY <3>1, <3>2
    <2>2. PICK g : \A t \in Tables : Rank(t) < n => g[t] = {t} \cup UNION {g[p] : p \in Needs[t]}
      BY <2>1
    <2> DEFINE f == [t \in Upto(n) |-> {t} \cup UNION {g[p] : p \in Needs[t]}]
    <2>3. ASSUME NEW p \in Tables, Rank(p) < n PROVE p \in Upto(n) /\ f[p] = g[p]
      <3>1. p \in Upto(n)
        BY <2>3, RankIsNat
      <3>2. f[p] = {p} \cup UNION {g[q] : q \in Needs[p]}
        <4> HIDE DEF Upto
        <4> QED
          BY <3>1
      <3> QED
        BY <2>2, <2>3, <3>1, <3>2
    <2>4. ASSUME NEW t \in Upto(n) PROVE {f[p] : p \in Needs[t]} = {g[p] : p \in Needs[t]}
      <3>1. \A p \in Needs[t] : p \in Tables /\ Rank(p) < n
        BY <1>1, RankIsNat
      <3> HIDE DEF f, Upto
      <3> QED
        BY <2>3, <3>1
    <2>5. Good(n, f)
      <3> HIDE DEF Upto
      <3> SUFFICES f = [t \in Upto(n) |-> {t} \cup UNION {f[p] : p \in Needs[t]}]
        OBVIOUS
      <3>1. \A t \in Upto(n) : {t} \cup UNION {f[p] : p \in Needs[t]}
                                   = {t} \cup UNION {g[p] : p \in Needs[t]}
        <4> HIDE DEF f
        <4> QED
          BY <2>4
      <3> QED
        BY <3>1
    <2> QED
      BY <2>5
  <1>3. 7 \in S
    <2> HIDE DEF S
    <2>1. Nat \subseteq S
      BY <1>2, Inductively
    <2> QED
      BY <2>1
  <1>4. PICK f : Good(7, f)
    BY <1>3
  <1>5. Upto(7) = Tables
    BY DEF Rank
  <1> QED
    BY <1>4, <1>5

\* The recursion that says what a row stands on is well-founded.
LEMMA StandsOnIs ==
  \A t \in Tables : StandsOn[t] = {t} \cup UNION {StandsOn[p] : p \in Needs[t]}
  <1> DEFINE f == CHOOSE f : f = [t \in Tables |-> {t} \cup UNION {f[p] : p \in Needs[t]}]
  <1>1. f = [t \in Tables |-> {t} \cup UNION {f[p] : p \in Needs[t]}]
    BY StandsExists
  <1>2. StandsOn = f
    BY DEF StandsOn
  <1> HIDE DEF f
  <1>3. \A t \in Tables : f[t] = {t} \cup UNION {f[p] : p \in Needs[t]}
    BY <1>1
  <1> QED
    BY <1>2, <1>3

\* Nothing that is left needs what a deletion takes along.
LEMMA DeletionIsWhole ==
  ASSUME NEW t \in Tables, NEW u \in Tables, Needs[u] \cap DeletedWith[t] # {}
  PROVE  u \in DeletedWith[t]
  <1>1. PICK p \in Needs[u] : p \in DeletedWith[t]
    OBVIOUS
  <1>2. p \in Tables /\ t \in StandsOn[p]
    BY <1>1 DEF DeletedWith
  <1>3. t \in StandsOn[u]
    BY <1>2, StandsOnIs
  <1> QED
    BY <1>3 DEF DeletedWith

-----------------------------------------------------------------------------
\* What the export has taken, it has taken with what it reads it through.
ExportIsSound ==
    /\ DOMAIN held = Tables /\ taken \subseteq Tables
    /\ \A t \in taken :
           /\ Projecting[t]["in"] \subseteq taken
           /\ held[t] \subseteq UNION {Projecting[t][mode] : mode \in {"in", "null", "raw"}}

OwnedInv == rows \subseteq Tables /\ RowsAreOwned /\ ExportIsSound

\* The export treats a key in one of three ways.
LEMMA ExportModes ==
  \A r \in Refs : r.export \in {"in", "null", "raw"}
  <1>1. \A r \in OwnedRows \cup IdentityRows \cup CardRows : r.export \in {"in", "null", "raw"}
    BY DEF OwnedRows, IdentityRows, CardRows, Ref
  <1>2. \A r \in SourceRows \cup LessonRows \cup PilotRows : r.export \in {"in", "null", "raw"}
    BY DEF SourceRows, LessonRows, PilotRows, Ref
  <1>3. \A r \in PlanRows \cup PlanHistoryRows : r.export \in {"in", "null", "raw"}
    BY DEF PlanRows, PlanHistoryRows, Ref
  <1>4. \A r \in PlanCardRows : r.export \in {"in", "null", "raw"}
    BY DEF PlanCardRows, Ref
  <1> QED
    BY <1>1, <1>2, <1>3, <1>4 DEF Refs

\* A row refers to nothing its projection does not know of.
LEMMA ReferencesAre ==
  ASSUME NEW t \in Tables
  PROVE  References(t) \subseteq UNION {Projecting[t][mode] : mode \in {"in", "null", "raw"}}
  <1>1. \A mode \in {"in", "null", "raw"} :
            Projecting[t][mode] = {r.to : r \in {r \in Refs : r.from = t /\ r.export = mode}}
    BY DEF Projecting
  <1>2. ASSUME NEW p \in References(t)
        PROVE  \E mode \in {"in", "null", "raw"} : p \in Projecting[t][mode]
    <2>1. PICK r \in Refs : r.from = t /\ r.to = p
      BY <1>2 DEF References
    <2>2. r.export \in {"in", "null", "raw"}
      BY ExportModes
    <2> QED
      BY <1>1, <2>1, <2>2
  <1> QED
    BY <1>2

LEMMA OwnedStarts == ASSUME DataInit PROVE OwnedInv
  <1>1. rows \subseteq Tables /\ RowsAreOwned
    <2>1. CASE rows = Tables
      BY <2>1, NeedsAre DEF RowsAreOwned
    <2>2. ASSUME NEW t \in Absent, rows = Tables \ DeletedWith[t] PROVE RowsAreOwned
      <3>1. t \in Tables
        BY <2>2, AbsentAssumption
      <3> QED
        BY <2>2, <3>1, NeedsAre, DeletionIsWhole DEF RowsAreOwned
    <2> QED
      BY <2>1, <2>2 DEF DataInit
  <1> QED
    BY <1>1 DEF OwnedInv, ExportIsSound, DataInit

LEMMA OwnedKeeps == ASSUME OwnedInv, [DataNext]_dataVars PROVE OwnedInv'
  <1>1. CASE UNCHANGED dataVars
    BY <1>1 DEF dataVars, OwnedInv, RowsAreOwned, ExportIsSound
  <1>2. CASE ExportStart
    BY <1>2 DEF ExportStart, OwnedInv, RowsAreOwned, ExportIsSound
  <1>3. CASE ExportRead
    <2> DEFINE t == ExportOrder[position]
    <2>1. t \in Tables /\ rows' = rows
      BY <1>3 DEF ExportRead, Tables, ToSet
    <2>2. CASE UNCHANGED <<taken, held>>
      BY <2>1, <2>2 DEF OwnedInv, RowsAreOwned, ExportIsSound
    <2>3. CASE Found(t) /\ taken' = taken \cup {t} /\ held' = [held EXCEPT ![t] = References(t)]
      <3> HIDE DEF t
      <3>1. Projecting[t]["in"] \subseteq taken
        BY <2>3 DEF Found
      <3>2. \A u \in taken' : held'[u] = IF u = t THEN References(t) ELSE held[u]
        BY <2>1, <2>3 DEF OwnedInv, ExportIsSound
      <3>3. ExportIsSound'
        BY <2>1, <2>3, <3>1, <3>2, ReferencesAre DEF OwnedInv, ExportIsSound
      <3> QED
        BY <2>1, <3>3 DEF OwnedInv, RowsAreOwned
    <2> QED
      BY <1>3, <2>2, <2>3 DEF ExportRead
  <1>4. ASSUME NEW t \in Tables, CreateRow(t) PROVE OwnedInv'
    BY <1>4 DEF CreateRow, OwnedInv, RowsAreOwned, ExportIsSound
  <1>5. ASSUME NEW t \in Deletable, DeleteRow(t) PROVE OwnedInv'
    <2>1. /\ t \in rows /\ rows' = rows \ DeletedWith[t] /\ UNCHANGED <<held, taken>>
          /\ t \in Tables /\ rows \subseteq Tables
      BY <1>5 DEF DeleteRow, OwnedInv
    <2>2. RowsAreOwned'
      BY <2>1, DeletionIsWhole DEF OwnedInv, RowsAreOwned
    <2> QED
      BY <2>1, <2>2 DEF OwnedInv, ExportIsSound
  <1> QED
    BY <1>1, <1>2, <1>3, <1>4, <1>5 DEF DataNext

LEMMA OwnedIsWhole == ASSUME OwnedInv PROVE DataIsWhole
  <1>1. ASSUME NEW t \in taken PROVE KeptReferences(t) \ Projecting[t]["raw"] \subseteq taken
    BY DEF OwnedInv, ExportIsSound, KeptReferences
  <1> QED
    BY <1>1 DEF OwnedInv, DataIsWhole, ExportIsClosed

\* A card stands on its account alone, a session on its card, a probe on its session.
LEMMA StandsOnNames ==
  /\ StandsOn["users"] = {"users"} /\ StandsOn["cards"] = {"cards", "users"}
  /\ StandsOn["sessions"] = {"sessions", "cards", "users"}
  /\ StandsOn["probes"] = {"probes", "sessions", "cards", "users"}
  <1>1. /\ Needs["users"] = {} /\ Needs["cards"] = {"users"}
        /\ Needs["sessions"] = {"cards"} /\ Needs["probes"] = {"sessions"}
    <2>1. \A r \in OwnedRows : r.onDelete = "cascade" =>
             r.from \notin {"users", "sessions", "probes"} /\ (r.from = "cards" => r.to = "users")
      BY DEF OwnedRows, Ref
    <2>2. \A r \in IdentityRows \cup CardRows : r.onDelete = "cascade" =>
             /\ r.from \notin {"users", "cards"}
             /\ r.from = "sessions" => r.to = "cards"
             /\ r.from = "probes" => r.to = "sessions"
      BY DEF IdentityRows, CardRows, Ref
    <2>3. \A r \in SourceRows \cup LessonRows \cup PilotRows :
             r.from \notin {"users", "cards", "sessions", "probes"}
      BY DEF SourceRows, LessonRows, PilotRows, Ref
    <2>4. \A r \in PlanRows \cup PlanHistoryRows :
             r.from \notin {"users", "cards", "sessions", "probes"}
      BY DEF PlanRows, PlanHistoryRows, Ref
    <2>5. \A r \in PlanCardRows : r.from \notin {"users", "cards", "sessions", "probes"}
      BY DEF PlanCardRows, Ref
    <2>6. \A r \in Refs : r.onDelete = "cascade" =>
             /\ r.from # "users" /\ (r.from = "cards" => r.to = "users")
             /\ r.from = "sessions" => r.to = "cards"
             /\ r.from = "probes" => r.to = "sessions"
      BY <2>1, <2>2, <2>3, <2>4, <2>5 DEF Refs
    <2>7. /\ Ref("cards", "users", "cascade", "in") \in Refs
          /\ Ref("sessions", "cards", "cascade", "raw") \in Refs
          /\ Ref("probes", "sessions", "cascade", "in") \in Refs
      BY DEF Refs, OwnedRows, CardRows
    <2>8. \A c, p, e : /\ Ref(c, p, "cascade", e).from = c /\ Ref(c, p, "cascade", e).to = p
                       /\ Ref(c, p, "cascade", e).onDelete = "cascade"
      BY DEF Ref
    <2>9. \A t \in {"users", "cards", "sessions", "probes"} : \A p : p \in Needs[t] <=>
             \E r \in Refs : r.from = t /\ r.to = p /\ r.onDelete = "cascade"
      BY NeedsAre, RefsAreTables
    <2>10. /\ "users" \in Needs["cards"] /\ "cards" \in Needs["sessions"]
           /\ "sessions" \in Needs["probes"]
      BY <2>7, <2>8, <2>9
    <2>11. /\ \A p : p \notin Needs["users"] /\ (p \in Needs["cards"] => p = "users")
           /\ \A p : p \in Needs["sessions"] => p = "cards"
           /\ \A p : p \in Needs["probes"] => p = "sessions"
      BY <2>6, <2>9
    <2> QED
      BY <2>10, <2>11
  <1>2. \A t \in {"users", "cards", "sessions", "probes"} :
            StandsOn[t] = {t} \cup UNION {StandsOn[p] : p \in Needs[t]}
    BY StandsOnIs, RefsAreTables
  <1>3. StandsOn["users"] = {"users"}
    BY <1>1, <1>2
  <1>4. StandsOn["cards"] = {"cards", "users"}
    BY <1>1, <1>2, <1>3
  <1>5. StandsOn["sessions"] = {"sessions", "cards", "users"}
    BY <1>1, <1>2, <1>4
  <1>6. StandsOn["probes"] = {"probes", "sessions", "cards", "users"}
    BY <1>1, <1>2, <1>5
  <1> QED
    BY <1>3, <1>4, <1>5, <1>6

\* No row is without one it cannot exist without, and a finished export names no row it
\* does not hold, whatever was created or deleted between its statements.
THEOREM DataStaysWhole == DataSpec => []DataIsWhole
  <1>1. DataInit => OwnedInv
    BY OwnedStarts
  <1>2. OwnedInv /\ [DataNext]_dataVars => OwnedInv'
    BY OwnedKeeps
  <1>3. OwnedInv => DataIsWhole
    BY OwnedIsWhole
  <1> QED
    BY <1>1, <1>2, <1>3, PTL DEF DataSpec

\* Nothing that has a handler deletes what a card, a session or a probe stands on.
LEMMA HistoryKeeps ==
  ASSUME OwnedInv, [DataNext]_dataVars, NEW t \in {"cards", "sessions", "probes"},
         t \in rows, "users" \in rows'
  PROVE  t \in rows'
  <1>1. CASE rows \subseteq rows'
    BY <1>1
  <1>2. ASSUME NEW d \in Deletable, DeleteRow(d) PROVE t \in rows'
    <2>1. /\ d \in rows /\ rows' = rows \ DeletedWith[d] /\ rows \subseteq Tables
      BY <1>2 DEF DeleteRow, OwnedInv
    <2>2. d # "users"
      BY <2>1, StandsOnNames, RefsAreTables DEF DeletedWith
    <2>3. d \notin StandsOn[t]
      BY <2>2, StandsOnNames DEF Deletable
    <2> QED
      BY <2>1, <2>3 DEF DeletedWith
  <1>3. CASE ExportStart \/ ExportRead \/ UNCHANGED dataVars
    BY <1>1, <1>3 DEF ExportStart, ExportRead, dataVars
  <1>4. ASSUME NEW u \in Tables, CreateRow(u) PROVE t \in rows'
    BY <1>1, <1>4 DEF CreateRow
  <1> QED
    BY <1>2, <1>3, <1>4 DEF DataNext

\* While the account stands, no step takes a card, a session or a probe: the cascades of
\* models.py reach review history from the account's row only.
THEOREM HistoryOutlives == DataSpec => HistorySurvives
  <1>1. DataInit => OwnedInv
    BY OwnedStarts
  <1>2. OwnedInv /\ [DataNext]_dataVars => OwnedInv'
    BY OwnedKeeps
  <1>3. OwnedInv /\ [DataNext]_dataVars =>
            [\A t \in {"cards", "sessions", "probes"} :
                t \in rows /\ "users" \in rows' => t \in rows']_dataVars
    BY HistoryKeeps
  <1> QED
    BY <1>1, <1>2, <1>3, PTL DEF DataSpec, HistorySurvives

=============================================================================

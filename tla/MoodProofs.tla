----------------------------- MODULE MoodProofs -----------------------------
(***************************************************************************)
(* Proofs about the mood system, for any names, relevances and values and  *)
(* any number of calls.  MoodGraph: ListInv is inductive by itself.  As    *)
(* long as there are fewer moods than ids, ids are places and edges come   *)
(* in pairs: what a call does to a list is described mood by mood, and     *)
(* then EdgeInv moves from the old list to the new one.  Then a caller     *)
(* cannot tell the lists with their ids and edges from a symmetric         *)
(* relation on names (MoodRelation): everything is said about the ties     *)
(* between two places of a list, and each call is matched.  Behind it the  *)
(* sequential parts beside the graph: the frames (FrameConfig), the search *)
(* (FileSearch), the first number and the largest face (Utils) and the     *)
(* queue of the study code (MoodQueue); at the end, all of them side by    *)
(* side (MCMoods).                                                         *)
(***************************************************************************)
EXTENDS MCMoods, FiniteSetTheorems, WellFoundedInduction, TLAPS

(* Searching and taking out                                                *)

\* The order of the numbers is well-founded.
LEMMA NumbersWellFounded == IsWellFoundedOn({ss \in Nat \X Nat : ss[1] < ss[2]}, Nat)
BY NatLessThanWellFounded DEF OpToRel

LEMMA MinIn ==
  ASSUME NEW S \in SUBSET Nat, S # {}
  PROVE  Min(S) \in S /\ \A y \in S : Min(S) <= y
<1> DEFINE R == {ss \in Nat \X Nat : ss[1] < ss[2]}
<1>1. IsWellFoundedOn(R, Nat)
  BY NumbersWellFounded
<1>2. \E x \in S : \A y \in S : ~ (<<y, x>> \in R)
  <2> HIDE DEF R
  <2> QED BY <1>1, WFMin
<1>3. \A x, y \in S : <<y, x>> \in R <=> y < x
  OBVIOUS
<1>4. \E x \in S : \A y \in S : x =< y
  <2> HIDE DEF R
  <2>1. \A x, y \in S : ~ (y < x) => x =< y
    OBVIOUS
  <2> QED BY <1>2, <1>3, <2>1
<1> QED BY <1>4 DEF Min

LEMMA Located ==
  ASSUME NEW l \in Seq(AnyMood), NEW n
  PROVE  /\ LocateByName(l, n) \in 0 .. Len(l)
         /\ LocateByName(l, n) # 0 => l[LocateByName(l, n)].name = n
         /\ LocateByName(l, n) = 0 => \A p \in 1 .. Len(l) : l[p].name # n
<1> DEFINE I == {i \in 1 .. Len(l) : l[i].name = n}
<1>1. LocateByName(l, n) = IF I # {} THEN Min(I) ELSE 0
  BY DEF LocateByName, SelectInSeq
<1>2. I \in SUBSET Nat /\ Len(l) \in Nat
  OBVIOUS
<1>3. I # {} => Min(I) \in I
  <2> HIDE DEF I
  <2> QED BY <1>2, MinIn
<1> QED BY <1>1, <1>2, <1>3

\* Taking out the element at k.
LEMMA TakenOut ==
  ASSUME NEW S, NEW s \in Seq(S), NEW k \in 1 .. Len(s)
  PROVE  /\ RemoveAt(s, k) \in Seq(S)
         /\ Len(RemoveAt(s, k)) = Len(s) - 1
         /\ \A p \in 1 .. Len(s) - 1 : RemoveAt(s, k)[p] = IF p < k THEN s[p] ELSE s[p + 1]
<1> Len(s) \in Nat OBVIOUS
<1>1. /\ SubSeq(s, 1, k - 1) \in Seq(S) /\ Len(SubSeq(s, 1, k - 1)) = k - 1
      /\ \A p \in 1 .. k - 1 : SubSeq(s, 1, k - 1)[p] = s[p]
  OBVIOUS
<1>2. /\ SubSeq(s, k + 1, Len(s)) \in Seq(S) /\ Len(SubSeq(s, k + 1, Len(s))) = Len(s) - k
      /\ \A p \in 1 .. Len(s) - k : SubSeq(s, k + 1, Len(s))[p] = s[p + k]
  OBVIOUS
<1> DEFINE a == SubSeq(s, 1, k - 1)
           b == SubSeq(s, k + 1, Len(s))
<1>3. a \in Seq(S) /\ b \in Seq(S) /\ Len(a) = k - 1 /\ Len(b) = Len(s) - k
  BY <1>1, <1>2
<1>4. RemoveAt(s, k) = a \o b
  BY DEF RemoveAt
<1> HIDE DEF a, b
<1>5. a \o b \in Seq(S) /\ Len(a \o b) = Len(s) - 1
  BY <1>3
<1>6. \A p \in 1 .. Len(s) - 1 : (a \o b)[p] = IF p < k THEN a[p] ELSE b[p - (k - 1)]
  BY <1>3
<1>7. \A p \in 1 .. Len(s) - 1 : p >= k => b[p - (k - 1)] = s[p + 1]
  <2> TAKE p \in 1 .. Len(s) - 1
  <2> HAVE p >= k
  <2>1. p - (k - 1) \in 1 .. Len(s) - k /\ (p - (k - 1)) + k = p + 1
    OBVIOUS
  <2> QED BY <2>1, <1>2 DEF b
<1>8. \A p \in 1 .. Len(s) - 1 : p < k => a[p] = s[p]
  BY <1>1 DEF a
<1> QED BY <1>4, <1>5, <1>6, <1>7, <1>8

LEMMA InFront ==
  ASSUME NEW S, NEW s \in Seq(S), NEW x \in S
  PROVE  /\ <<x>> \o s \in Seq(S) /\ Len(<<x>> \o s) = Len(s) + 1
         /\ (<<x>> \o s)[1] = x
         /\ \A p \in 1 .. Len(s) : (<<x>> \o s)[p + 1] = s[p]
OBVIOUS

Edged(m, s) == [m EXCEPT !.edges = s]

LEMMA FieldsOfMood ==
  ASSUME NEW m \in AnyMood
  PROVE  m.name \in Names \ LongNames /\ m.id \in Int /\ m.edges \in Seq(AnyEdge) /\ m.value \in Int
BY DEF AnyMood

LEMMA EdgedIs ==
  ASSUME NEW m \in AnyMood, NEW s \in Seq(AnyEdge)
  PROVE  /\ Edged(m, s) \in AnyMood /\ Edged(m, s).name = m.name /\ Edged(m, s).id = m.id
         /\ Edged(m, s).value = m.value /\ Edged(m, s).edges = s
BY DEF AnyMood, Edged

Valued(m, v) == [m EXCEPT !.value = v]

LEMMA ValuedIs ==
  ASSUME NEW m \in AnyMood, NEW v \in Int
  PROVE  /\ Valued(m, v) \in AnyMood /\ Valued(m, v).name = m.name /\ Valued(m, v).id = m.id
         /\ Valued(m, v).edges = m.edges /\ Valued(m, v).value = v
BY DEF AnyMood, Valued

MovedUp(m) == [m EXCEPT !.id = @ - 1]

LEMMA MovedUpIs ==
  ASSUME NEW m \in AnyMood
  PROVE  /\ MovedUp(m) \in AnyMood /\ MovedUp(m).name = m.name /\ MovedUp(m).id = m.id - 1
         /\ MovedUp(m).value = m.value /\ MovedUp(m).edges = m.edges
BY DEF AnyMood, MovedUp

\* The same moods, whatever happened to their values and edges; or to their edges only.
SameMoods(l, m) ==
  /\ m \in Seq(AnyMood) /\ Len(m) = Len(l)
  /\ \A p \in 1 .. Len(l) : m[p].name = l[p].name /\ m[p].id = l[p].id
Alike(l, m) == SameMoods(l, m) /\ \A p \in 1 .. Len(l) : m[p].value = l[p].value

WithEdges(l, d, s) == [l EXCEPT ![d].edges = s]

LEMMA EdgesSet ==
  ASSUME NEW l \in Seq(AnyMood), NEW d \in 1 .. Len(l), NEW s \in Seq(AnyEdge)
  PROVE  /\ Alike(l, WithEdges(l, d, s))
         /\ \A p \in 1 .. Len(l) : WithEdges(l, d, s)[p].edges = IF p = d THEN s ELSE l[p].edges
<1>1. l[d] \in AnyMood
  OBVIOUS
<1> DEFINE n == Edged(l[d], s)
<1>2. n \in AnyMood /\ n.name = l[d].name /\ n.id = l[d].id /\ n.value = l[d].value /\ n.edges = s
  BY <1>1, EdgedIs
<1>3. WithEdges(l, d, s) = [l EXCEPT ![d] = n]
  BY DEF WithEdges, Edged
<1> HIDE DEF n
<1>4. [l EXCEPT ![d] = n] \in Seq(AnyMood) /\ Len([l EXCEPT ![d] = n]) = Len(l)
      /\ \A p \in 1 .. Len(l) : [l EXCEPT ![d] = n][p] = IF p = d THEN n ELSE l[p]
  BY <1>2
<1> QED BY <1>2, <1>3, <1>4 DEF Alike, SameMoods

LEMMA TwoEdgesSet ==
  ASSUME NEW l \in Seq(AnyMood), NEW d \in 1 .. Len(l), NEW c \in 1 .. Len(l),
         NEW s \in Seq(AnyEdge), NEW t \in Seq(AnyEdge), c # d
  PROVE  LET m == WithEdges(WithEdges(l, d, s), c, t) IN
         /\ Alike(l, m)
         /\ \A p \in 1 .. Len(l) : m[p].edges = IF p = d THEN s ELSE IF p = c THEN t ELSE l[p].edges
<1> DEFINE k == WithEdges(l, d, s)
           m == WithEdges(k, c, t)
<1>1. Alike(l, k) /\ \A p \in 1 .. Len(l) : k[p].edges = IF p = d THEN s ELSE l[p].edges
  BY EdgesSet
<1> HIDE DEF k
<1>2. k \in Seq(AnyMood) /\ c \in 1 .. Len(k) /\ Len(k) = Len(l)
  BY <1>1 DEF Alike, SameMoods
<1>3. Alike(k, m) /\ \A p \in 1 .. Len(k) : m[p].edges = IF p = c THEN t ELSE k[p].edges
  BY <1>2, EdgesSet
<1> HIDE DEF m
<1>4. Alike(l, m)
  BY <1>1, <1>3 DEF Alike, SameMoods
<1> QED BY <1>1, <1>2, <1>3, <1>4 DEF k, m

LEMMA LinkIs ==
  ASSUME NEW l \in Seq(AnyMood), NEW src \in 1 .. Len(l), NEW dst \in 1 .. Len(l), src # dst,
         NEW r \in -Unit .. Unit
  PROVE  /\ Alike(l, Link(l, src, dst, r))
         /\ \A p \in 1 .. Len(l) :
              Link(l, src, dst, r)[p].edges =
                IF p = dst THEN <<[dst |-> l[src].id, rel |-> r]>> \o l[dst].edges
                ELSE IF p = src THEN <<[dst |-> l[dst].id, rel |-> r]>> \o l[src].edges
                ELSE l[p].edges
<1> DEFINE x == <<[dst |-> l[src].id, rel |-> r]>> \o l[dst].edges
           y == <<[dst |-> l[dst].id, rel |-> r]>> \o l[src].edges
<1>1. l[src] \in AnyMood /\ l[dst] \in AnyMood
  OBVIOUS
<1>2. /\ [dst |-> l[src].id, rel |-> r] \in AnyEdge /\ [dst |-> l[dst].id, rel |-> r] \in AnyEdge
      /\ l[dst].edges \in Seq(AnyEdge) /\ l[src].edges \in Seq(AnyEdge)
  BY <1>1, FieldsOfMood DEF AnyEdge
<1>3. x \in Seq(AnyEdge) /\ y \in Seq(AnyEdge)
  BY <1>2, InFront
<1>4. Link(l, src, dst, r) = WithEdges(WithEdges(l, dst, x), src, y)
  BY DEF Link, WithEdges
<1> HIDE DEF x, y
<1>5. /\ Alike(l, Link(l, src, dst, r))
      /\ \A p \in 1 .. Len(l) :
           Link(l, src, dst, r)[p].edges = IF p = dst THEN x ELSE IF p = src THEN y ELSE l[p].edges
  BY <1>3, <1>4, TwoEdgesSet
<1> QED BY <1>5 DEF x, y
LEMMA EdgeOf ==
  ASSUME NEW s \in Seq(AnyEdge), NEW x \in ToSet(s)
  PROVE  x \in AnyEdge /\ x.dst \in Int /\ x.rel \in -Unit .. Unit
<1>1. x \in AnyEdge
  BY DEF ToSet
<1> QED BY <1>1 DEF AnyEdge

LEMMA FrontEdge ==
  ASSUME NEW s \in Seq(AnyEdge), NEW x \in AnyEdge
  PROVE  /\ <<x>> \o s \in Seq(AnyEdge)
         /\ ToSet(<<x>> \o s) = ToSet(s) \cup {x}
         /\ Single(s) /\ (\A y \in ToSet(s) : y.dst # x.dst) => Single(<<x>> \o s)
<1> DEFINE t == <<x>> \o s
<1>1. /\ t \in Seq(AnyEdge) /\ DOMAIN s = 1 .. Len(s) /\ DOMAIN t = 1 .. Len(s) + 1 /\ Len(s) \in Nat
      /\ t[1] = x /\ \A p \in 1 .. Len(s) : t[p + 1] = s[p]
  BY InFront
<1> HIDE DEF t
<1>2. \A e \in DOMAIN t : e = 1 \/ (e - 1 \in DOMAIN s /\ t[e] = s[e - 1])
  <2> SUFFICES ASSUME NEW e \in DOMAIN t, e # 1
               PROVE  e - 1 \in DOMAIN s /\ t[e] = s[e - 1]
    OBVIOUS
  <2>1. e - 1 \in 1 .. Len(s) /\ (e - 1) + 1 = e
    BY <1>1
  <2> QED BY <1>1, <2>1
<1>3. ToSet(t) \subseteq ToSet(s) \cup {x}
  BY <1>1, <1>2 DEF ToSet
<1>4. \A p \in DOMAIN s : s[p] = t[p + 1] /\ p + 1 \in DOMAIN t
  BY <1>1
<1>5. ToSet(s) \cup {x} \subseteq ToSet(t)
  <2>1. x \in ToSet(t)
    BY <1>1 DEF ToSet
  <2> QED BY <1>4, <2>1 DEF ToSet
<1>6. ASSUME Single(s), \A y \in ToSet(s) : y.dst # x.dst
      PROVE  Single(t)
  <2>1. \A e \in DOMAIN t : e # 1 => t[e].dst # t[1].dst
    BY <1>1, <1>2, <1>6 DEF ToSet
  <2>2. \A e, f \in DOMAIN t : e # 1 /\ f # 1 /\ t[e].dst = t[f].dst => e = f
    <3> TAKE e, f \in DOMAIN t
    <3> HAVE e # 1 /\ f # 1 /\ t[e].dst = t[f].dst
    <3>1. e - 1 \in DOMAIN s /\ f - 1 \in DOMAIN s /\ t[e] = s[e - 1] /\ t[f] = s[f - 1]
      BY <1>2
    <3>2. e - 1 = f - 1
      BY <1>6, <3>1 DEF Single
    <3> QED BY <1>1, <3>2
  <2> QED BY <2>1, <2>2 DEF Single
<1> QED BY <1>1, <1>3, <1>5, <1>6 DEF t

LEMMA WithoutIs ==
  ASSUME NEW s \in Seq(AnyEdge), NEW d
  PROVE  /\ Without(s, d) \in Seq(AnyEdge)
         /\ Single(s) => /\ ToSet(Without(s, d)) = {x \in ToSet(s) : x.dst # d}
                         /\ Single(Without(s, d))
<1> DEFINE I == {i \in 1 .. Len(s) : s[i].dst = d}
<1>1. Len(s) \in Nat /\ DOMAIN s = 1 .. Len(s) /\ I \in SUBSET Nat
  OBVIOUS
<1>2. Without(s, d) = IF I # {} THEN RemoveAt(s, Min(I)) ELSE s
  <2>1. I # {} => SelectInSeq(s, LAMBDA e : e.dst = d) = Min(I)
    BY DEF SelectInSeq
  <2>2. I # {} <=> \E i \in 1 .. Len(s) : s[i].dst = d
    OBVIOUS
  <2> QED BY <2>1, <2>2 DEF Without, RemoveFirstMatch
<1>3. CASE I = {}
  <2>1. Without(s, d) = s
    BY <1>2, <1>3
  <2>2. \A x \in ToSet(s) : x.dst # d
    BY <1>1, <1>3 DEF ToSet
  <2> QED BY <2>1, <2>2
<1>4. CASE I # {}
  <2> DEFINE k == Min(I)
             t == RemoveAt(s, k)
  <2>1. k \in I
    BY <1>1, <1>4, MinIn
  <2>2. k \in 1 .. Len(s) /\ s[k].dst = d
    BY <2>1
  <2> HIDE DEF k, I
  <2>3. /\ t \in Seq(AnyEdge) /\ DOMAIN t = 1 .. Len(s) - 1
        /\ \A p \in 1 .. Len(s) - 1 : t[p] = IF p < k THEN s[p] ELSE s[p + 1]
    <3>1. t \in Seq(AnyEdge) /\ Len(t) = Len(s) - 1
      BY <2>2, TakenOut
    <3>2. \A p \in 1 .. Len(s) - 1 : t[p] = IF p < k THEN s[p] ELSE s[p + 1]
      BY <2>2, TakenOut
    <3> HIDE DEF t
    <3> QED BY <1>1, <3>1, <3>2
  <2>4. t = Without(s, d)
    BY <1>2, <1>4 DEF k
  <2> HIDE DEF t
  <2> DEFINE old(p) == IF p < k THEN p ELSE p + 1
  <2>5. \A p \in DOMAIN t : old(p) \in DOMAIN s \ {k} /\ t[p] = s[old(p)]
    BY <1>1, <2>2, <2>3
  <2>6. \A q \in DOMAIN s \ {k} : \E p \in DOMAIN t : old(p) = q
    <3> TAKE q \in DOMAIN s \ {k}
    <3>1. CASE q < k
      BY <1>1, <2>2, <2>3, <3>1
    <3>2. CASE q > k
      <4>1. q - 1 \in DOMAIN t /\ old(q - 1) = q
        BY <1>1, <2>2, <2>3, <3>2
      <4> QED BY <4>1
    <3> QED BY <1>1, <2>2, <3>1, <3>2
  <2>7. \A p, q \in DOMAIN t : old(p) = old(q) => p = q
    BY <1>1, <2>2, <2>3
  <2> HIDE DEF old
  <2> SUFFICES ASSUME Single(s)
               PROVE  ToSet(t) = {x \in ToSet(s) : x.dst # d} /\ Single(t)
    BY <2>3, <2>4
  <2>8. \A q \in DOMAIN s : s[q].dst = d <=> q = k
    BY <1>1, <2>2 DEF Single
  <2>9. ToSet(t) = {x \in ToSet(s) : x.dst # d}
    <3>1. ToSet(t) \subseteq {x \in ToSet(s) : x.dst # d}
      BY <2>5, <2>8 DEF ToSet
    <3>2. ASSUME NEW x \in ToSet(s), x.dst # d
          PROVE  x \in ToSet(t)
      <4>1. PICK q \in DOMAIN s : s[q] = x
        BY DEF ToSet
      <4>2. PICK p \in DOMAIN t : old(p) = q
        BY <2>6, <2>8, <3>2, <4>1
      <4>3. t[p] = x
        BY <2>5, <4>1, <4>2
      <4> QED BY <4>3 DEF ToSet
    <3> QED BY <3>1, <3>2
  <2>10. Single(t)
    BY <2>5, <2>7 DEF Single
  <2> QED BY <2>9, <2>10
<1> QED BY <1>3, <1>4

LEMMA UnlinkIs ==
  ASSUME NEW l \in Seq(AnyMood), NEW src \in 1 .. Len(l), NEW dst \in 1 .. Len(l), src # dst
  PROVE  /\ Alike(l, Unlink(l, src, dst))
         /\ \A p \in 1 .. Len(l) :
              Unlink(l, src, dst)[p].edges =
                IF p = src THEN Without(l[src].edges, l[dst].id)
                ELSE IF p = dst THEN Without(l[dst].edges, l[src].id)
                ELSE l[p].edges
<1> DEFINE x == Without(l[src].edges, l[dst].id)
           y == Without(l[dst].edges, l[src].id)
<1>1. l[src] \in AnyMood /\ l[dst] \in AnyMood
  OBVIOUS
<1>2. x \in Seq(AnyEdge) /\ y \in Seq(AnyEdge)
  BY <1>1, FieldsOfMood, WithoutIs
<1>3. Unlink(l, src, dst) = WithEdges(WithEdges(l, src, x), dst, y)
  BY DEF Unlink, WithEdges
<1> HIDE DEF x, y
<1>4. /\ Alike(l, Unlink(l, src, dst))
      /\ \A p \in 1 .. Len(l) :
           Unlink(l, src, dst)[p].edges = IF p = src THEN x ELSE IF p = dst THEN y ELSE l[p].edges
  BY <1>2, <1>3, TwoEdgesSet
<1> QED BY <1>4 DEF x, y

\* Every mood gets a list of edges of its own.
Recast(l, f) == [p \in DOMAIN l |-> Edged(l[p], f[p])]

LEMMA EachEdgesSet ==
  ASSUME NEW l \in Seq(AnyMood), NEW f \in [1 .. Len(l) -> Seq(AnyEdge)]
  PROVE  Alike(l, Recast(l, f)) /\ \A p \in 1 .. Len(l) : Recast(l, f)[p].edges = f[p]
<1> DEFINE m == Recast(l, f)
<1>1. DOMAIN l = 1 .. Len(l) /\ Len(l) \in Nat /\ \A p \in 1 .. Len(l) : l[p] \in AnyMood
  OBVIOUS
<1>2. DOMAIN m = 1 .. Len(l) /\ \A p \in 1 .. Len(l) : m[p] = Edged(l[p], f[p])
  BY <1>1 DEF Recast
<1>3. \A p \in 1 .. Len(l) : /\ m[p] \in AnyMood /\ m[p].name = l[p].name /\ m[p].id = l[p].id
                              /\ m[p].value = l[p].value /\ m[p].edges = f[p]
  BY <1>1, <1>2, EdgedIs
<1>4. m = [p \in 1 .. Len(l) |-> m[p]]
  BY <1>1 DEF Recast
<1> HIDE DEF m
<1>5. m \in Seq(AnyMood) /\ Len(m) = Len(l)
  BY <1>1, <1>2, <1>3, <1>4
<1> QED BY <1>3, <1>5 DEF Alike, SameMoods, m

LEMMA IsolateIs ==
  ASSUME NEW l \in Seq(AnyMood), NEW k \in 1 .. Len(l)
  PROVE  /\ Alike(l, Isolate(l, k))
         /\ \A p \in 1 .. Len(l) :
              Isolate(l, k)[p].edges =
                IF p = k THEN <<>>
                ELSE IF PointsTo(l[k], l[p].id) THEN Without(l[p].edges, l[k].id)
                ELSE l[p].edges
<1> DEFINE f == [p \in 1 .. Len(l) |->
                   IF p = k THEN <<>>
                   ELSE IF PointsTo(l[k], l[p].id) THEN Without(l[p].edges, l[k].id)
                   ELSE l[p].edges]
<1>1. \A p \in 1 .. Len(l) : l[p] \in AnyMood
  OBVIOUS
<1>2. \A p \in 1 .. Len(l) : l[p].edges \in Seq(AnyEdge)
  BY <1>1, FieldsOfMood
<1>3. \A p \in 1 .. Len(l) : Without(l[p].edges, l[k].id) \in Seq(AnyEdge)
  BY <1>2, WithoutIs
<1>4. f \in [1 .. Len(l) -> Seq(AnyEdge)]
  BY <1>2, <1>3
<1>5. Isolate(l, k) = Recast(l, f)
  BY DEF Isolate, Recast, Edged
<1> HIDE DEF f
<1>6. Alike(l, Isolate(l, k)) /\ \A p \in 1 .. Len(l) : Isolate(l, k)[p].edges = f[p]
  BY <1>4, <1>5, EachEdgesSet
<1> QED BY <1>6 DEF f

\* Edges one by one: the ids from d on move down.
Down(n, d) == IF n >= d THEN n - 1 ELSE n

LEMMA RenumberIs ==
  ASSUME NEW s \in Seq(AnyEdge), NEW d \in Int
  PROVE  /\ Renumber(s, d) \in Seq(AnyEdge) /\ DOMAIN Renumber(s, d) = DOMAIN s
         /\ \A e \in DOMAIN s : Renumber(s, d)[e] = [dst |-> Down(s[e].dst, d), rel |-> s[e].rel]
         /\ ToSet(Renumber(s, d)) = {[dst |-> Down(x.dst, d), rel |-> x.rel] : x \in ToSet(s)}
         /\ Single(s) /\ (\A x \in ToSet(s) : x.dst # d) => Single(Renumber(s, d))
<1> DEFINE t == Renumber(s, d)
<1>1. DOMAIN s = 1 .. Len(s) /\ Len(s) \in Nat /\ \A e \in DOMAIN s : s[e] \in AnyEdge
  OBVIOUS
<1>2. \A x \in AnyEdge :
        /\ x = [dst |-> x.dst, rel |-> x.rel] /\ x.dst \in Int
        /\ [x EXCEPT !.dst = @ - 1] = [dst |-> x.dst - 1, rel |-> x.rel]
        /\ [dst |-> Down(x.dst, d), rel |-> x.rel] \in AnyEdge
  BY DEF AnyEdge, Down
<1>3. DOMAIN t = DOMAIN s /\ \A e \in DOMAIN s : t[e] = [dst |-> Down(s[e].dst, d), rel |-> s[e].rel]
  BY <1>1, <1>2 DEF Renumber, Down
<1>4. t = [e \in 1 .. Len(s) |-> t[e]]
  BY <1>1 DEF Renumber
<1> HIDE DEF t
<1>5. t \in Seq(AnyEdge)
  <2>1. \A e \in 1 .. Len(s) : t[e] \in AnyEdge
    BY <1>1, <1>2, <1>3
  <2> QED BY <1>1, <1>4, <2>1
<1>6. ToSet(t) = {[dst |-> Down(x.dst, d), rel |-> x.rel] : x \in ToSet(s)}
  BY <1>3 DEF ToSet
<1>7. ASSUME Single(s), \A x \in ToSet(s) : x.dst # d
      PROVE  Single(t)
  <2>1. \A e \in DOMAIN s : t[e].dst = Down(s[e].dst, d)
    BY <1>3
  <2>2. \A e \in DOMAIN s : s[e].dst \in Int \ {d}
    BY <1>1, <1>2, <1>7 DEF ToSet
  <2>3. \A m, n \in Int \ {d} : Down(m, d) = Down(n, d) => m = n
    BY DEF Down
  <2>4. \A e, f \in DOMAIN s : t[e].dst = t[f].dst => s[e].dst = s[f].dst
    BY <2>1, <2>2, <2>3
  <2> QED BY <1>3, <1>7, <2>4 DEF Single
<1> QED BY <1>3, <1>5, <1>6, <1>7 DEF t

LEMMA ShiftEdgesIs ==
  ASSUME NEW l \in Seq(AnyMood), NEW d \in Int
  PROVE  /\ Alike(l, ShiftEdges(l, d))
         /\ \A p \in 1 .. Len(l) : ShiftEdges(l, d)[p].edges = Renumber(l[p].edges, d)
<1> DEFINE f == [p \in 1 .. Len(l) |-> Renumber(l[p].edges, d)]
<1>1. \A p \in 1 .. Len(l) : l[p] \in AnyMood
  OBVIOUS
<1>2. \A p \in 1 .. Len(l) : l[p].edges \in Seq(AnyEdge)
  BY <1>1, FieldsOfMood
<1>3. f \in [1 .. Len(l) -> Seq(AnyEdge)]
  BY <1>2, RenumberIs
<1>4. ShiftEdges(l, d) = Recast(l, f)
  BY DEF ShiftEdges, Recast, Edged
<1> HIDE DEF f
<1>5. Alike(l, ShiftEdges(l, d)) /\ \A p \in 1 .. Len(l) : ShiftEdges(l, d)[p].edges = f[p]
  BY <1>3, <1>4, EachEdgesSet
<1> QED BY <1>5 DEF f

LEMMA TakeOutIs ==
  ASSUME NEW l \in Seq(AnyMood), NEW k \in 1 .. Len(l)
  PROVE  /\ TakeOut(l, k) \in Seq(AnyMood) /\ Len(TakeOut(l, k)) = Len(l) - 1
         /\ \A p \in 1 .. Len(l) - 1 :
              LET q == IF p < k THEN p ELSE p + 1 IN
              /\ TakeOut(l, k)[p].name = l[q].name /\ TakeOut(l, k)[p].value = l[q].value
              /\ TakeOut(l, k)[p].edges = l[q].edges
              /\ TakeOut(l, k)[p].id = IF p < k THEN l[q].id ELSE l[q].id - 1
<1> DEFINE t == RemoveAt(l, k)
           m == ShiftIds(t, k)
<1>1. t \in Seq(AnyMood) /\ Len(t) = Len(l) - 1
  BY TakenOut
<1>2. \A p \in 1 .. Len(l) - 1 : t[p] = IF p < k THEN l[p] ELSE l[p + 1]
  BY TakenOut
<1> HIDE DEF t
<1>3. DOMAIN t = 1 .. Len(l) - 1 /\ Len(l) - 1 \in Nat
      /\ \A p \in 1 .. Len(l) - 1 : t[p] \in AnyMood
  BY <1>1
<1>4. \A p \in 1 .. Len(l) - 1 : m[p] = IF p < k THEN t[p] ELSE MovedUp(t[p])
  BY <1>3 DEF ShiftIds, MovedUp
<1>6. DOMAIN m = 1 .. Len(l) - 1 /\ m = [p \in 1 .. Len(l) - 1 |-> m[p]]
  BY <1>3 DEF ShiftIds
<1>7. TakeOut(l, k) = m
  BY DEF TakeOut, t
<1> HIDE DEF m
<1>8. \A p \in 1 .. Len(l) - 1 :
        /\ m[p] \in AnyMood /\ m[p].name = t[p].name /\ m[p].value = t[p].value
        /\ m[p].edges = t[p].edges /\ m[p].id = IF p < k THEN t[p].id ELSE t[p].id - 1
  BY <1>3, <1>4, MovedUpIs
<1>9. m \in Seq(AnyMood) /\ Len(m) = Len(l) - 1
  BY <1>3, <1>6, <1>8
<1> QED BY <1>2, <1>7, <1>8, <1>9
-----------------------------------------------------------------------------
(* The three calls that change edges                                       *)

Placed(l) == \A p \in DOMAIN l : l[p].id = p - 1

LEMMA LinkMeets ==
  ASSUME NEW l \in Seq(AnyMood), NEW src \in 1 .. Len(l), NEW dst \in 1 .. Len(l), src # dst,
         NEW r \in -Unit .. Unit, Placed(l), Meet(l), ~PointsTo(l[src], l[dst].id)
  PROVE  Meet(Link(l, src, dst, r))
<1> DEFINE m == Link(l, src, dst, r)
           x == [dst |-> src - 1, rel |-> r]
           y == [dst |-> dst - 1, rel |-> r]
<1>1. /\ DOMAIN l = 1 .. Len(l) /\ Len(l) \in Nat /\ l[src].id = src - 1 /\ l[dst].id = dst - 1
      /\ \A p \in 1 .. Len(l) : l[p] \in AnyMood
  BY DEF Placed
<1>2. \A p \in 1 .. Len(l) : l[p].edges \in Seq(AnyEdge)
  BY <1>1, FieldsOfMood
<1>3. x \in AnyEdge /\ y \in AnyEdge
  BY <1>1 DEF AnyEdge
<1>4. \A e \in ToSet(l[src].edges) : e.dst # dst - 1
  BY <1>1 DEF PointsTo
<1>5. \A e \in ToSet(l[dst].edges) : e.dst # src - 1
  <2> SUFFICES ASSUME NEW e \in ToSet(l[dst].edges), e.dst = src - 1
               PROVE  FALSE
    OBVIOUS
  <2>1. [dst |-> dst - 1, rel |-> e.rel] \in ToSet(l[src].edges)
    BY <1>1 DEF Meet, Partnered
  <2> QED BY <1>4, <2>1
<1>6. /\ m \in Seq(AnyMood) /\ DOMAIN m = 1 .. Len(l)
      /\ m[dst].edges = <<x>> \o l[dst].edges /\ m[src].edges = <<y>> \o l[src].edges
      /\ \A p \in 1 .. Len(l) \ {src, dst} : m[p].edges = l[p].edges
  <2>1. x = [dst |-> l[src].id, rel |-> r] /\ y = [dst |-> l[dst].id, rel |-> r]
    BY <1>1
  <2> HIDE DEF m, x, y
  <2>2. Alike(l, m) /\ \A p \in 1 .. Len(l) :
          m[p].edges = IF p = dst THEN <<x>> \o l[dst].edges
                       ELSE IF p = src THEN <<y>> \o l[src].edges
                       ELSE l[p].edges
    BY <2>1, LinkIs DEF m
  <2>3. /\ m[dst].edges = <<x>> \o l[dst].edges /\ m[src].edges = <<y>> \o l[src].edges
        /\ \A p \in 1 .. Len(l) \ {src, dst} : m[p].edges = l[p].edges
    BY <2>2
  <2> QED BY <2>2, <2>3 DEF Alike, SameMoods
<1> HIDE DEF m
<1>7. \A p \in 1 .. Len(l) : Single(l[p].edges)
  BY <1>1 DEF Meet
<1>8. /\ Single(m[dst].edges) /\ ToSet(m[dst].edges) = ToSet(l[dst].edges) \cup {x}
      /\ Single(m[src].edges) /\ ToSet(m[src].edges) = ToSet(l[src].edges) \cup {y}
  BY SMTT(40), <1>2, <1>3, <1>4, <1>5, <1>6, <1>7, FrontEdge
<1>9. \A p \in 1 .. Len(l) : Single(m[p].edges) /\ ToSet(l[p].edges) \subseteq ToSet(m[p].edges)
  BY <1>6, <1>7, <1>8
<1>10. \A p \in 1 .. Len(l) : \A e \in ToSet(m[p].edges) :
         e \in ToSet(l[p].edges) \/ (p = dst /\ e = x) \/ (p = src /\ e = y)
  BY <1>6, <1>8
<1>11. ASSUME NEW p \in 1 .. Len(l), NEW e \in ToSet(m[p].edges)
       PROVE  /\ e.dst + 1 \in DOMAIN m \ {p}
              /\ [dst |-> p - 1, rel |-> e.rel] \in ToSet(m[e.dst + 1].edges)
  <2>1. CASE e \in ToSet(l[p].edges)
    <3>1. e.dst + 1 \in DOMAIN l \ {p} /\ [dst |-> p - 1, rel |-> e.rel] \in ToSet(l[e.dst + 1].edges)
      BY <1>1, <2>1 DEF Meet, Partnered
    <3> QED BY <1>1, <1>6, <1>9, <3>1
  <2>2. CASE p = dst /\ e = x
    <3>1. e.dst + 1 = src /\ [dst |-> p - 1, rel |-> e.rel] = y
      BY <1>1, <2>2
    <3> QED BY <1>6, <1>8, <2>2, <3>1
  <2>3. CASE p = src /\ e = y
    <3>1. e.dst + 1 = dst /\ [dst |-> p - 1, rel |-> e.rel] = x
      BY <1>1, <2>3
    <3> QED BY <1>6, <1>8, <2>3, <3>1
  <2> QED BY <1>10, <2>1, <2>2, <2>3
<1> QED BY <1>6, <1>9, <1>11 DEF Meet, Partnered, m

LEMMA UnlinkMeets ==
  ASSUME NEW l \in Seq(AnyMood), NEW src \in 1 .. Len(l), NEW dst \in 1 .. Len(l), src # dst,
         Placed(l), Meet(l)
  PROVE  Meet(Unlink(l, src, dst))
<1> DEFINE m == Unlink(l, src, dst)
<1>1. /\ DOMAIN l = 1 .. Len(l) /\ Len(l) \in Nat /\ l[src].id = src - 1 /\ l[dst].id = dst - 1
      /\ \A p \in 1 .. Len(l) : l[p] \in AnyMood
  BY DEF Placed
<1>2. \A p \in 1 .. Len(l) : l[p].edges \in Seq(AnyEdge) /\ Single(l[p].edges)
  BY <1>1, FieldsOfMood DEF Meet
<1>3. /\ m \in Seq(AnyMood) /\ DOMAIN m = 1 .. Len(l)
      /\ m[src].edges = Without(l[src].edges, dst - 1) /\ m[dst].edges = Without(l[dst].edges, src - 1)
      /\ \A p \in 1 .. Len(l) \ {src, dst} : m[p].edges = l[p].edges
  <2>1. Alike(l, m)
    BY UnlinkIs
  <2>2. m[src].edges = Without(l[src].edges, dst - 1) /\ m[dst].edges = Without(l[dst].edges, src - 1)
    BY <1>1, UnlinkIs
  <2>3. \A p \in 1 .. Len(l) \ {src, dst} : m[p].edges = l[p].edges
    BY UnlinkIs
  <2> HIDE DEF m
  <2> QED BY <2>1, <2>2, <2>3 DEF Alike, SameMoods
<1> HIDE DEF m
<1>4. /\ Single(m[dst].edges) /\ ToSet(m[dst].edges) = {e \in ToSet(l[dst].edges) : e.dst # src - 1}
      /\ Single(m[src].edges) /\ ToSet(m[src].edges) = {e \in ToSet(l[src].edges) : e.dst # dst - 1}
  BY <1>2, <1>3, WithoutIs
<1>5. \A p \in 1 .. Len(l) : Single(m[p].edges)
  BY <1>2, <1>3, <1>4
<1>6. \A p \in 1 .. Len(l) : \A e \in ToSet(m[p].edges) :
        e \in ToSet(l[p].edges) /\ (p = dst => e.dst # src - 1) /\ (p = src => e.dst # dst - 1)
  BY <1>3, <1>4
<1>7. \A p \in 1 .. Len(l) : \A e \in ToSet(l[p].edges) :
        (p = dst => e.dst # src - 1) /\ (p = src => e.dst # dst - 1) => e \in ToSet(m[p].edges)
  BY <1>3, <1>4
<1>8. ASSUME NEW p \in 1 .. Len(l), NEW e \in ToSet(m[p].edges)
      PROVE  /\ e.dst + 1 \in DOMAIN m \ {p}
             /\ [dst |-> p - 1, rel |-> e.rel] \in ToSet(m[e.dst + 1].edges)
  <2> DEFINE q == e.dst + 1
             f == [dst |-> p - 1, rel |-> e.rel]
  <2>1. q \in DOMAIN l \ {p} /\ f \in ToSet(l[q].edges)
    BY <1>1, <1>6 DEF Meet, Partnered
  <2>2. e.dst \in Int
    BY <1>2, <1>6, EdgeOf
  <2>3. (q = dst => p # src) /\ (q = src => p # dst)
    <3>1. (p = dst => e.dst # src - 1) /\ (p = src => e.dst # dst - 1)
      BY <1>6
    <3>2. (q = dst => e.dst = dst - 1) /\ (q = src => e.dst = src - 1)
      BY <2>2
    <3> QED BY <3>1, <3>2
  <2>4. (q = dst => f.dst # src - 1) /\ (q = src => f.dst # dst - 1)
    BY <2>3
  <2> HIDE DEF f
  <2> QED BY <1>1, <1>3, <1>7, <2>1, <2>4 DEF f
<1> QED BY <1>3, <1>5, <1>8 DEF Meet, Partnered, m

\* What mood_destroy makes of the list, and where a mood that stays was.
Destroyed(l, k) == ShiftEdges(TakeOut(Isolate(l, k), k), l[k].id)
Old(p, k) == IF p < k THEN p ELSE p + 1

LEMMA DestroyedIs ==
  ASSUME NEW l \in Seq(AnyMood), NEW k \in 1 .. Len(l)
  PROVE  /\ Destroyed(l, k) \in Seq(AnyMood) /\ Len(Destroyed(l, k)) = Len(l) - 1
         /\ \A p \in 1 .. Len(l) - 1 :
              /\ Destroyed(l, k)[p].name = l[Old(p, k)].name
              /\ Destroyed(l, k)[p].value = l[Old(p, k)].value
              /\ Destroyed(l, k)[p].id = IF p < k THEN l[Old(p, k)].id ELSE l[Old(p, k)].id - 1
              /\ Destroyed(l, k)[p].edges = Renumber(Isolate(l, k)[Old(p, k)].edges, l[k].id)
<1> DEFINE i == Isolate(l, k)
           t == TakeOut(i, k)
           m == ShiftEdges(t, l[k].id)
<1>1. Alike(l, i)
  BY IsolateIs
<1> HIDE DEF i
<1>2. i \in Seq(AnyMood) /\ Len(i) = Len(l) /\ k \in 1 .. Len(i) /\ Len(l) \in Nat
      /\ \A p \in 1 .. Len(l) : i[p].name = l[p].name /\ i[p].id = l[p].id /\ i[p].value = l[p].value
  BY <1>1 DEF Alike, SameMoods
<1>3. /\ t \in Seq(AnyMood) /\ Len(t) = Len(l) - 1
      /\ \A p \in 1 .. Len(l) - 1 :
           /\ t[p].name = i[Old(p, k)].name /\ t[p].value = i[Old(p, k)].value
           /\ t[p].edges = i[Old(p, k)].edges
           /\ t[p].id = IF p < k THEN i[Old(p, k)].id ELSE i[Old(p, k)].id - 1
  BY <1>2, TakeOutIs DEF Old
<1> HIDE DEF t
<1>4. l[k] \in AnyMood
  OBVIOUS
<1>5. l[k].id \in Int
  BY <1>4, FieldsOfMood
<1>6. Alike(t, m) /\ \A p \in 1 .. Len(t) : m[p].edges = Renumber(t[p].edges, l[k].id)
  BY <1>3, <1>5, ShiftEdgesIs
<1> HIDE DEF m
<1>7. m \in Seq(AnyMood) /\ Len(m) = Len(l) - 1 /\ \A p \in 1 .. Len(l) - 1 :
        /\ m[p].name = t[p].name /\ m[p].id = t[p].id /\ m[p].value = t[p].value
        /\ m[p].edges = Renumber(t[p].edges, l[k].id)
  BY <1>3, <1>6 DEF Alike, SameMoods
<1>8. \A p \in 1 .. Len(l) - 1 : Old(p, k) \in 1 .. Len(l)
  BY <1>2 DEF Old
<1>9. Destroyed(l, k) = m
  BY DEF Destroyed, m, t, i
<1>10. \A p \in 1 .. Len(l) - 1 :
         /\ m[p].name = l[Old(p, k)].name /\ m[p].value = l[Old(p, k)].value
         /\ m[p].id = IF p < k THEN l[Old(p, k)].id ELSE l[Old(p, k)].id - 1
         /\ m[p].edges = Renumber(i[Old(p, k)].edges, l[k].id)
  BY ZenonT(60), <1>2, <1>3, <1>7, <1>8
<1> QED BY <1>7, <1>9, <1>10 DEF i

\* Which edges are left of those of a mood that stays.
LEMMA IsolatedEdges ==
  ASSUME NEW l \in Seq(AnyMood), NEW k \in 1 .. Len(l), Placed(l), Meet(l),
         NEW p \in 1 .. Len(l), p # k
  PROVE  LET s == Isolate(l, k)[p].edges IN
         s \in Seq(AnyEdge) /\ Single(s) /\ ToSet(s) = {e \in ToSet(l[p].edges) : e.dst # k - 1}
<1> DEFINE s == Isolate(l, k)[p].edges
<1>1. l[p] \in AnyMood /\ l[p].id = p - 1 /\ l[k].id = k - 1 /\ DOMAIN l = 1 .. Len(l)
  BY DEF Placed
<1>2. l[p].edges \in Seq(AnyEdge) /\ Single(l[p].edges)
  BY <1>1, FieldsOfMood DEF Meet
<1>3. s = IF PointsTo(l[k], p - 1) THEN Without(l[p].edges, k - 1) ELSE l[p].edges
  BY <1>1, IsolateIs
<1> HIDE DEF s
<1>4. CASE PointsTo(l[k], p - 1)
  BY <1>2, <1>3, <1>4, WithoutIs DEF s
<1>5. CASE ~PointsTo(l[k], p - 1)
  <2>1. \A e \in ToSet(l[p].edges) : e.dst # k - 1
    <3> SUFFICES ASSUME NEW e \in ToSet(l[p].edges), e.dst = k - 1
                 PROVE  FALSE
      OBVIOUS
    <3>1. [dst |-> p - 1, rel |-> e.rel] \in ToSet(l[e.dst + 1].edges) /\ e.dst + 1 = k
      BY <1>1 DEF Meet, Partnered
    <3> QED BY <1>5, <3>1 DEF PointsTo
  <2> QED BY <1>2, <1>3, <1>5, <2>1 DEF s
<1> QED BY <1>4, <1>5

LEMMA DestroyedEdges ==
  ASSUME NEW l \in Seq(AnyMood), NEW k \in 1 .. Len(l), Placed(l), Meet(l),
         NEW p \in 1 .. Len(l) - 1
  PROVE  LET s == Destroyed(l, k)[p].edges IN
         /\ Single(s)
         /\ ToSet(s) = {[dst |-> Down(e.dst, k - 1), rel |-> e.rel] :
                          e \in {x \in ToSet(l[Old(p, k)].edges) : x.dst # k - 1}}
<1> DEFINE s == Isolate(l, k)[Old(p, k)].edges
<1>1. l[k].id = k - 1 /\ k - 1 \in Int /\ Len(l) \in Nat
  BY DEF Placed
<1>2. Old(p, k) \in 1 .. Len(l) /\ Old(p, k) # k
  BY <1>1 DEF Old
<1>3. s \in Seq(AnyEdge) /\ Single(s) /\ ToSet(s) = {x \in ToSet(l[Old(p, k)].edges) : x.dst # k - 1}
  BY <1>2, IsolatedEdges
<1>4. Destroyed(l, k)[p].edges = Renumber(s, k - 1)
  BY <1>1, DestroyedIs
<1> HIDE DEF s
<1> QED BY ZenonT(60), <1>1, <1>3, <1>4, RenumberIs

LEMMA DestroyMeets ==
  ASSUME NEW l \in Seq(AnyMood), NEW k \in 1 .. Len(l), Placed(l), Meet(l)
  PROVE  Meet(Destroyed(l, k)) /\ Placed(Destroyed(l, k))
<1> DEFINE m == Destroyed(l, k)
           dn(n) == Down(n, k - 1)
<1>1. /\ DOMAIN l = 1 .. Len(l) /\ Len(l) \in Nat /\ l[k].id = k - 1
      /\ \A p \in 1 .. Len(l) : l[p] \in AnyMood /\ l[p].id = p - 1
  BY DEF Placed
<1>2. \A p \in 1 .. Len(l) : l[p].edges \in Seq(AnyEdge)
  BY <1>1, FieldsOfMood
<1>3. /\ m \in Seq(AnyMood) /\ DOMAIN m = 1 .. Len(l) - 1
      /\ \A p \in 1 .. Len(l) - 1 :
           /\ m[p].id = IF p < k THEN l[Old(p, k)].id ELSE l[Old(p, k)].id - 1
           /\ m[p].edges = Renumber(Isolate(l, k)[Old(p, k)].edges, k - 1)
  <2>1. m \in Seq(AnyMood) /\ Len(m) = Len(l) - 1
    BY DestroyedIs
  <2>2. \A p \in 1 .. Len(l) - 1 :
           /\ m[p].id = IF p < k THEN l[Old(p, k)].id ELSE l[Old(p, k)].id - 1
           /\ m[p].edges = Renumber(Isolate(l, k)[Old(p, k)].edges, k - 1)
    BY <1>1, DestroyedIs
  <2> HIDE DEF m
  <2> QED BY <1>1, <2>1, <2>2
<1> HIDE DEF m
<1>4. \A p \in 1 .. Len(l) - 1 : Old(p, k) \in 1 .. Len(l) /\ Old(p, k) # k /\ dn(Old(p, k) - 1) = p - 1
  BY <1>1 DEF Old, Down
<1>5. Placed(m)
  <2>1. \A p \in 1 .. Len(l) - 1 : l[Old(p, k)].id = Old(p, k) - 1
    BY <1>1, <1>4
  <2>2. \A p \in 1 .. Len(l) - 1 : m[p].id = IF p < k THEN Old(p, k) - 1 ELSE Old(p, k) - 1 - 1
    BY <1>3, <2>1
  <2>3. \A p \in 1 .. Len(l) - 1 : (IF p < k THEN Old(p, k) - 1 ELSE Old(p, k) - 1 - 1) = p - 1
    BY <1>1 DEF Old
  <2>4. \A p \in 1 .. Len(l) - 1 : m[p].id = p - 1
    BY <2>2, <2>3
  <2> QED BY <1>3, <2>4 DEF Placed
<1>6. \A p \in 1 .. Len(l) - 1 :
        /\ Single(m[p].edges)
        /\ ToSet(m[p].edges) = {[dst |-> dn(e.dst), rel |-> e.rel] :
                                  e \in {x \in ToSet(l[Old(p, k)].edges) : x.dst # k - 1}}
  BY DestroyedEdges DEF m
<1> HIDE DEF dn
<1>7. ASSUME NEW p \in 1 .. Len(l) - 1, NEW y \in ToSet(m[p].edges)
      PROVE  /\ y.dst + 1 \in DOMAIN m \ {p}
             /\ [dst |-> p - 1, rel |-> y.rel] \in ToSet(m[y.dst + 1].edges)
  <2>1. PICK x \in ToSet(l[Old(p, k)].edges) :
          x.dst # k - 1 /\ y.dst = dn(x.dst) /\ y.rel = x.rel
    BY <1>6
  <2> DEFINE o == Old(p, k)
             z == [dst |-> o - 1, rel |-> x.rel]
  <2>2. o \in 1 .. Len(l) /\ o # k /\ dn(o - 1) = p - 1
    BY <1>4
  <2>3. x.dst + 1 \in DOMAIN l \ {o} /\ z \in ToSet(l[x.dst + 1].edges)
    BY <1>1, <2>1, <2>2 DEF Meet, Partnered
  <2>4. x.dst \in Int
    BY <1>2, <2>1, <2>2, EdgeOf
  <2>5. /\ y.dst + 1 \in 1 .. Len(l) - 1 /\ Old(y.dst + 1, k) = x.dst + 1 /\ y.dst + 1 # p
    BY <1>1, <2>1, <2>3, <2>4 DEF Old, dn, Down
  <2>6. z.dst # k - 1 /\ [dst |-> dn(z.dst), rel |-> z.rel] = [dst |-> p - 1, rel |-> y.rel]
    BY <2>1, <2>2
  <2> HIDE DEF z
  <2>7. [dst |-> dn(z.dst), rel |-> z.rel] \in ToSet(m[y.dst + 1].edges)
    BY <1>6, <2>3, <2>5, <2>6
  <2> QED BY <1>3, <2>5, <2>6, <2>7
<1> QED BY <1>3, <1>5, <1>6, <1>7 DEF Meet, Partnered, m

-----------------------------------------------------------------------------
(* Names and places                                                        *)

LEMMA ListInit == MoodAssumption /\ Init => ListInv
<1> SUFFICES ASSUME MoodAssumption, Init
             PROVE  ListInv
  OBVIOUS
<1>1. BaseValue \in Int /\ Base \in Names \ LongNames /\ IdSpace \in Nat \ {0, 1}
  BY DEF MoodAssumption
<1> DEFINE m == [name |-> Base, id |-> 0, edges |-> <<>>, value |-> BaseValue]
<1>2. m \in AnyMood /\ m.name = Base
  BY <1>1 DEF AnyMood
<1>3. list = <<m>>
  BY DEF Init
<1> HIDE DEF m
<1>4. list \in Seq(AnyMood) /\ Len(list) = 1 /\ DOMAIN list = {1} /\ list[1].name = Base
  BY <1>2, <1>3
<1>5. gMood_Num \in 0 .. IdSpace - 1 /\ ret = 0 /\ changes = 0
  BY <1>1 DEF Init
<1> QED BY <1>4, <1>5 DEF ListInv, OneMoodPerName

\* A call that leaves the moods what they are.
LEMMA SameMoodsKeep ==
  ASSUME ListInv, SameMoods(list, list'), gMood_Num' = gMood_Num, ret' \in 0 .. 3, changes' \in Nat
  PROVE  ListInv' /\ (IdIsPlace => IdIsPlace')
<1>1. /\ DOMAIN list' = DOMAIN list /\ DOMAIN list = 1 .. Len(list) /\ Len(list) > 0 /\ Len(list) \in Nat
      /\ list' \in Seq(AnyMood) /\ Len(list') = Len(list)
      /\ \A p \in DOMAIN list : list'[p].name = list[p].name /\ list'[p].id = list[p].id
  BY DEF SameMoods, ListInv
<1>2. OneMoodPerName'
  BY <1>1 DEF OneMoodPerName, ListInv
<1>3. IdIsPlace => IdIsPlace'
  BY <1>1 DEF IdIsPlace
<1> QED BY <1>1, <1>2, <1>3 DEF ListInv

\* A call that answers and does nothing else.
LEMMA AnswerKeeps ==
  ASSUME ListInv, NEW code \in 0 .. 3, Answer(code)
  PROVE  ListInv' /\ (IdIsPlace => IdIsPlace') /\ (EdgeInv => EdgeInv')
<1>1. ret' = code /\ UNCHANGED <<list, gMood_Num, changes>>
  BY DEF Answer
<1> QED BY <1>1 DEF ListInv, OneMoodPerName, IdIsPlace, EdgeInv, Meet, Partnered

\* A number that is a byte stays what it is.
LEMMA Wrap ==
  ASSUME NEW n \in Nat \ {0}, NEW x \in Int
  PROVE  x % n \in 0 .. n - 1 /\ (x \in 0 .. n - 1 => x % n = x)
OBVIOUS

\* The moods have one name each.
LEMMA CreateKeeps ==
  ASSUME MoodAssumption, ListInv, NEW n \in Names, Create(n)
  PROVE  ListInv' /\ (IdIsPlace /\ FewMoods' => IdIsPlace')
         /\ (IdIsPlace /\ EdgeInv => EdgeInv')
<1>1. /\ list \in Seq(AnyMood) /\ DOMAIN list = 1 .. Len(list) /\ Len(list) \in Nat /\ Len(list) > 0
      /\ \A p, q \in DOMAIN list : list[p].name = list[q].name => p = q
      /\ list[1].name = Base /\ gMood_Num \in 0 .. IdSpace - 1 /\ changes \in Nat
  BY DEF ListInv, OneMoodPerName
<1>2. IdSpace \in Nat \ {0} /\ BaseValue \in Int
  BY DEF MoodAssumption
<1>3. CASE Refused(n) /\ Answer(1)
  BY <1>3, AnswerKeeps
<1>4. CASE ~Refused(n) /\ Answer(2)
  BY <1>4, AnswerKeeps
<1>5. ASSUME ~Refused(n), ret' = 0, UNCHANGED changes, gMood_Num' = (gMood_Num + 1) % IdSpace,
             list' = Append(list, [name |-> n, id |-> gMood_Num, edges |-> <<>>, value |-> BaseValue])
      PROVE  ListInv' /\ (IdIsPlace /\ FewMoods' => IdIsPlace')
             /\ (IdIsPlace /\ EdgeInv => EdgeInv')
  <2> DEFINE m == [name |-> n, id |-> gMood_Num, edges |-> <<>>, value |-> BaseValue]
  <2>1. n \in Names \ LongNames /\ \A p \in DOMAIN list : list[p].name # n
    BY <1>1, <1>5, Located DEF Refused, Known
  <2>2. m \in AnyMood /\ m.name = n /\ m.id = gMood_Num /\ m.edges = <<>>
    BY <1>1, <1>2, <2>1 DEF AnyMood
  <2>3. list' = Append(list, m)
    BY <1>5
  <2> HIDE DEF m
  <2>4. /\ list' \in Seq(AnyMood) /\ Len(list') = Len(list) + 1 /\ DOMAIN list' = 1 .. Len(list) + 1
        /\ \A p \in 1 .. Len(list) : list'[p] = list[p]
        /\ list'[Len(list) + 1] = m
    BY <1>1, <2>2, <2>3
  <2>5. OneMoodPerName'
    <3>1. list'[1].name = Base
      BY <1>1, <2>4
    <3>2. \A p, q \in 1 .. Len(list) : list'[p].name = list'[q].name => p = q
      BY <1>1, <2>4
    <3>3. \A p \in 1 .. Len(list) : list'[p].name # list'[Len(list) + 1].name
      BY <1>1, <2>1, <2>2, <2>4
    <3>4. \A p \in DOMAIN list' : p \in 1 .. Len(list) \/ p = Len(list) + 1
      BY <1>1, <2>4
    <3> QED BY <3>1, <3>2, <3>3, <3>4 DEF OneMoodPerName
  <2>6. gMood_Num' \in 0 .. IdSpace - 1 /\ (gMood_Num + 1 < IdSpace => gMood_Num' = gMood_Num + 1)
    <3> DEFINE x == gMood_Num + 1
    <3>1. x \in Int /\ (x < IdSpace => x \in 0 .. IdSpace - 1) /\ gMood_Num' = x % IdSpace
      BY <1>1, <1>2, <1>5
    <3> HIDE DEF x
    <3>2. x % IdSpace \in 0 .. IdSpace - 1 /\ (x \in 0 .. IdSpace - 1 => x % IdSpace = x)
      BY <1>2, <3>1, Wrap
    <3>3. gMood_Num' \in 0 .. IdSpace - 1 /\ (x < IdSpace => gMood_Num' = x)
      BY <3>1, <3>2
    <3> QED BY <3>3 DEF x
  <2>7. ListInv'
    BY <1>1, <1>5, <2>4, <2>5, <2>6 DEF ListInv
  <2>8. IdIsPlace /\ FewMoods' => IdIsPlace'
    <3> SUFFICES ASSUME IdIsPlace, FewMoods'
                 PROVE  IdIsPlace'
      OBVIOUS
    <3>1. gMood_Num = Len(list) /\ \A p \in 1 .. Len(list) : list[p].id = p - 1
      BY <1>1 DEF IdIsPlace
    <3>2. gMood_Num' = Len(list')
      BY <1>1, <2>4, <2>6, <3>1 DEF FewMoods
    <3>3. \A p \in 1 .. Len(list) : list'[p].id = p - 1
      BY <2>4, <3>1
    <3>4. list'[Len(list) + 1].id = (Len(list) + 1) - 1
      BY <1>1, <2>2, <2>4, <3>1
    <3>5. \A p \in DOMAIN list' : p \in 1 .. Len(list) \/ p = Len(list) + 1
      BY <1>1, <2>4
    <3> QED BY <3>2, <3>3, <3>4, <3>5 DEF IdIsPlace
  <2>9. EdgeInv => EdgeInv'
    <3> SUFFICES ASSUME Meet(list)
                 PROVE  Meet(list')
      BY DEF EdgeInv
    <3>1. \A p \in 1 .. Len(list) : Single(list'[p].edges) /\ Partnered(list', p)
      BY SMTT(40), <1>1, <2>4 DEF Meet, Partnered
    <3>2. Single(list'[Len(list) + 1].edges) /\ Partnered(list', Len(list) + 1)
      BY <2>2, <2>4 DEF Single, Partnered, ToSet
    <3> QED BY <1>1, <2>4, <3>1, <3>2 DEF Meet
  <2> QED BY <2>7, <2>8, <2>9
<1> QED BY <1>3, <1>4, <1>5 DEF Create

LEMMA BindKeeps ==
  ASSUME MoodAssumption, ListInv, NEW a, NEW b, a # b, NEW r \in Rels, Bind(a, b, r)
  PROVE  ListInv' /\ (IdIsPlace => IdIsPlace') /\ (IdIsPlace /\ EdgeInv => EdgeInv')
<1> DEFINE src == LocateByName(list, a)
           dst == LocateByName(list, b)
<1>1. list \in Seq(AnyMood) /\ changes \in Nat
  BY DEF ListInv
<1>2. src = 0 \/ (src \in 1 .. Len(list) /\ list[src].name = a)
  BY <1>1, Located
<1>3. dst = 0 \/ (dst \in 1 .. Len(list) /\ list[dst].name = b)
  BY <1>1, Located
<1>4. Relevance(r) \in -Unit .. Unit
  BY DEF Relevance, Limit, MoodAssumption
<1>5. CASE Answer(1) \/ Answer(3)
  BY <1>5, AnswerKeeps
<1>6. ASSUME src # 0, dst # 0, ~AlreadyBound(src, dst), list' = Link(list, src, dst, Relevance(r)),
             ret' = 0, UNCHANGED <<gMood_Num, changes>>
      PROVE  ListInv' /\ (IdIsPlace => IdIsPlace') /\ (IdIsPlace /\ EdgeInv => EdgeInv')
  <2>1. src \in 1 .. Len(list) /\ dst \in 1 .. Len(list) /\ src # dst
    BY <1>2, <1>3, <1>6
  <2> HIDE DEF src, dst
  <2>2. SameMoods(list, list')
    BY <1>1, <1>4, <1>6, <2>1, LinkIs DEF Alike
  <2>3. ListInv' /\ (IdIsPlace => IdIsPlace')
    BY <1>1, <1>6, <2>2, SameMoodsKeep
  <2>4. ASSUME IdIsPlace, EdgeInv
        PROVE  EdgeInv'
    <3>1. Placed(list) /\ Meet(list) /\ ~PointsTo(list[src], list[dst].id)
      BY <1>6, <2>4 DEF Placed, IdIsPlace, EdgeInv, AlreadyBound
    <3>2. Meet(Link(list, src, dst, Relevance(r)))
      BY <1>1, <1>4, <2>1, <3>1, LinkMeets
    <3> QED BY <1>6, <3>2 DEF EdgeInv
  <2> QED BY <2>3, <2>4
<1> QED BY <1>5, <1>6 DEF Bind

LEMMA UnbindKeeps ==
  ASSUME ListInv, NEW a, NEW b, a # b, Unbind(a, b)
  PROVE  ListInv' /\ (IdIsPlace => IdIsPlace') /\ (IdIsPlace /\ EdgeInv => EdgeInv')
<1> DEFINE src == LocateByName(list, a)
           dst == LocateByName(list, b)
<1>1. list \in Seq(AnyMood) /\ changes \in Nat
  BY DEF ListInv
<1>2. src = 0 \/ (src \in 1 .. Len(list) /\ list[src].name = a)
  BY <1>1, Located
<1>3. dst = 0 \/ (dst \in 1 .. Len(list) /\ list[dst].name = b)
  BY <1>1, Located
<1>4. CASE Answer(1) \/ Answer(2)
  BY <1>4, AnswerKeeps
<1>5. ASSUME src # 0, dst # 0, list' = Unlink(list, src, dst), ret' = 0, UNCHANGED <<gMood_Num, changes>>
      PROVE  ListInv' /\ (IdIsPlace => IdIsPlace') /\ (IdIsPlace /\ EdgeInv => EdgeInv')
  <2>1. src \in 1 .. Len(list) /\ dst \in 1 .. Len(list) /\ src # dst
    BY <1>2, <1>3, <1>5
  <2> HIDE DEF src, dst
  <2>2. SameMoods(list, list')
    BY <1>1, <1>5, <2>1, UnlinkIs DEF Alike
  <2>3. ListInv' /\ (IdIsPlace => IdIsPlace')
    BY <1>1, <1>5, <2>2, SameMoodsKeep
  <2>4. ASSUME IdIsPlace, EdgeInv
        PROVE  EdgeInv'
    <3>1. Placed(list) /\ Meet(list)
      BY <2>4 DEF Placed, IdIsPlace, EdgeInv
    <3>2. Meet(Unlink(list, src, dst))
      BY <1>1, <2>1, <3>1, UnlinkMeets
    <3> QED BY <1>5, <3>2 DEF EdgeInv
  <2> QED BY <2>3, <2>4
<1> QED BY <1>4, <1>5 DEF Unbind

LEMMA DestroyKeeps ==
  ASSUME MoodAssumption, ListInv, NEW n, Destroy(n)
  PROVE  ListInv' /\ (IdIsPlace => IdIsPlace') /\ (IdIsPlace /\ EdgeInv => EdgeInv' /\ IdIsPlace')
<1> DEFINE k == LocateByName(list, n)
<1>1. /\ list \in Seq(AnyMood) /\ DOMAIN list = 1 .. Len(list) /\ Len(list) \in Nat /\ Len(list) > 0
      /\ \A p, q \in DOMAIN list : list[p].name = list[q].name => p = q
      /\ list[1].name = Base /\ gMood_Num \in 0 .. IdSpace - 1 /\ changes \in Nat
  BY DEF ListInv, OneMoodPerName
<1>2. k = 0 \/ (k \in 1 .. Len(list) /\ list[k].name = n)
  BY <1>1, Located
<1>3. CASE Answer(1)
  BY <1>3, AnswerKeeps
<1>4. ASSUME n # Base, k # 0, list' = Destroyed(list, k), gMood_Num' = (gMood_Num - 1) % IdSpace,
             ret' = 0, UNCHANGED changes
      PROVE  ListInv' /\ (IdIsPlace => IdIsPlace') /\ (IdIsPlace /\ EdgeInv => EdgeInv')
  <2>1. k \in 1 .. Len(list) /\ k # 1 /\ Len(list) > 1
    BY <1>1, <1>2, <1>4
  <2> HIDE DEF k
  <2>2. /\ list' \in Seq(AnyMood) /\ Len(list') = Len(list) - 1
        /\ \A p \in 1 .. Len(list) - 1 :
             /\ list'[p].name = list[Old(p, k)].name
             /\ list'[p].id = IF p < k THEN list[Old(p, k)].id ELSE list[Old(p, k)].id - 1
    <3>1. list \in Seq(AnyMood) /\ k \in 1 .. Len(list) /\ list' = Destroyed(list, k)
      BY <1>1, <1>4, <2>1
    <3>2. Destroyed(list, k) \in Seq(AnyMood) /\ Len(Destroyed(list, k)) = Len(list) - 1
      BY <3>1, DestroyedIs
    <3>3. \A p \in 1 .. Len(list) - 1 :
            /\ Destroyed(list, k)[p].name = list[Old(p, k)].name
            /\ Destroyed(list, k)[p].id = IF p < k THEN list[Old(p, k)].id ELSE list[Old(p, k)].id - 1
      BY <3>1, DestroyedIs
    <3> QED BY <3>1, <3>2, <3>3
  <2>3. /\ \A p \in 1 .. Len(list) - 1 : Old(p, k) \in 1 .. Len(list)
        /\ \A p, q \in 1 .. Len(list) - 1 : Old(p, k) = Old(q, k) => p = q
        /\ Old(1, k) = 1
    BY <1>1, <2>1 DEF Old
  <2>4. DOMAIN list' = 1 .. Len(list) - 1
    BY <2>2
  <2>5. OneMoodPerName'
    <3>1. \A p, q \in DOMAIN list' : list'[p].name = list'[q].name => Old(p, k) = Old(q, k)
      <4>1. \A p \in DOMAIN list' : list'[p].name = list[Old(p, k)].name /\ Old(p, k) \in DOMAIN list
        BY <1>1, <2>2, <2>3, <2>4
      <4> QED BY <1>1, <4>1
    <3>2. \A p, q \in DOMAIN list' : list'[p].name = list'[q].name => p = q
      BY <2>3, <2>4, <3>1
    <3>3. list'[1].name = Base
      BY <1>1, <2>1, <2>2, <2>3
    <3> QED BY <3>2, <3>3 DEF OneMoodPerName
  <2>6. gMood_Num' \in 0 .. IdSpace - 1 /\ (gMood_Num > 0 => gMood_Num' = gMood_Num - 1)
    BY SMTT(40), <1>1, <1>4 DEF MoodAssumption
  <2>7. ListInv'
    BY <1>1, <1>4, <2>1, <2>2, <2>5, <2>6 DEF ListInv
  <2>8. ASSUME IdIsPlace
        PROVE  IdIsPlace'
    <3>1. gMood_Num' = Len(list')
      BY <2>1, <2>2, <2>6, <2>8 DEF IdIsPlace
    <3>2. \A p \in 1 .. Len(list) : list[p].id = p - 1
      BY <1>1, <2>8 DEF IdIsPlace
    <3>3. \A p \in 1 .. Len(list) - 1 : list'[p].id = p - 1
      <4>1. \A p \in 1 .. Len(list) - 1 : list[Old(p, k)].id = Old(p, k) - 1
        BY <2>3, <3>2
      <4>2. \A p \in 1 .. Len(list) - 1 :
              list'[p].id = IF p < k THEN Old(p, k) - 1 ELSE Old(p, k) - 1 - 1
        BY <2>2, <4>1
      <4> QED BY <1>1, <2>1, <4>2 DEF Old
    <3> QED BY <2>4, <3>1, <3>3 DEF IdIsPlace
  <2>9. ASSUME IdIsPlace, EdgeInv
        PROVE  EdgeInv'
    <3>1. Placed(list) /\ Meet(list)
      BY <2>9 DEF Placed, IdIsPlace, EdgeInv
    <3>2. Meet(Destroyed(list, k))
      BY <1>1, <2>1, <3>1, DestroyMeets
    <3> QED BY <1>4, <3>2 DEF EdgeInv
  <2> QED BY <2>7, <2>8, <2>9
<1> QED BY <1>3, <1>4 DEF Destroy, Destroyed

\* Only the value of one mood changes.
LEMMA SetPropertyKeeps ==
  ASSUME MoodAssumption, ListInv, NEW n, NEW v \in Values, SetProperty(n, v)
  PROVE  ListInv' /\ (IdIsPlace => IdIsPlace') /\ (EdgeInv => EdgeInv')
<1> DEFINE k == LocateByName(list, n)
           m == Valued(list[k], v)
<1>1. list \in Seq(AnyMood) /\ DOMAIN list = 1 .. Len(list) /\ changes \in Nat /\ v \in Int
  <2>1. list \in Seq(AnyMood) /\ changes \in Nat
    BY DEF ListInv
  <2>2. v \in Int
    BY DEF MoodAssumption
  <2> QED BY <2>1, <2>2
<1>2. CASE Answer(1)
  BY <1>2, AnswerKeeps
<1>3. ASSUME k # 0, changes' = changes + 1, list' = [list EXCEPT ![k].value = v],
             ret' = 0, UNCHANGED gMood_Num
      PROVE  ListInv' /\ (IdIsPlace => IdIsPlace') /\ (EdgeInv => EdgeInv')
  <2>1. k \in 1 .. Len(list)
    BY <1>1, <1>3, Located
  <2>2. list' = [list EXCEPT ![k] = m] /\ list[k] \in AnyMood
    BY <1>1, <1>3, <2>1 DEF Valued
  <2> HIDE DEF k
  <2>3. m \in AnyMood /\ m.name = list[k].name /\ m.id = list[k].id /\ m.edges = list[k].edges
    BY <1>1, <2>2, ValuedIs
  <2> HIDE DEF m
  <2>4. list' \in Seq(AnyMood) /\ Len(list') = Len(list) /\ DOMAIN list' = DOMAIN list
        /\ \A p \in DOMAIN list : list'[p] = IF p = k THEN m ELSE list[p]
    BY <1>1, <2>1, <2>2, <2>3
  <2>5. \A p \in DOMAIN list : /\ list'[p].name = list[p].name /\ list'[p].id = list[p].id
                              /\ list'[p].edges = list[p].edges
    BY <2>3, <2>4
  <2>6. SameMoods(list, list')
    BY <1>1, <2>4, <2>5 DEF SameMoods
  <2>7. EdgeInv => EdgeInv'
    BY <2>4, <2>5 DEF EdgeInv, Meet, Partnered
  <2> QED BY <1>1, <1>3, <2>6, <2>7, SameMoodsKeep
<1> QED BY <1>2, <1>3 DEF SetProperty

\* Values change; what is pulled is a number.
LEMMA RaiseKeeps ==
  ASSUME MoodAssumption, ListInv, NEW n, Raise(n)
  PROVE  ListInv' /\ (IdIsPlace => IdIsPlace') /\ (EdgeInv => EdgeInv')
<1> DEFINE k == LocateByName(list, n)
           w == [p \in 1 .. Len(list) |->
                   IF p = k THEN Limit(list[p].value + ValueIncrease * Unit, MinValue, MaxValue)
                   ELSE list[p].value + Pull(list, k, p)]
<1>1. /\ list \in Seq(AnyMood) /\ DOMAIN list = 1 .. Len(list) /\ Len(list) \in Nat /\ changes \in Nat
      /\ \A p \in 1 .. Len(list) : list[p] \in AnyMood
  BY DEF ListInv
<1>2. k \in 1 .. Len(list) /\ changes' = changes + 1 /\ UNCHANGED <<gMood_Num, ret>>
  BY <1>1, Located DEF Raise
<1>3. ValueIncrease \in Int /\ Unit \in Int /\ MinValue \in Int /\ MaxValue \in Int
  BY DEF MoodAssumption
<1>4. list' = [p \in DOMAIN list |-> [list[p] EXCEPT !.value = w[p]]]
  BY <1>1 DEF Raise
<1> HIDE DEF k
<1>5. \A p \in 1 .. Len(list) : list[p].value \in Int /\ list[p].edges \in Seq(AnyEdge)
  BY <1>1, FieldsOfMood
<1>6. \A p \in 1 .. Len(list) : Pull(list, k, p) \in Int
  <2> TAKE p \in 1 .. Len(list)
  <2> DEFINE e == CHOOSE e \in ToSet(list[k].edges) : e.dst = list[p].id
  <2>1. CASE PointsTo(list[k], list[p].id)
    <3>1. e \in ToSet(list[k].edges)
      BY <2>1 DEF PointsTo
    <3> HIDE DEF e
    <3>2. e.rel \in Int
      BY <1>2, <1>3, <1>5, <3>1, EdgeOf
    <3>3. ValueIncrease * e.rel \in Int
      BY <1>3, <3>2
    <3> QED BY <2>1, <3>3 DEF Pull, e
  <2>2. CASE ~PointsTo(list[k], list[p].id)
    BY <2>2 DEF Pull
  <2> QED BY <2>1, <2>2
<1>7. \A p \in 1 .. Len(list) : w[p] \in Int
  <2>1. ValueIncrease * Unit \in Int
    BY <1>3
  <2> QED BY <1>3, <1>5, <1>6, <2>1 DEF Limit
<1> HIDE DEF w
<1>8. DOMAIN list' = DOMAIN list /\ \A p \in DOMAIN list : list'[p] = Valued(list[p], w[p])
  BY <1>4 DEF Valued
<1>9. \A p \in DOMAIN list :
         /\ list'[p] \in AnyMood /\ list'[p].name = list[p].name /\ list'[p].id = list[p].id
         /\ list'[p].edges = list[p].edges
  <2> TAKE p \in DOMAIN list
  <2>1. PICK v \in Int : list'[p] = Valued(list[p], v)
    BY <1>1, <1>7, <1>8
  <2>2. list[p] \in AnyMood
    BY <1>1
  <2>3. /\ Valued(list[p], v) \in AnyMood /\ Valued(list[p], v).name = list[p].name
        /\ Valued(list[p], v).id = list[p].id /\ Valued(list[p], v).edges = list[p].edges
    BY <2>2, ValuedIs
  <2> QED BY <2>1, <2>3
<1>10. list' = [p \in 1 .. Len(list) |-> list'[p]]
  BY <1>1, <1>4
<1>11. list' \in Seq(AnyMood) /\ Len(list') = Len(list)
  <2> DEFINE m == list'
             len == Len(list)
  <2>1. len \in Nat /\ m = [p \in 1 .. len |-> m[p]] /\ \A p \in 1 .. len : m[p] \in AnyMood
    BY <1>1, <1>9, <1>10
  <2> HIDE DEF m, len
  <2>2. m \in Seq(AnyMood) /\ Len(m) = len
    BY <2>1
  <2> QED BY <2>2 DEF m, len
<1>12. SameMoods(list, list')
  BY <1>1, <1>9, <1>11 DEF SameMoods
<1>13. EdgeInv => EdgeInv'
  BY <1>8, <1>9 DEF EdgeInv, Meet, Partnered
<1>14. ret' \in 0 .. 3 /\ changes' \in Nat
  BY <1>1, <1>2 DEF ListInv
<1> QED BY <1>2, <1>12, <1>13, <1>14, SameMoodsKeep

-----------------------------------------------------------------------------
(* The theorems                                                            *)

\* Every call keeps the three invariants, the one of the ids as long as there are fewer
\* moods than ids.
LEMMA StepKeeps ==
  ASSUME MoodAssumption, ListInv, [Next]_vars
  PROVE  ListInv' /\ (IdIsPlace /\ FewMoods' => IdIsPlace') /\ (IdIsPlace /\ EdgeInv => EdgeInv')
<1>1. ASSUME NEW n \in Names, Create(n)
      PROVE  ListInv' /\ (IdIsPlace /\ FewMoods' => IdIsPlace') /\ (IdIsPlace /\ EdgeInv => EdgeInv')
  BY <1>1, CreateKeeps
<1>2. ASSUME NEW n \in Names, Destroy(n)
      PROVE  ListInv' /\ (IdIsPlace => IdIsPlace') /\ (IdIsPlace /\ EdgeInv => EdgeInv')
  BY <1>2, DestroyKeeps
<1>3. ASSUME NEW n \in Names, Raise(n)
      PROVE  ListInv' /\ (IdIsPlace => IdIsPlace') /\ (EdgeInv => EdgeInv')
  BY <1>3, RaiseKeeps
<1>4. \A p \in Pairs : p[1] # p[2]
  BY DEF MoodAssumption
<1>5. ASSUME NEW p \in Pairs, Unbind(p[1], p[2])
      PROVE  ListInv' /\ (IdIsPlace => IdIsPlace') /\ (IdIsPlace /\ EdgeInv => EdgeInv')
  BY <1>4, <1>5, UnbindKeeps
<1>6. ASSUME NEW p \in Pairs, NEW r \in Rels, Bind(p[1], p[2], r)
      PROVE  ListInv' /\ (IdIsPlace => IdIsPlace') /\ (IdIsPlace /\ EdgeInv => EdgeInv')
  BY <1>4, <1>6, BindKeeps
<1>7. ASSUME NEW n \in Names, NEW v \in Values, SetProperty(n, v)
      PROVE  ListInv' /\ (IdIsPlace => IdIsPlace') /\ (EdgeInv => EdgeInv')
  BY <1>7, SetPropertyKeeps
<1>8. CASE UNCHANGED vars
  BY <1>8 DEF vars, ListInv, OneMoodPerName, IdIsPlace, EdgeInv, Meet, Partnered
<1> QED BY <1>1, <1>2, <1>3, <1>5, <1>6, <1>7, <1>8 DEF Next

LEMMA ListInvariant == Spec => []ListInv
<1>1. MoodAssumption
  BY MoodAssumption
<1>2. Init => ListInv
  BY <1>1, ListInit
<1>3. ListInv /\ [Next]_vars => ListInv'
  BY <1>1, StepKeeps
<1> QED BY <1>2, <1>3, PTL DEF Spec

\* Whatever was created and destroyed before, no two moods have one name and BASE is the
\* first of them (mood_create, mood_list_destroy); this needs nothing of the ids.
THEOREM NamesCorrect == Spec => []OneMoodPerName
<1>1. ListInv => OneMoodPerName
  BY DEF ListInv
<1> QED BY <1>1, ListInvariant, PTL

\* The names callers use, when there are fewer of them than ids, bound the list.
FewNames == IsFiniteSet(Names \ LongNames) /\ Cardinality(Names \ LongNames) < IdSpace

\* Callers that use fewer names than there are ids (256, wp_mood_sys.c:379) never have as
\* many moods as ids, so that the condition of the next theorems is met.
THEOREM FewNamesFewMoods ==
  ASSUME FewNames
  PROVE  Spec => []FewMoods
<1>1. ASSUME ListInv
      PROVE  FewMoods
  <2> DEFINE f == [p \in 1 .. Len(list) |-> list[p].name]
             S == Names \ LongNames
  <2>1. /\ list \in Seq(AnyMood) /\ DOMAIN list = 1 .. Len(list) /\ Len(list) \in Nat
        /\ \A p \in 1 .. Len(list) : list[p] \in AnyMood
        /\ \A p, q \in DOMAIN list : list[p].name = list[q].name => p = q
    BY <1>1 DEF ListInv, OneMoodPerName
  <2>2. f \in Injection(1 .. Len(list), S)
    BY <2>1, FieldsOfMood DEF Injection, IsInjective
  <2>3. IsFiniteSet(S) /\ IsFiniteSet(1 .. Len(list)) /\ Cardinality(1 .. Len(list)) = Len(list)
    BY SMTT(40), <2>1, FS_Interval DEF FewNames
  <2> HIDE DEF f, S
  <2>4. Len(list) <= Cardinality(S) /\ Cardinality(S) \in Nat
    BY <2>2, <2>3, FS_Injection, FS_CardinalityType
  <2>5. IdSpace \in Nat
    BY MoodAssumption DEF MoodAssumption
  <2> QED BY <2>1, <2>4, <2>5 DEF FewNames, FewMoods, S
<1> QED BY <1>1, ListInvariant, PTL

\* As long as there are fewer moods than ids, an id is a place in the list and gMood_Num
\* the number of the moods, whatever was destroyed in between; and edges come in pairs.
LEMMA GraphInvariant == Spec /\ []FewMoods => [](ListInv /\ IdIsPlace /\ EdgeInv)
<1>1. MoodAssumption
  BY MoodAssumption
<1>2. Init => ListInv /\ IdIsPlace /\ EdgeInv
  <2> SUFFICES ASSUME Init
               PROVE  ListInv /\ IdIsPlace /\ EdgeInv
    OBVIOUS
  <2>1. ListInv
    BY <1>1, ListInit
  <2> DEFINE m == [name |-> Base, id |-> 0, edges |-> <<>>, value |-> BaseValue]
  <2>2. list = <<m>> /\ gMood_Num = 1 /\ m.id = 0 /\ m.edges = <<>>
    BY DEF Init
  <2> HIDE DEF m
  <2>3. DOMAIN list = {1} /\ Len(list) = 1 /\ list[1].id = 0 /\ list[1].edges = <<>>
    BY <2>2
  <2> QED BY <2>1, <2>2, <2>3 DEF IdIsPlace, EdgeInv, Meet, Partnered, Single, ToSet
<1>3. ListInv /\ IdIsPlace /\ EdgeInv /\ FewMoods' /\ [Next]_vars
        => (ListInv /\ IdIsPlace /\ EdgeInv)'
  BY <1>1, StepKeeps
<1> QED BY <1>2, <1>3, PTL DEF Spec

\* Each mood is found under its id and its name and no other is: the property of the runs,
\* for every set of names and every sequence of calls.
THEOREM FoundCorrect == Spec /\ []FewMoods => []EachMoodIsFound
<1>1. ListInv /\ IdIsPlace => EachMoodIsFound
  BY DEF ListInv, EachMoodIsFound
<1> QED BY <1>1, GraphInvariant, PTL

\* No edge dangles after mood_destroy, and each has exactly one partner with its relevance.
THEOREM EdgesCorrect == Spec /\ []FewMoods => []EdgesMeet
<1>1. ASSUME ListInv, IdIsPlace, EdgeInv
      PROVE  EdgesMeet
  <2>1. \A p \in DOMAIN list : list[p].id = p - 1 /\ list[p] \in AnyMood
    BY <1>1 DEF IdIsPlace, ListInv
  <2> SUFFICES ASSUME NEW p \in DOMAIN list, NEW e \in DOMAIN list[p].edges
               PROVE  \E q \in DOMAIN list \ {p} :
                        /\ list[q].id = list[p].edges[e].dst
                        /\ \E f \in DOMAIN list[q].edges :
                             /\ list[q].edges[f] = [dst |-> list[p].id, rel |-> list[p].edges[e].rel]
                             /\ \A g \in DOMAIN list[q].edges :
                                  list[q].edges[g].dst = list[p].id => g = f
    BY DEF EdgesMeet
  <2> DEFINE x == list[p].edges[e]
             q == x.dst + 1
  <2>2. x \in ToSet(list[p].edges)
    BY DEF ToSet
  <2>3. list[p].edges \in Seq(AnyEdge)
    BY <2>1, FieldsOfMood
  <2>4. x.dst \in Int
    BY <2>2, <2>3, EdgeOf
  <2> HIDE DEF x
  <2>5. q \in DOMAIN list \ {p} /\ [dst |-> p - 1, rel |-> x.rel] \in ToSet(list[q].edges)
        /\ Single(list[q].edges)
    BY <1>1, <2>2 DEF EdgeInv, Meet, Partnered
  <2>6. list[q].id = x.dst /\ list[p].id = p - 1
    BY <2>1, <2>4, <2>5
  <2>7. PICK f \in DOMAIN list[q].edges : list[q].edges[f] = [dst |-> list[p].id, rel |-> x.rel]
    BY <2>5, <2>6 DEF ToSet
  <2>8. \A g \in DOMAIN list[q].edges : list[q].edges[g].dst = list[p].id => g = f
    BY <2>5, <2>7 DEF Single
  <2> QED BY <2>5, <2>6, <2>7, <2>8 DEF x
<1> QED BY <1>1, GraphInvariant, PTL

\* The fields keep the ranges of their types: ids and edges the numbers that fit a byte.
THEOREM TypeCorrect == Spec /\ []FewMoods => []TypeOK
<1>1. ASSUME ListInv, IdIsPlace, EdgeInv, FewMoods
      PROVE  TypeOK
  <2>1. /\ list \in Seq(AnyMood) /\ DOMAIN list = 1 .. Len(list) /\ Len(list) \in Nat
        /\ Len(list) < IdSpace /\ IdSpace \in Nat
        /\ \A p \in DOMAIN list : list[p] \in AnyMood /\ list[p].id = p - 1
    BY <1>1, MoodAssumption DEF ListInv, IdIsPlace, FewMoods, MoodAssumption
  <2>2. \A p \in DOMAIN list : list[p].edges \in Seq(Edge)
    <3> TAKE p \in DOMAIN list
    <3> DEFINE s == list[p].edges
    <3>1. s \in Seq(AnyEdge)
      BY <2>1, FieldsOfMood
    <3>2. \A e \in DOMAIN s : s[e] \in Edge
      <4> TAKE e \in DOMAIN s
      <4>1. s[e] \in ToSet(s) /\ s[e] \in AnyEdge /\ s[e].dst \in Int
        BY <3>1, EdgeOf DEF ToSet
      <4>2. s[e].dst + 1 \in DOMAIN list
        BY <1>1, <4>1 DEF EdgeInv, Meet, Partnered
      <4>3. s[e].dst \in 0 .. IdSpace - 1
        BY <2>1, <4>1, <4>2
      <4> QED BY <4>1, <4>3 DEF Edge, AnyEdge
    <3> HIDE DEF s
    <3> QED BY <3>1, <3>2 DEF s
  <2>3. \A p \in DOMAIN list : list[p] \in Mood
    <3> TAKE p \in DOMAIN list
    <3>1. list[p].id \in 0 .. IdSpace - 1
      BY <2>1
    <3> QED BY <2>1, <2>2, <3>1 DEF Mood, AnyMood
  <2>4. list \in Seq(Mood)
    BY <2>1, <2>3
  <2> QED BY <1>1, <2>4 DEF TypeOK, ListInv
<1> QED BY <1>1, GraphInvariant, PTL

-----------------------------------------------------------------------------
(* What a list with the invariants says as a relation                      *)

Good(l) ==
  /\ l \in Seq(AnyMood) /\ Placed(l) /\ Meet(l)
  /\ \A p, q \in 1 .. Len(l) : l[p].name = l[q].name => p = q

\* The mood at p has an edge with relevance r to the one at q.
Tie(l, p, q, r) == [dst |-> q - 1, rel |-> r] \in ToSet(l[p].edges)

Ends(l, p, q) == {l[p].name, l[q].name}

Relevances == -Unit .. Unit

LEMMA GoodIs ==
  ASSUME NEW l, Good(l)
  PROVE  /\ DOMAIN l = 1 .. Len(l) /\ Len(l) \in Nat
         /\ \A p \in 1 .. Len(l) : /\ l[p] \in AnyMood /\ l[p].id = p - 1 /\ l[p].value \in Int
                                   /\ l[p].edges \in Seq(AnyEdge) /\ Single(l[p].edges)
<1>1. DOMAIN l = 1 .. Len(l) /\ Len(l) \in Nat /\ \A p \in 1 .. Len(l) : l[p] \in AnyMood
  BY DEF Good
<1>2. \A p \in 1 .. Len(l) : l[p].id = p - 1 /\ Single(l[p].edges)
  BY <1>1 DEF Good, Placed, Meet
<1> QED BY <1>1, <1>2, FieldsOfMood

\* Ties are edges, they go both ways with the same relevance, and to one place there is
\* at most one.
LEMMA EdgeIsTie ==
  ASSUME NEW l, Good(l), NEW p \in 1 .. Len(l), NEW x \in ToSet(l[p].edges)
  PROVE  /\ x.dst \in Int /\ x.dst + 1 \in 1 .. Len(l) /\ x.rel \in Relevances
         /\ Tie(l, p, x.dst + 1, x.rel)
<1>1. l[p].edges \in Seq(AnyEdge) /\ DOMAIN l = 1 .. Len(l)
  BY GoodIs
<1>2. x \in AnyEdge /\ x.dst \in Int /\ x.rel \in Relevances
  BY <1>1, EdgeOf DEF Relevances
<1>3. x.dst + 1 \in 1 .. Len(l)
  BY <1>1 DEF Good, Meet, Partnered
<1>4. x = [dst |-> x.dst, rel |-> x.rel] /\ (x.dst + 1) - 1 = x.dst
  BY <1>2 DEF AnyEdge
<1> QED BY <1>2, <1>3, <1>4 DEF Tie

LEMMA TieIs ==
  ASSUME NEW l, Good(l), NEW p \in 1 .. Len(l), NEW q \in 1 .. Len(l), NEW r, Tie(l, p, q, r)
  PROVE  /\ p # q /\ r \in Relevances /\ Tie(l, q, p, r)
         /\ \A s : Tie(l, p, q, s) => s = r
<1> DEFINE x == [dst |-> q - 1, rel |-> r]
<1>1. x \in ToSet(l[p].edges) /\ x.dst = q - 1 /\ x.rel = r
  BY DEF Tie
<1>2. DOMAIN l = 1 .. Len(l) /\ Single(l[p].edges) /\ x.dst + 1 = q
  BY <1>1, GoodIs
<1>3. x.dst + 1 \in DOMAIN l \ {p} /\ [dst |-> p - 1, rel |-> x.rel] \in ToSet(l[x.dst + 1].edges)
  BY <1>1, <1>2 DEF Good, Meet, Partnered
<1>4. r \in Relevances
  BY <1>1, EdgeIsTie
<1>5. ASSUME NEW s, Tie(l, p, q, s)
      PROVE  s = r
  <2> DEFINE y == [dst |-> q - 1, rel |-> s]
  <2>1. y \in ToSet(l[p].edges) /\ y.dst = x.dst /\ y.rel = s
    BY <1>1, <1>5 DEF Tie
  <2> HIDE DEF x, y
  <2>2. x = y
    BY <1>1, <1>2, <2>1 DEF ToSet, Single
  <2> QED BY <1>1, <2>1, <2>2
<1> QED BY <1>1, <1>2, <1>3, <1>4, <1>5 DEF Tie

LEMMA PointIsTie ==
  ASSUME NEW l, Good(l), NEW p \in 1 .. Len(l), NEW q \in 1 .. Len(l)
  PROVE  PointsTo(l[p], l[q].id) <=> \E r \in Relevances : Tie(l, p, q, r)
<1>1. l[q].id = q - 1
  BY GoodIs
<1>2. ASSUME PointsTo(l[p], l[q].id)
      PROVE  \E r \in Relevances : Tie(l, p, q, r)
  <2>1. PICK x \in ToSet(l[p].edges) : x.dst = q - 1
    BY <1>1, <1>2 DEF PointsTo
  <2>2. x.dst + 1 = q
    BY <2>1
  <2>3. Tie(l, p, x.dst + 1, x.rel) /\ x.rel \in Relevances
    BY EdgeIsTie
  <2> QED BY <2>2, <2>3
<1>3. ASSUME NEW r \in Relevances, Tie(l, p, q, r)
      PROVE  PointsTo(l[p], l[q].id)
  BY <1>1, <1>3 DEF Tie, PointsTo
<1> QED BY <1>2, <1>3

\* A pair of names is the names of two places in one way only.
LEMMA EndsAre ==
  ASSUME NEW l, Good(l), NEW p \in 1 .. Len(l), NEW q \in 1 .. Len(l),
         NEW i \in 1 .. Len(l), NEW j \in 1 .. Len(l)
  PROVE  /\ Ends(l, p, q) = Ends(l, i, j) => (p = i /\ q = j) \/ (p = j /\ q = i)
         /\ l[i].name \in Ends(l, p, q) => i = p \/ i = q
BY DEF Good, Ends

LEMMA BondIs ==
  ASSUME NEW l, Good(l), NEW b
  PROVE  b \in BondsIn(l) <=>
           \E p, q \in 1 .. Len(l) : \E r \in Relevances :
             Tie(l, p, q, r) /\ b = [ends |-> Ends(l, p, q), rel |-> r]
<1>1. DOMAIN l = 1 .. Len(l) /\ \A p \in 1 .. Len(l) : l[p].id = p - 1
  BY GoodIs
<1>2. b \in BondsIn(l) <=>
        \E p, q \in 1 .. Len(l) : \E x \in ToSet(l[p].edges) :
          x.dst = q - 1 /\ b = [ends |-> Ends(l, p, q), rel |-> x.rel]
  <2> DEFINE B(p, q) == {[ends |-> {l[p].name, l[q].name}, rel |-> e.rel] :
                            e \in {x \in ToSet(l[p].edges) : x.dst = l[q].id}}
  <2>1. BondsIn(l) = UNION {B(p, q) : p, q \in DOMAIN l}
    BY DEF BondsIn
  <2>2. \A p, q \in 1 .. Len(l) : b \in B(p, q) <=>
          \E x \in ToSet(l[p].edges) : x.dst = q - 1 /\ b = [ends |-> Ends(l, p, q), rel |-> x.rel]
    BY <1>1 DEF Ends
  <2> HIDE DEF B
  <2>3. b \in BondsIn(l) <=> \E p, q \in 1 .. Len(l) : b \in B(p, q)
    BY <1>1, <2>1
  <2> QED BY <2>2, <2>3
<1>3. ASSUME NEW p \in 1 .. Len(l), NEW q \in 1 .. Len(l), NEW x \in ToSet(l[p].edges),
             x.dst = q - 1, b = [ends |-> Ends(l, p, q), rel |-> x.rel]
      PROVE  \E r \in Relevances : Tie(l, p, q, r) /\ b = [ends |-> Ends(l, p, q), rel |-> r]
  <2>1. x.dst + 1 = q
    BY <1>3
  <2> QED BY <1>3, <2>1, EdgeIsTie
<1>4. ASSUME NEW p \in 1 .. Len(l), NEW q \in 1 .. Len(l), NEW r \in Relevances,
             Tie(l, p, q, r), b = [ends |-> Ends(l, p, q), rel |-> r]
      PROVE  \E x \in ToSet(l[p].edges) :
               x.dst = q - 1 /\ b = [ends |-> Ends(l, p, q), rel |-> x.rel]
  BY <1>4 DEF Tie
<1> QED BY <1>2, <1>3, <1>4

\* The pairs joined by a tie, and the relevance of the tie.
IsRelOf(f, l) ==
  /\ \A pair : pair \in DOMAIN f <=>
       \E p, q \in 1 .. Len(l) : \E r \in Relevances : Tie(l, p, q, r) /\ pair = Ends(l, p, q)
  /\ \A p, q \in 1 .. Len(l) : \A r \in Relevances : Tie(l, p, q, r) => f[Ends(l, p, q)] = r

LEMMA RelIs ==
  ASSUME NEW l, Good(l)
  PROVE  /\ IsRelOf(RelIn(l), l)
         /\ RelIn(l) = [pair \in DOMAIN RelIn(l) |-> RelIn(l)[pair]]
<1> DEFINE D == {bond.ends : bond \in BondsIn(l)}
           f == RelIn(l)
<1>1. DOMAIN f = D /\ f = [pair \in D |-> f[pair]]
      /\ \A pair \in D : f[pair] = (CHOOSE bond \in BondsIn(l) : bond.ends = pair).rel
  BY DEF RelIn
<1>2. \A pair : pair \in D <=>
        \E p, q \in 1 .. Len(l) : \E r \in Relevances : Tie(l, p, q, r) /\ pair = Ends(l, p, q)
  <2>1. \A pair : pair \in D <=> \E bond \in BondsIn(l) : pair = bond.ends
    OBVIOUS
  <2>2. ASSUME NEW bond \in BondsIn(l)
        PROVE  \E p, q \in 1 .. Len(l) : \E r \in Relevances :
                 Tie(l, p, q, r) /\ bond.ends = Ends(l, p, q)
    BY BondIs
  <2>3. ASSUME NEW p \in 1 .. Len(l), NEW q \in 1 .. Len(l), NEW r \in Relevances, Tie(l, p, q, r)
        PROVE  \E bond \in BondsIn(l) : Ends(l, p, q) = bond.ends
    <3> DEFINE b == [ends |-> Ends(l, p, q), rel |-> r]
    <3>1. b \in BondsIn(l) /\ b.ends = Ends(l, p, q)
      BY <2>3, BondIs
    <3> QED BY <3>1
  <2> QED BY <2>1, <2>2, <2>3
<1> HIDE DEF D, f
<1>3. ASSUME NEW p \in 1 .. Len(l), NEW q \in 1 .. Len(l), NEW r \in Relevances, Tie(l, p, q, r)
      PROVE  f[Ends(l, p, q)] = r
  <2> DEFINE pair == Ends(l, p, q)
             c == CHOOSE bond \in BondsIn(l) : bond.ends = pair
             b == [ends |-> pair, rel |-> r]
  <2>1. b \in BondsIn(l) /\ b.ends = pair
    BY <1>3, BondIs
  <2>2. c \in BondsIn(l) /\ c.ends = pair
    BY <2>1
  <2> HIDE DEF c
  <2>3. PICK i \in 1 .. Len(l), j \in 1 .. Len(l), s \in Relevances :
          Tie(l, i, j, s) /\ c = [ends |-> Ends(l, i, j), rel |-> s]
    BY <2>2, BondIs
  <2>4. Ends(l, p, q) = Ends(l, i, j) /\ c.rel = s
    BY <2>2, <2>3
  <2>5. Tie(l, p, q, s)
    BY <2>3, <2>4, EndsAre, TieIs
  <2>6. s = r
    BY <1>3, <2>5, TieIs
  <2>7. f[pair] = c.rel
    BY <1>1, <1>2, <1>3 DEF c
  <2> QED BY <2>4, <2>6, <2>7
<1> QED BY <1>1, <1>2, <1>3 DEF IsRelOf, f

LEMMA RelIsOnly ==
  ASSUME NEW l, Good(l), NEW f, f = [pair \in DOMAIN f |-> f[pair]], IsRelOf(f, l)
  PROVE  RelIn(l) = f
<1> DEFINE g == RelIn(l)
<1>1. IsRelOf(g, l) /\ g = [pair \in DOMAIN g |-> g[pair]]
  BY RelIs
<1> HIDE DEF g
<1>2. DOMAIN g = DOMAIN f
  BY <1>1 DEF IsRelOf
<1>3. ASSUME NEW pair \in DOMAIN f
      PROVE  g[pair] = f[pair]
  <2>1. PICK p \in 1 .. Len(l), q \in 1 .. Len(l), r \in Relevances :
          Tie(l, p, q, r) /\ pair = Ends(l, p, q)
    BY DEF IsRelOf
  <2> QED BY <1>1, <2>1 DEF IsRelOf
<1>4. g = f
  BY <1>1, <1>2, <1>3
<1> QED BY <1>4 DEF g

LEMMA ValueIs ==
  ASSUME NEW l, Good(l)
  PROVE  /\ \A p \in 1 .. Len(l) : l[p].name \in MoodsIn(l) /\ ValueIn(l)[l[p].name] = l[p].value
         /\ \A n \in MoodsIn(l) : \E p \in 1 .. Len(l) : l[p].name = n
         /\ ValueIn(l) = [n \in MoodsIn(l) |-> ValueIn(l)[n]]
<1>1. l \in Seq(AnyMood) /\ DOMAIN l = 1 .. Len(l)
      /\ \A p, q \in 1 .. Len(l) : l[p].name = l[q].name => p = q
  BY GoodIs DEF Good
<1>2. \A n : n \in MoodsIn(l) <=> \E p \in 1 .. Len(l) : l[p].name = n
  BY <1>1 DEF MoodsIn
<1>3. ASSUME NEW p \in 1 .. Len(l)
      PROVE  LocateByName(l, l[p].name) = p
  BY <1>1, Located
<1>4. \A p \in 1 .. Len(l) : ValueIn(l)[l[p].name] = l[p].value
  BY <1>2, <1>3 DEF ValueIn
<1>5. ValueIn(l) = [n \in MoodsIn(l) |-> ValueIn(l)[n]]
  BY DEF ValueIn
<1> QED BY <1>2, <1>4, <1>5

LEMMA ValueIsOnly ==
  ASSUME NEW l, Good(l), NEW f, f = [n \in MoodsIn(l) |-> f[n]],
         \A p \in 1 .. Len(l) : f[l[p].name] = l[p].value
  PROVE  ValueIn(l) = f
<1> DEFINE g == ValueIn(l)
           M == MoodsIn(l)
<1>1. g = [n \in M |-> g[n]] /\ f = [n \in M |-> f[n]]
  BY ValueIs
<1>2. \A n \in M : g[n] = f[n]
  BY ValueIs
<1> HIDE DEF g, M
<1>3. g = f
  BY <1>1, <1>2
<1> QED BY <1>3 DEF g

\* A name is found exactly if a mood has it.
LEMMA FindIs ==
  ASSUME NEW l, Good(l), NEW n
  PROVE  LET k == LocateByName(l, n) IN
         /\ k = 0 <=> n \notin MoodsIn(l)
         /\ k # 0 => k \in 1 .. Len(l) /\ l[k].name = n
<1>1. l \in Seq(AnyMood) /\ DOMAIN l = 1 .. Len(l)
  BY GoodIs DEF Good
<1> QED BY <1>1, Located DEF MoodsIn

-----------------------------------------------------------------------------
(* What a call does to the ties, and so to the relation                    *)

SameNames(l, m) == Len(m) = Len(l) /\ \A p \in 1 .. Len(l) : m[p].name = l[p].name

LEMMA NamesKept ==
  ASSUME NEW l, NEW m, Good(l), Good(m), SameNames(l, m)
  PROVE  /\ MoodsIn(m) = MoodsIn(l)
         /\ \A p, q \in 1 .. Len(l) : Ends(m, p, q) = Ends(l, p, q)
<1>1. DOMAIN l = 1 .. Len(l) /\ DOMAIN m = 1 .. Len(l)
  BY GoodIs DEF SameNames
<1> QED BY <1>1 DEF SameNames, MoodsIn, Ends

LEMMA EdgesKept ==
  ASSUME NEW l, NEW m, Good(l), Good(m), SameNames(l, m),
         \A p \in 1 .. Len(l) : m[p].edges = l[p].edges
  PROVE  RelIn(m) = RelIn(l)
<1>1. \A p, q \in 1 .. Len(l) : \A r : Tie(m, p, q, r) <=> Tie(l, p, q, r)
  BY DEF Tie
<1>2. \A p, q \in 1 .. Len(l) : Ends(m, p, q) = Ends(l, p, q)
  BY NamesKept
<1>3. IsRelOf(RelIn(l), m)
  <2>1. IsRelOf(RelIn(l), l) /\ Len(m) = Len(l)
    BY RelIs DEF SameNames
  <2> QED BY <1>1, <1>2, <2>1 DEF IsRelOf
<1> QED BY <1>3, RelIs, RelIsOnly

LEMMA ValuesKept ==
  ASSUME NEW l, NEW m, Good(l), Good(m), SameNames(l, m),
         \A p \in 1 .. Len(l) : m[p].value = l[p].value
  PROVE  ValueIn(m) = ValueIn(l)
<1>1. MoodsIn(m) = MoodsIn(l) /\ Len(m) = Len(l)
  BY NamesKept DEF SameNames
<1>2. \A p \in 1 .. Len(m) : ValueIn(l)[m[p].name] = m[p].value
  BY <1>1, ValueIs DEF SameNames
<1> QED BY <1>1, <1>2, ValueIs, ValueIsOnly

\* mood_create: a mood without ties is added.
LEMMA CreatedRelation ==
  ASSUME NEW l, NEW m, Good(l), Good(m), Len(m) = Len(l) + 1,
         \A p \in 1 .. Len(l) : m[p] = l[p], m[Len(l) + 1].edges = <<>>
  PROVE  LET x == m[Len(l) + 1] IN
         /\ MoodsIn(m) = MoodsIn(l) \cup {x.name} /\ RelIn(m) = RelIn(l)
         /\ ValueIn(m) = Relation!Extend(ValueIn(l), x.name, x.value)
<1> DEFINE k == Len(l) + 1
           x == m[k]
           v == [n \in MoodsIn(l) \cup {x.name} |-> IF n = x.name THEN x.value ELSE ValueIn(l)[n]]
<1>1. DOMAIN l = 1 .. Len(l) /\ Len(l) \in Nat /\ DOMAIN m = 1 .. k
  BY GoodIs
<1>2. k \in 1 .. k /\ \A p \in 1 .. k : p \in 1 .. Len(l) \/ p = k
  BY <1>1
<1>3. \A p \in 1 .. Len(l) : p \in 1 .. k /\ p # k
  BY <1>1
<1>4. MoodsIn(m) = MoodsIn(l) \cup {x.name}
  BY <1>1, <1>2, <1>3 DEF MoodsIn
<1>5. \A p \in 1 .. Len(l) : m[p].name # x.name
  BY <1>1, <1>2, <1>3 DEF Good
<1>6. ASSUME NEW p \in 1 .. k, NEW q \in 1 .. k, NEW r
      PROVE  Tie(m, p, q, r) <=> p \in 1 .. Len(l) /\ q \in 1 .. Len(l) /\ Tie(l, p, q, r)
  <2>1. \A s : ~Tie(m, k, q, s) /\ ~Tie(m, k, p, s)
    BY DEF Tie, ToSet
  <2>2. Tie(m, p, q, r) => Tie(m, q, p, r)
    BY <1>1, TieIs
  <2>3. Tie(m, p, q, r) => p \in 1 .. Len(l) /\ q \in 1 .. Len(l)
    BY <1>2, <2>1, <2>2
  <2>4. p \in 1 .. Len(l) => (Tie(m, p, q, r) <=> Tie(l, p, q, r))
    BY DEF Tie
  <2> QED BY <2>3, <2>4
<1>7. \A p, q \in 1 .. Len(l) : Ends(m, p, q) = Ends(l, p, q)
  BY DEF Ends
<1>8. IsRelOf(RelIn(l), m)
  <2>1. IsRelOf(RelIn(l), l)
    BY RelIs
  <2> QED BY <1>1, <1>3, <1>6, <1>7, <2>1 DEF IsRelOf
<1>9. RelIn(m) = RelIn(l)
  BY <1>8, RelIs, RelIsOnly
<1>10. ValueIn(m) = v
  <2>1. \A p \in 1 .. k : v[m[p].name] = m[p].value
    <3>1. v[m[k].name] = m[k].value
      OBVIOUS
    <3>2. ASSUME NEW p \in 1 .. Len(l)
          PROVE  v[m[p].name] = m[p].value
      <4>1. l[p].name \in MoodsIn(l) /\ ValueIn(l)[l[p].name] = l[p].value
        BY ValueIs
      <4> QED BY <1>5, <4>1
    <3> QED BY <1>2, <3>1, <3>2
  <2>2. v = [n \in MoodsIn(m) |-> v[n]]
    BY <1>4
  <2> HIDE DEF v
  <2> QED BY <1>1, <2>1, <2>2, ValueIsOnly
<1>11. v = Relation!Extend(ValueIn(l), x.name, x.value)
  BY DEF ValueIn, Relation!Extend
<1> QED BY <1>4, <1>9, <1>10, <1>11

\* mood_bind: one tie more, in both directions.
LEMMA BoundRelation ==
  ASSUME NEW l, NEW m, Good(l), Good(m), SameNames(l, m),
         NEW src \in 1 .. Len(l), NEW dst \in 1 .. Len(l), NEW r \in Relevances,
         \A s \in Relevances : ~Tie(l, src, dst, s),
         \A p, q \in 1 .. Len(l) : \A s \in Relevances :
           Tie(m, p, q, s) <=>
             \/ Tie(l, p, q, s)
             \/ s = r /\ ((p = src /\ q = dst) \/ (p = dst /\ q = src))
  PROVE  RelIn(m) = Relation!Extend(RelIn(l), Ends(l, src, dst), r)
<1> DEFINE e == Ends(l, src, dst)
           g == RelIn(l)
           f == [pair \in DOMAIN g \cup {e} |-> IF pair = e THEN r ELSE g[pair]]
<1>1. \A p, q \in 1 .. Len(l) : Ends(m, p, q) = Ends(l, p, q)
  BY NamesKept
<1>2. Len(m) = Len(l) /\ IsRelOf(g, l)
  BY RelIs DEF SameNames
<1> HIDE DEF g
<1>3. Ends(l, dst, src) = e
  BY DEF Ends
<1>4. \A p, q \in 1 .. Len(l) : \A s \in Relevances : Tie(l, p, q, s) => Ends(l, p, q) # e
  <2> SUFFICES ASSUME NEW p \in 1 .. Len(l), NEW q \in 1 .. Len(l), NEW s \in Relevances,
                      Tie(l, p, q, s), Ends(l, p, q) = e
               PROVE  FALSE
    OBVIOUS
  <2>1. Tie(l, src, dst, s)
    BY EndsAre, TieIs
  <2> QED BY <2>1
<1>5. \A pair : pair \in DOMAIN f <=>
        \E p, q \in 1 .. Len(m) : \E s \in Relevances : Tie(m, p, q, s) /\ pair = Ends(m, p, q)
  <2>1. \A pair : pair \in DOMAIN f <=> pair \in DOMAIN g \/ pair = e
    OBVIOUS
  <2> HIDE DEF f, e
  <2>2. \A pair : pair \in DOMAIN g <=>
          \E p, q \in 1 .. Len(l) : \E s \in Relevances : Tie(l, p, q, s) /\ pair = Ends(l, p, q)
    BY <1>2 DEF IsRelOf
  <2>3. Tie(m, src, dst, r) /\ Ends(l, src, dst) = e
    BY DEF e
  <2>4. ASSUME NEW pair, pair \in DOMAIN f
        PROVE  \E p, q \in 1 .. Len(m) : \E s \in Relevances : Tie(m, p, q, s) /\ pair = Ends(m, p, q)
    BY <1>1, <1>2, <2>1, <2>2, <2>3, <2>4
  <2>5. ASSUME NEW p \in 1 .. Len(m), NEW q \in 1 .. Len(m), NEW s \in Relevances, Tie(m, p, q, s)
        PROVE  Ends(m, p, q) \in DOMAIN f
    BY <1>1, <1>2, <1>3, <2>1, <2>2, <2>3, <2>5
  <2> QED BY <2>4, <2>5
<1>6. ASSUME NEW p \in 1 .. Len(m), NEW q \in 1 .. Len(m), NEW s \in Relevances, Tie(m, p, q, s)
      PROVE  f[Ends(m, p, q)] = s
  <2>1. Ends(m, p, q) = Ends(l, p, q) /\ Ends(l, p, q) \in DOMAIN g \cup {e}
    BY <1>1, <1>2, <1>5, <1>6
  <2>2. CASE Tie(l, p, q, s)
    <3>1. Ends(l, p, q) # e /\ g[Ends(l, p, q)] = s
      BY <1>2, <1>4, <2>2 DEF IsRelOf
    <3> HIDE DEF e
    <3> QED BY <2>1, <3>1
  <2>3. CASE s = r /\ Ends(l, p, q) = e
    <3> HIDE DEF e
    <3> QED BY <2>1, <2>3
  <2> QED BY <1>2, <1>3, <1>6, <2>2, <2>3
<1>7. f = [pair \in DOMAIN f |-> f[pair]]
  OBVIOUS
<1> HIDE DEF f
<1>8. RelIn(m) = f
  BY <1>5, <1>6, <1>7, RelIsOnly DEF IsRelOf
<1> QED BY <1>8 DEF f, g, Relation!Extend

\* mood_unbind: the tie between the two is gone.
LEMMA UnboundRelation ==
  ASSUME NEW l, NEW m, Good(l), Good(m), SameNames(l, m),
         NEW src \in 1 .. Len(l), NEW dst \in 1 .. Len(l),
         \A p, q \in 1 .. Len(l) : \A s \in Relevances :
           Tie(m, p, q, s) <=>
             Tie(l, p, q, s) /\ ~(p = src /\ q = dst) /\ ~(p = dst /\ q = src)
  PROVE  RelIn(m) = Relation!Keep(RelIn(l), DOMAIN RelIn(l) \ {Ends(l, src, dst)})
<1> DEFINE e == Ends(l, src, dst)
           g == RelIn(l)
           f == [pair \in DOMAIN g \ {e} |-> g[pair]]
<1>1. \A p, q \in 1 .. Len(l) : Ends(m, p, q) = Ends(l, p, q)
  BY NamesKept
<1>2. Len(m) = Len(l) /\ IsRelOf(g, l)
  BY RelIs DEF SameNames
<1> HIDE DEF g
<1>3. \A p, q \in 1 .. Len(l) : Ends(l, p, q) = e <=> (p = src /\ q = dst) \/ (p = dst /\ q = src)
  <2>1. Ends(l, dst, src) = e
    BY DEF Ends
  <2> QED BY <2>1, EndsAre
<1> HIDE DEF e
<1>4. \A p, q \in 1 .. Len(l) : \A s \in Relevances :
        Tie(m, p, q, s) <=> Tie(l, p, q, s) /\ Ends(l, p, q) # e
  BY <1>3
<1>5. IsRelOf(f, m)
  <2>1. \A pair : pair \in DOMAIN f <=> pair \in DOMAIN g /\ pair # e
    OBVIOUS
  <2>2. \A pair \in DOMAIN g : pair # e => f[pair] = g[pair]
    OBVIOUS
  <2> HIDE DEF f
  <2>3. \A pair : pair \in DOMAIN f <=>
          \E p, q \in 1 .. Len(m) : \E s \in Relevances : Tie(m, p, q, s) /\ pair = Ends(m, p, q)
    BY <1>1, <1>2, <1>4, <2>1 DEF IsRelOf
  <2>4. ASSUME NEW p \in 1 .. Len(m), NEW q \in 1 .. Len(m), NEW s \in Relevances, Tie(m, p, q, s)
        PROVE  f[Ends(m, p, q)] = s
    <3>1. Ends(m, p, q) = Ends(l, p, q) /\ Ends(l, p, q) # e /\ Tie(l, p, q, s)
      BY <1>1, <1>2, <1>4, <2>4
    <3>2. Ends(l, p, q) \in DOMAIN g /\ g[Ends(l, p, q)] = s
      BY <1>2, <3>1 DEF IsRelOf
    <3> QED BY <2>2, <3>1, <3>2
  <2> QED BY <2>3, <2>4 DEF IsRelOf
<1>6. f = [pair \in DOMAIN f |-> f[pair]]
  OBVIOUS
<1> HIDE DEF f
<1>7. RelIn(m) = f
  BY <1>5, <1>6, RelIsOnly
<1> QED BY <1>7 DEF f, g, e, Relation!Keep

\* mood_destroy: the ties of the moods that stay are what they were.
LEMMA DestroyedTies ==
  ASSUME NEW l, Good(l), NEW k \in 1 .. Len(l),
         NEW p \in 1 .. Len(l) - 1, NEW q \in 1 .. Len(l) - 1, NEW s
  PROVE  Tie(Destroyed(l, k), p, q, s) <=> Tie(l, Old(p, k), Old(q, k), s)
<1> DEFINE m == Destroyed(l, k)
           E == ToSet(l[Old(p, k)].edges)
           x == [dst |-> Old(q, k) - 1, rel |-> s]
           y == [dst |-> q - 1, rel |-> s]
<1>1. Len(l) \in Nat /\ Old(p, k) \in 1 .. Len(l)
  BY GoodIs DEF Old
<1>2. ToSet(m[p].edges) = {[dst |-> Down(e.dst, k - 1), rel |-> e.rel] : e \in {z \in E : z.dst # k - 1}}
  BY DestroyedEdges DEF Good
<1>3. \A n \in Int : n # k - 1 /\ Down(n, k - 1) = q - 1 <=> n = Old(q, k) - 1
  BY <1>1 DEF Down, Old
<1>4. x.dst \in Int /\ x.dst = Old(q, k) - 1 /\ x.rel = s /\ y.dst = q - 1 /\ y.rel = s
  BY DEF Old
<1>5. \A e \in E : e.dst \in Int /\ (e.dst = x.dst /\ e.rel = s => e = x)
  <2> TAKE e \in E
  <2>1. l[Old(p, k)].edges \in Seq(AnyEdge)
    BY <1>1, GoodIs
  <2>2. e \in AnyEdge /\ e.dst \in Int
    BY <2>1, EdgeOf
  <2> QED BY <2>2 DEF AnyEdge
<1> HIDE DEF m, E
<1>6. Tie(m, p, q, s) => Tie(l, Old(p, k), Old(q, k), s)
  <2> SUFFICES ASSUME y \in ToSet(m[p].edges)
               PROVE  x \in E
    BY DEF Tie, E
  <2>1. PICK e \in E : e.dst # k - 1 /\ y = [dst |-> Down(e.dst, k - 1), rel |-> e.rel]
    BY <1>2
  <2>2. Down(e.dst, k - 1) = q - 1 /\ e.rel = s
    BY <2>1
  <2>3. e = x
    BY <1>3, <1>4, <1>5, <2>1, <2>2
  <2> QED BY <2>3
<1>7. Tie(l, Old(p, k), Old(q, k), s) => Tie(m, p, q, s)
  <2> SUFFICES ASSUME x \in E
               PROVE  y \in ToSet(m[p].edges)
    BY DEF Tie, E
  <2>1. x.dst # k - 1 /\ Down(x.dst, k - 1) = q - 1
    BY <1>3, <1>4
  <2>2. [dst |-> Down(x.dst, k - 1), rel |-> x.rel] = y
    BY <1>4, <2>1
  <2> HIDE DEF x, y
  <2> QED BY <1>2, <2>1, <2>2
<1> QED BY <1>6, <1>7 DEF m

\* The relation of m is the one of l without the mood n.
Gone(l, n, m) ==
  /\ MoodsIn(m) = MoodsIn(l) \ {n}
  /\ RelIn(m) = Relation!Keep(RelIn(l), {pair \in DOMAIN RelIn(l) : n \notin pair})
  /\ ValueIn(m) = Relation!Keep(ValueIn(l), MoodsIn(l) \ {n})

LEMMA DestroyedRelation ==
  ASSUME NEW l, NEW k \in 1 .. Len(l), NEW n, n = l[k].name,
         NEW m, m = Destroyed(l, k), Good(l), Good(m)
  PROVE  Gone(l, n, m)
<1> DEFINE g == RelIn(l)
           D == {pair \in DOMAIN g : n \notin pair}
           f == [pair \in D |-> g[pair]]
           v == [x \in MoodsIn(l) \ {n} |-> ValueIn(l)[x]]
           o(p) == Old(p, k)
           M == 1 .. Len(l) - 1
<1>1. DOMAIN l = 1 .. Len(l) /\ Len(l) \in Nat /\ l \in Seq(AnyMood)
  BY SMTT(40), GoodIs DEF Good
<1>2. Len(m) = Len(l) - 1 /\ \A p \in M : m[p].name = l[o(p)].name /\ m[p].value = l[o(p)].value
  BY <1>1, DestroyedIs
<1>3. DOMAIN m = M /\ 1 .. Len(m) = M
  BY <1>2, GoodIs
<1>4. \A p, q \in M : \A s : Tie(m, p, q, s) <=> Tie(l, o(p), o(q), s)
  BY DestroyedTies
<1>5. \A p \in M : o(p) \in 1 .. Len(l) /\ o(p) # k
  BY <1>1 DEF Old
<1>6. \A i \in 1 .. Len(l) : i # k => \E p \in M : o(p) = i
  <2> TAKE i \in 1 .. Len(l)
  <2>1. CASE i < k
    BY <1>1, <2>1 DEF Old
  <2>2. CASE i > k
    <3>1. i - 1 \in M /\ o(i - 1) = i
      BY <1>1, <2>2 DEF Old
    <3> QED BY <3>1
  <2> QED BY <1>1, <2>1, <2>2
<1>7. \A i \in 1 .. Len(l) : l[i].name = n <=> i = k
  BY DEF Good
<1> HIDE DEF o, M
<1>8. MoodsIn(m) = MoodsIn(l) \ {n}
  <2>1. \A x : x \in MoodsIn(m) <=> \E p \in M : l[o(p)].name = x
    BY <1>2, <1>3 DEF MoodsIn
  <2>2. \A x : x \in MoodsIn(l) <=> \E i \in 1 .. Len(l) : l[i].name = x
    BY <1>1 DEF MoodsIn
  <2>3. \A x : x \in MoodsIn(m) <=> x \in MoodsIn(l) /\ x # n
    BY <1>5, <1>6, <1>7, <2>1, <2>2
  <2> QED BY <2>3
<1>9. \A p, q \in M : Ends(m, p, q) = Ends(l, o(p), o(q)) /\ n \notin Ends(l, o(p), o(q))
  BY <1>2, <1>5, <1>7 DEF Ends
<1>10. IsRelOf(g, l)
  BY RelIs
<1> HIDE DEF g
<1>11. \A pair : pair \in DOMAIN f <=> pair \in DOMAIN g /\ n \notin pair
  OBVIOUS
<1>12. \A pair \in DOMAIN f : f[pair] = g[pair]
  OBVIOUS
<1>13. f = [pair \in DOMAIN f |-> f[pair]]
  OBVIOUS
<1> HIDE DEF f
<1>14. \A pair : pair \in DOMAIN f <=>
         \E p, q \in M : \E s \in Relevances : Tie(m, p, q, s) /\ pair = Ends(m, p, q)
  <2>1. ASSUME NEW pair \in DOMAIN f
        PROVE  \E p, q \in M : \E s \in Relevances : Tie(m, p, q, s) /\ pair = Ends(m, p, q)
    <3>1. PICK i \in 1 .. Len(l), j \in 1 .. Len(l), s \in Relevances :
            Tie(l, i, j, s) /\ pair = Ends(l, i, j)
      BY <1>10, <1>11 DEF IsRelOf
    <3>2. i # k /\ j # k
      BY <1>11, <3>1 DEF Ends
    <3>3. PICK p \in M, q \in M : o(p) = i /\ o(q) = j
      BY <1>6, <3>2
    <3> QED BY <1>4, <1>9, <3>1, <3>3
  <2>2. ASSUME NEW p \in M, NEW q \in M, NEW s \in Relevances, Tie(m, p, q, s)
        PROVE  Ends(m, p, q) \in DOMAIN f
    BY <1>4, <1>5, <1>9, <1>10, <1>11, <2>2 DEF IsRelOf
  <2> QED BY <2>1, <2>2
<1>15. \A p, q \in M : \A s \in Relevances : Tie(m, p, q, s) => f[Ends(m, p, q)] = s
  <2> TAKE p, q \in M
  <2> TAKE s \in Relevances
  <2> HAVE Tie(m, p, q, s)
  <2>1. Tie(l, o(p), o(q), s) /\ Ends(m, p, q) = Ends(l, o(p), o(q)) /\ Ends(m, p, q) \in DOMAIN f
    BY <1>4, <1>9, <1>14
  <2>2. g[Ends(m, p, q)] = s
    BY <1>5, <1>10, <2>1 DEF IsRelOf
  <2> QED BY <1>12, <2>1, <2>2
<1>16. RelIn(m) = f
  <2>1. IsRelOf(f, m) /\ Good(m)
    BY ZenonT(60), <1>3, <1>14, <1>15 DEF IsRelOf
  <2> QED BY <1>13, <2>1, RelIsOnly
<1>17. ValueIn(m) = v
  <2>1. \A p \in M : v[m[p].name] = m[p].value
    <3> TAKE p \in M
    <3>1. l[o(p)].name \in MoodsIn(l) \ {n} /\ ValueIn(l)[l[o(p)].name] = l[o(p)].value
      BY <1>5, <1>7, ValueIs
    <3> QED BY <1>2, <3>1
  <2>2. v = [x \in MoodsIn(m) |-> v[x]] /\ Good(m)
    BY <1>8
  <2> HIDE DEF v
  <2> QED BY <1>3, <2>1, <2>2, ValueIsOnly
<1> QED BY <1>8, <1>16, <1>17 DEF f, g, Gone, Relation!Keep

LEMMA LinkedTies ==
  ASSUME NEW l, Good(l), NEW src \in 1 .. Len(l), NEW dst \in 1 .. Len(l), src # dst,
         NEW r \in Relevances, NEW p \in 1 .. Len(l), NEW q \in 1 .. Len(l), NEW s
  PROVE  Tie(Link(l, src, dst, r), p, q, s) <=>
           Tie(l, p, q, s) \/ (s = r /\ ((p = src /\ q = dst) \/ (p = dst /\ q = src)))
<1> DEFINE m == Link(l, src, dst, r)
           x(c) == [dst |-> c - 1, rel |-> r]
           y == [dst |-> q - 1, rel |-> s]
<1>1. l \in Seq(AnyMood) /\ l[src].id = src - 1 /\ l[dst].id = dst - 1
      /\ \A c \in 1 .. Len(l) : l[c].edges \in Seq(AnyEdge)
  BY GoodIs DEF Good
<1>2. \A c \in 1 .. Len(l) : x(c) \in AnyEdge /\ (y = x(c) <=> q = c /\ s = r)
  <2> TAKE c \in 1 .. Len(l)
  <2>1. x(c) \in AnyEdge
    BY DEF AnyEdge, Relevances
  <2>2. y.dst = q - 1 /\ y.rel = s /\ x(c).dst = c - 1 /\ x(c).rel = r
    OBVIOUS
  <2>3. q - 1 = c - 1 <=> q = c
    OBVIOUS
  <2> QED BY <2>1, <2>2, <2>3
<1>3. m[p].edges = IF p = dst THEN <<x(src)>> \o l[dst].edges
                   ELSE IF p = src THEN <<x(dst)>> \o l[src].edges
                   ELSE l[p].edges
  <2>1. x(src) = [dst |-> l[src].id, rel |-> r] /\ x(dst) = [dst |-> l[dst].id, rel |-> r]
    BY <1>1
  <2> HIDE DEF x
  <2>2. r \in -Unit .. Unit
    BY DEF Relevances
  <2>3. m[p].edges = IF p = dst THEN <<[dst |-> l[src].id, rel |-> r]>> \o l[dst].edges
                     ELSE IF p = src THEN <<[dst |-> l[dst].id, rel |-> r]>> \o l[src].edges
                     ELSE l[p].edges
    BY <1>1, <2>2, LinkIs
  <2> HIDE DEF m
  <2> QED BY <2>1, <2>3
<1> HIDE DEF m, x, y
<1>4. \A c, d \in 1 .. Len(l) : ToSet(<<x(c)>> \o l[d].edges) = ToSet(l[d].edges) \cup {x(c)}
  BY <1>1, <1>2, FrontEdge
<1>5. y \in ToSet(m[p].edges) <=>
        y \in ToSet(l[p].edges) \/ (p = dst /\ y = x(src)) \/ (p = src /\ y = x(dst))
  BY <1>3, <1>4
<1> QED BY <1>2, <1>5 DEF Tie, m, y

LEMMA UnlinkedTies ==
  ASSUME NEW l, Good(l), NEW src \in 1 .. Len(l), NEW dst \in 1 .. Len(l), src # dst,
         NEW p \in 1 .. Len(l), NEW q \in 1 .. Len(l), NEW s
  PROVE  Tie(Unlink(l, src, dst), p, q, s) <=>
           Tie(l, p, q, s) /\ ~(p = src /\ q = dst) /\ ~(p = dst /\ q = src)
<1> DEFINE m == Unlink(l, src, dst)
           y == [dst |-> q - 1, rel |-> s]
<1>1. /\ l \in Seq(AnyMood) /\ l[src].id = src - 1 /\ l[dst].id = dst - 1
      /\ \A c \in 1 .. Len(l) : l[c].edges \in Seq(AnyEdge) /\ Single(l[c].edges)
  BY GoodIs DEF Good
<1>2. m[p].edges = IF p = src THEN Without(l[src].edges, dst - 1)
                   ELSE IF p = dst THEN Without(l[dst].edges, src - 1)
                   ELSE l[p].edges
  <2>1. m[p].edges = IF p = src THEN Without(l[src].edges, l[dst].id)
                     ELSE IF p = dst THEN Without(l[dst].edges, l[src].id)
                     ELSE l[p].edges
    BY <1>1, UnlinkIs
  <2> HIDE DEF m
  <2> QED BY <1>1, <2>1
<1>3. /\ Tie(m, p, q, s) <=> y \in ToSet(m[p].edges)
      /\ Tie(l, p, q, s) <=> y \in ToSet(l[p].edges)
  BY DEF Tie
<1>4. (y.dst # dst - 1 <=> q # dst) /\ (y.dst # src - 1 <=> q # src)
  OBVIOUS
<1> HIDE DEF m, y
<1>5. \A c \in 1 .. Len(l) : \A d :
        ToSet(Without(l[c].edges, d)) = {x \in ToSet(l[c].edges) : x.dst # d}
  BY <1>1, WithoutIs
<1>6. y \in ToSet(m[p].edges) <=>
        /\ y \in ToSet(l[p].edges)
        /\ p = src => y.dst # dst - 1
        /\ p = dst => y.dst # src - 1
  <2>1. CASE p = src
    <3>1. m[p].edges = Without(l[p].edges, dst - 1) /\ p # dst
      BY <1>2, <2>1
    <3>2. ToSet(m[p].edges) = {x \in ToSet(l[p].edges) : x.dst # dst - 1}
      BY <1>5, <3>1
    <3> QED BY <2>1, <3>1, <3>2
  <2>2. CASE p = dst
    <3>1. m[p].edges = Without(l[p].edges, src - 1) /\ p # src
      BY <1>2, <2>2
    <3>2. ToSet(m[p].edges) = {x \in ToSet(l[p].edges) : x.dst # src - 1}
      BY <1>5, <3>1
    <3> QED BY <2>2, <3>1, <3>2
  <2>3. CASE p # src /\ p # dst
    BY <1>2, <2>3
  <2> QED BY <2>1, <2>2, <2>3
<1>7. y \in ToSet(m[p].edges) <=>
        y \in ToSet(l[p].edges) /\ (p = src => q # dst) /\ (p = dst => q # src)
  BY <1>4, <1>6
<1>8. y \in ToSet(m[p].edges) <=>
        y \in ToSet(l[p].edges) /\ ~(p = src /\ q = dst) /\ ~(p = dst /\ q = src)
  BY <1>7
<1> QED BY <1>3, <1>8 DEF m

-----------------------------------------------------------------------------
(* Each call is a call of the relation                                     *)

\* What holds of the list as long as there are fewer moods than ids.
GraphInv == ListInv /\ IdIsPlace /\ EdgeInv

LEMMA GoodList ==
  /\ GraphInv => Good(list)
  /\ GraphInv' => Good(list')
<1>1. GraphInv => Good(list)
  <2> SUFFICES ASSUME GraphInv
               PROVE  Good(list)
    OBVIOUS
  <2>1. list \in Seq(AnyMood) /\ DOMAIN list = 1 .. Len(list)
    BY DEF GraphInv, ListInv
  <2> QED BY <2>1 DEF GraphInv, ListInv, OneMoodPerName, IdIsPlace, EdgeInv, Good, Placed
<1>2. GraphInv' => Good(list')
  <2> SUFFICES ASSUME GraphInv'
               PROVE  Good(list')
    OBVIOUS
  <2>1. list' \in Seq(AnyMood) /\ DOMAIN list' = 1 .. Len(list')
    BY DEF GraphInv, ListInv
  <2> QED BY <2>1 DEF GraphInv, ListInv, OneMoodPerName, IdIsPlace, EdgeInv, Good, Placed
<1> QED BY <1>1, <1>2

\* Two places are bound in the relation exactly if the one points to the other.
LEMMA EndsBound ==
  ASSUME NEW l, Good(l), NEW p \in 1 .. Len(l), NEW q \in 1 .. Len(l)
  PROVE  Ends(l, p, q) \in DOMAIN RelIn(l) <=> PointsTo(l[p], l[q].id)
<1>1. Ends(l, p, q) \in DOMAIN RelIn(l) <=>
        \E i, j \in 1 .. Len(l) : \E r \in Relevances : Tie(l, i, j, r) /\ Ends(l, p, q) = Ends(l, i, j)
  BY RelIs DEF IsRelOf
<1>2. ASSUME NEW i \in 1 .. Len(l), NEW j \in 1 .. Len(l), NEW r \in Relevances,
             Tie(l, i, j, r), Ends(l, p, q) = Ends(l, i, j)
      PROVE  Tie(l, p, q, r)
  BY <1>2, EndsAre, TieIs
<1> QED BY <1>1, <1>2, PointIsTie

LEMMA AnswerMatches ==
  ASSUME NEW code, Answer(code)
  PROVE  Relation!Answer(code)
BY DEF Answer, Relation!Answer

LEMMA CreateMatches ==
  ASSUME Good(list), Good(list'), NEW n, Create(n)
  PROVE  Relation!Create(n)
<1> DEFINE refused == n \in LongNames \cup MoodsIn(list)
           x == [name |-> n, id |-> gMood_Num, edges |-> <<>>, value |-> BaseValue]
<1>1. Refused(n) <=> refused
  BY FindIs DEF Refused, Known
<1>2. CASE Refused(n) /\ Answer(1)
  BY <1>1, <1>2, AnswerMatches DEF Relation!Create
<1>3. CASE ~Refused(n) /\ Answer(2)
  BY <1>1, <1>3, AnswerMatches DEF Relation!Create
<1>4. ASSUME ~Refused(n), list' = Append(list, x), ret' = 0
      PROVE  Relation!Create(n)
  <2>1. x.name = n /\ x.edges = <<>> /\ x.value = BaseValue
    OBVIOUS
  <2> HIDE DEF x
  <2>2. Len(list') = Len(list) + 1 /\ (\A p \in 1 .. Len(list) : list'[p] = list[p])
        /\ list'[Len(list) + 1] = x
    BY <1>4 DEF Good
  <2>3. /\ MoodsIn(list') = MoodsIn(list) \cup {n} /\ RelIn(list') = RelIn(list)
        /\ ValueIn(list') = Relation!Extend(ValueIn(list), n, BaseValue)
    BY <2>1, <2>2, CreatedRelation
  <2> QED BY <1>1, <1>4, <2>3 DEF Relation!Create
<1> QED BY <1>2, <1>3, <1>4 DEF Create

LEMMA DestroyMatches ==
  ASSUME Good(list), Good(list'), NEW n, Destroy(n)
  PROVE  Relation!Destroy(n)
<1> DEFINE k == LocateByName(list, n)
<1>1. (k = 0 <=> n \notin MoodsIn(list)) /\ (k # 0 => k \in 1 .. Len(list) /\ list[k].name = n)
  BY FindIs
<1> HIDE DEF k
<1>2. CASE (n = Base \/ k = 0) /\ Answer(1)
  BY <1>1, <1>2, AnswerMatches DEF Relation!Destroy
<1>3. ASSUME n # Base, k # 0, list' = Destroyed(list, k), ret' = 0
      PROVE  Relation!Destroy(n)
  <2>1. k \in 1 .. Len(list) /\ n = list[k].name
    BY <1>1, <1>3
  <2>2. Gone(list, n, list')
    BY <1>3, <2>1, DestroyedRelation
  <2> QED BY <1>1, <1>3, <2>2 DEF Relation!Destroy, Gone
<1> QED BY <1>2, <1>3 DEF Destroy, Destroyed, k

LEMMA BindMatches ==
  ASSUME MoodAssumption, Good(list), Good(list'), NEW a, NEW b, a # b, NEW r \in Rels, Bind(a, b, r)
  PROVE  Relation!Bind(a, b, r)
<1> DEFINE src == LocateByName(list, a)
           dst == LocateByName(list, b)
<1>1. /\ (src = 0 <=> a \notin MoodsIn(list)) /\ (src # 0 => src \in 1 .. Len(list) /\ list[src].name = a)
      /\ (dst = 0 <=> b \notin MoodsIn(list)) /\ (dst # 0 => dst \in 1 .. Len(list) /\ list[dst].name = b)
  BY FindIs
<1>2. \/ (src = 0 \/ dst = 0) /\ Answer(1)
      \/ /\ src # 0 /\ dst # 0
         /\ \/ AlreadyBound(src, dst) /\ Answer(3)
            \/ ~AlreadyBound(src, dst) /\ Answer(1)
            \/ /\ ~AlreadyBound(src, dst) /\ ret' = 0
               /\ list' = Link(list, src, dst, Relevance(r))
  BY DEF Bind
<1> HIDE DEF src, dst
<1>3. CASE (src = 0 \/ dst = 0) /\ Answer(1)
  BY <1>1, <1>3, AnswerMatches DEF Relation!Bind
<1>4. ASSUME src # 0, dst # 0
      PROVE  /\ {a, b} \subseteq MoodsIn(list) /\ {a, b} = Ends(list, src, dst)
             /\ AlreadyBound(src, dst) <=> {a, b} \in DOMAIN RelIn(list)
  BY <1>1, <1>4, EndsBound DEF Ends, AlreadyBound
<1>5. CASE src # 0 /\ dst # 0 /\ AlreadyBound(src, dst) /\ Answer(3)
  BY <1>4, <1>5, AnswerMatches DEF Relation!Bind
<1>6. CASE src # 0 /\ dst # 0 /\ ~AlreadyBound(src, dst) /\ Answer(1)
  BY <1>4, <1>6, AnswerMatches DEF Relation!Bind
<1>7. ASSUME src # 0, dst # 0, ~AlreadyBound(src, dst), ret' = 0,
             list' = Link(list, src, dst, Relevance(r))
      PROVE  Relation!Bind(a, b, r)
  <2> DEFINE R == Relevance(r)
  <2>1. R \in Relevances /\ R = Relation!Limit(r, -Unit, Unit)
    BY DEF Relevance, Limit, Relation!Limit, MoodAssumption, Relevances
  <2>2. src \in 1 .. Len(list) /\ dst \in 1 .. Len(list) /\ src # dst
    BY <1>1, <1>7
  <2>3. Alike(list, list')
    BY <1>7, <2>1, <2>2, LinkIs DEF Good, Relevances
  <2>4. SameNames(list, list') /\ \A p \in 1 .. Len(list) : list'[p].value = list[p].value
    BY <2>3 DEF Alike, SameMoods, SameNames
  <2>5. \A s \in Relevances : ~Tie(list, src, dst, s)
    BY <1>7, <2>2, PointIsTie DEF AlreadyBound
  <2> HIDE DEF R
  <2>6. \A p, q \in 1 .. Len(list) : \A s \in Relevances :
          Tie(list', p, q, s) <=>
            Tie(list, p, q, s) \/ (s = R /\ ((p = src /\ q = dst) \/ (p = dst /\ q = src)))
    BY <1>7, <2>1, <2>2, LinkedTies DEF R
  <2>7. RelIn(list') = Relation!Extend(RelIn(list), Ends(list, src, dst), R)
    BY <2>1, <2>2, <2>4, <2>5, <2>6, BoundRelation
  <2>8. MoodsIn(list') = MoodsIn(list) /\ ValueIn(list') = ValueIn(list)
    BY <2>4, NamesKept, ValuesKept
  <2> QED BY <1>4, <1>7, <2>1, <2>7, <2>8 DEF Relation!Bind
<1> QED BY <1>2, <1>3, <1>5, <1>6, <1>7

LEMMA UnbindMatches ==
  ASSUME Good(list), Good(list'), NEW a, NEW b, a # b, Unbind(a, b)
  PROVE  Relation!Unbind(a, b)
<1> DEFINE src == LocateByName(list, a)
           dst == LocateByName(list, b)
<1>1. /\ (src = 0 <=> a \notin MoodsIn(list)) /\ (src # 0 => src \in 1 .. Len(list) /\ list[src].name = a)
      /\ (dst = 0 <=> b \notin MoodsIn(list)) /\ (dst # 0 => dst \in 1 .. Len(list) /\ list[dst].name = b)
  BY FindIs
<1>2. \/ (src = 0 \/ dst = 0) /\ Answer(1)
      \/ /\ src # 0 /\ dst # 0
         /\ \/ ~PointsTo(list[src], list[dst].id) /\ Answer(2)
            \/ PointsTo(list[src], list[dst].id) /\ list' = Unlink(list, src, dst) /\ ret' = 0
  BY DEF Unbind
<1> HIDE DEF src, dst
<1>3. CASE (src = 0 \/ dst = 0) /\ Answer(1)
  BY <1>1, <1>3, AnswerMatches DEF Relation!Unbind
<1>4. ASSUME src # 0, dst # 0
      PROVE  /\ {a, b} \subseteq MoodsIn(list) /\ {a, b} = Ends(list, src, dst)
             /\ PointsTo(list[src], list[dst].id) <=> {a, b} \in DOMAIN RelIn(list)
  BY <1>1, <1>4, EndsBound DEF Ends
<1>5. CASE src # 0 /\ dst # 0 /\ ~PointsTo(list[src], list[dst].id) /\ Answer(2)
  BY <1>4, <1>5, AnswerMatches DEF Relation!Unbind
<1>6. ASSUME src # 0, dst # 0, PointsTo(list[src], list[dst].id), ret' = 0,
             list' = Unlink(list, src, dst)
      PROVE  Relation!Unbind(a, b)
  <2>1. src \in 1 .. Len(list) /\ dst \in 1 .. Len(list) /\ src # dst
    BY <1>1, <1>6
  <2>2. Alike(list, list')
    BY <1>6, <2>1, UnlinkIs DEF Good
  <2>3. SameNames(list, list') /\ \A p \in 1 .. Len(list) : list'[p].value = list[p].value
    BY <2>2 DEF Alike, SameMoods, SameNames
  <2>4. \A p, q \in 1 .. Len(list) : \A s \in Relevances :
          Tie(list', p, q, s) <=>
            Tie(list, p, q, s) /\ ~(p = src /\ q = dst) /\ ~(p = dst /\ q = src)
    BY <1>6, <2>1, UnlinkedTies
  <2>5. RelIn(list') = Relation!Keep(RelIn(list), DOMAIN RelIn(list) \ {Ends(list, src, dst)})
    BY <2>1, <2>3, <2>4, UnboundRelation
  <2>6. MoodsIn(list') = MoodsIn(list) /\ ValueIn(list') = ValueIn(list)
    BY <2>3, NamesKept, ValuesKept
  <2> QED BY <1>4, <1>6, <2>5, <2>6 DEF Relation!Unbind
<1> QED BY <1>2, <1>3, <1>5, <1>6

\* Only values change: those of w.
LEMMA ValuesSet ==
  ASSUME Good(list), Good(list'), NEW w, \A p \in 1 .. Len(list) : w[p] \in Int,
         Len(list') = Len(list),
         \A p \in 1 .. Len(list) : list'[p] = Valued(list[p], w[p]),
         NEW f, f = [n \in MoodsIn(list) |-> f[n]],
         \A p \in 1 .. Len(list) : f[list[p].name] = w[p]
  PROVE  MoodsIn(list') = MoodsIn(list) /\ RelIn(list') = RelIn(list) /\ ValueIn(list') = f
<1>1. \A p \in 1 .. Len(list) :
        /\ list'[p].name = list[p].name /\ list'[p].edges = list[p].edges /\ list'[p].value = w[p]
  BY GoodIs, ValuedIs
<1>2. SameNames(list, list')
  BY <1>1 DEF SameNames
<1>3. MoodsIn(list') = MoodsIn(list) /\ RelIn(list') = RelIn(list)
  BY <1>1, <1>2, NamesKept, EdgesKept
<1>4. \A p \in 1 .. Len(list') : f[list'[p].name] = list'[p].value
  BY <1>1
<1> QED BY <1>3, <1>4, ValueIsOnly

LEMMA SetPropertyMatches ==
  ASSUME MoodAssumption, Good(list), Good(list'), NEW n, NEW v \in Values, SetProperty(n, v)
  PROVE  Relation!SetProperty(n, v)
<1> DEFINE k == LocateByName(list, n)
<1>1. (k = 0 <=> n \notin MoodsIn(list)) /\ (k # 0 => k \in 1 .. Len(list) /\ list[k].name = n)
  BY FindIs
<1>2. CASE k = 0 /\ Answer(1)
  BY <1>1, <1>2, AnswerMatches DEF Relation!SetProperty
<1>3. ASSUME k # 0, list' = [list EXCEPT ![k].value = v], ret' = 0
      PROVE  Relation!SetProperty(n, v)
  <2> HIDE DEF k
  <2> DEFINE w == [p \in 1 .. Len(list) |-> IF p = k THEN v ELSE list[p].value]
             f == [ValueIn(list) EXCEPT ![n] = v]
  <2>1. DOMAIN list = 1 .. Len(list) /\ v \in Int /\ \A p \in 1 .. Len(list) : list[p].value \in Int
    BY GoodIs DEF MoodAssumption
  <2>2. \A p \in 1 .. Len(list) : w[p] \in Int
    BY <2>1
  <2>3. list' = [list EXCEPT ![k] = Valued(list[k], v)]
    BY <1>3 DEF Valued
  <2>4. Len(list') = Len(list)
    BY <2>1, <2>3 DEF Good
  <2>5. \A p \in 1 .. Len(list) : list'[p] = Valued(list[p], w[p])
    <3> TAKE p \in 1 .. Len(list)
    <3>1. CASE p = k
      BY <2>1, <2>3, <3>1
    <3>2. CASE p # k
      <4>1. list'[p] = list[p] /\ w[p] = list[p].value /\ list[p] \in AnyMood
        BY <2>1, <2>3, <3>2, GoodIs
      <4>2. Valued(list[p], list[p].value) = list[p]
        BY <4>1 DEF Valued, AnyMood
      <4> QED BY <4>1, <4>2
    <3> QED BY <3>1, <3>2
  <2>6. f = [x \in MoodsIn(list) |-> f[x]]
    BY DEF ValueIn
  <2>7. \A p \in 1 .. Len(list) : f[list[p].name] = w[p]
    <3> TAKE p \in 1 .. Len(list)
    <3>1. list[p].name \in MoodsIn(list) /\ ValueIn(list)[list[p].name] = list[p].value
      BY ValueIs
    <3>2. list[p].name = n <=> p = k
      BY <1>1, <1>3 DEF Good
    <3>3. DOMAIN ValueIn(list) = MoodsIn(list)
      BY DEF ValueIn
    <3> QED BY <3>1, <3>2, <3>3
  <2> HIDE DEF w
  <2>8. MoodsIn(list') = MoodsIn(list) /\ RelIn(list') = RelIn(list) /\ ValueIn(list') = f
    <3> HIDE DEF f
    <3> QED BY ZenonT(60), <2>2, <2>4, <2>5, <2>6, <2>7, ValuesSet
  <2> QED BY <1>1, <1>3, <2>8 DEF Relation!SetProperty
<1> QED BY <1>2, <1>3 DEF SetProperty

\* What mood_increase adds to another mood is what the relation says.
LEMMA PullIs ==
  ASSUME MoodAssumption, NEW l, Good(l), NEW k \in 1 .. Len(l), NEW p \in 1 .. Len(l)
  PROVE  /\ Pull(l, k, p) \in Int
         /\ Pull(l, k, p) = IF Ends(l, p, k) \in DOMAIN RelIn(l)
                            THEN ValueIncrease * RelIn(l)[Ends(l, p, k)] ELSE 0
<1> DEFINE e == CHOOSE e \in ToSet(l[k].edges) : e.dst = l[p].id
<1>1. Ends(l, p, k) = Ends(l, k, p) /\ l[p].id = p - 1
  BY GoodIs DEF Ends
<1>2. Ends(l, k, p) \in DOMAIN RelIn(l) <=> PointsTo(l[k], l[p].id)
  BY EndsBound
<1>3. ASSUME PointsTo(l[k], l[p].id)
      PROVE  RelIn(l)[Ends(l, k, p)] = e.rel /\ ValueIncrease * e.rel \in Int
  <2>1. e \in ToSet(l[k].edges) /\ e.dst = p - 1
    BY <1>1, <1>3 DEF PointsTo
  <2> HIDE DEF e
  <2>2. e.dst + 1 = p
    BY <2>1
  <2>3. Tie(l, k, p, e.rel) /\ e.rel \in Relevances
    BY <2>1, <2>2, EdgeIsTie
  <2>4. ValueIncrease \in Int /\ e.rel \in Int
    BY <2>3 DEF MoodAssumption, Relevances
  <2>5. ValueIncrease * e.rel \in Int
    BY <2>4
  <2> QED BY <2>3, <2>5, RelIs DEF IsRelOf
<1>4. Pull(l, k, p) = IF PointsTo(l[k], l[p].id) THEN ValueIncrease * e.rel ELSE 0
  BY DEF Pull
<1> HIDE DEF e
<1>5. CASE PointsTo(l[k], l[p].id)
  BY <1>1, <1>2, <1>3, <1>4, <1>5
<1>6. CASE ~PointsTo(l[k], l[p].id)
  <2>1. Pull(l, k, p) = 0 /\ Ends(l, p, k) \notin DOMAIN RelIn(l)
    BY <1>1, <1>2, <1>4, <1>6
  <2> QED BY <2>1
<1> QED BY <1>5, <1>6

LEMMA RaiseMatches ==
  ASSUME MoodAssumption, Good(list), Good(list'), NEW n, Raise(n)
  PROVE  Relation!Raise(n)
<1> DEFINE k == LocateByName(list, n)
           g == RelIn(list)
           v == ValueIn(list)
           top(x) == Limit(x + ValueIncrease * Unit, MinValue, MaxValue)
           w == [p \in 1 .. Len(list) |->
                   IF p = k THEN top(list[p].value) ELSE list[p].value + Pull(list, k, p)]
           f == [m \in MoodsIn(list) |->
                   IF m = n THEN top(v[m])
                   ELSE IF {m, n} \in DOMAIN g THEN v[m] + ValueIncrease * g[{m, n}]
                   ELSE v[m]]
<1>1. (k = 0 <=> n \notin MoodsIn(list)) /\ (k # 0 => k \in 1 .. Len(list) /\ list[k].name = n)
  BY FindIs
<1>2. k # 0 /\ ret' = ret
      /\ list' = [p \in DOMAIN list |-> [list[p] EXCEPT !.value =
                    IF p = k THEN top(@) ELSE @ + Pull(list, k, p)]]
  BY DEF Raise
<1> HIDE DEF k
<1>3. DOMAIN list = 1 .. Len(list) /\ Len(list) \in Nat
      /\ \A p \in 1 .. Len(list) : list[p].value \in Int /\ Pull(list, k, p) \in Int
  BY <1>1, <1>2, GoodIs, PullIs
<1>4. \A x \in Int : top(x) \in Int
  <2>1. ValueIncrease \in Int /\ Unit \in Int /\ MinValue \in Int /\ MaxValue \in Int
    BY DEF MoodAssumption
  <2>2. ValueIncrease * Unit \in Int
    BY <2>1
  <2> QED BY <2>1, <2>2 DEF Limit
<1>5. \A p \in 1 .. Len(list) : list'[p] = Valued(list[p], w[p])
  BY <1>2, <1>3 DEF Valued
<1>6. Len(list') = Len(list)
  <2>1. DOMAIN list' = 1 .. Len(list) /\ list' \in Seq(AnyMood)
    BY <1>2, <1>3 DEF Good
  <2> QED BY <1>3, <2>1
<1> HIDE DEF top, g, v
<1>7. \A p \in 1 .. Len(list) : w[p] \in Int
  <2> TAKE p \in 1 .. Len(list)
  <2>1. list[p].value + Pull(list, k, p) \in Int /\ top(list[p].value) \in Int
    <3>1. list[p].value \in Int /\ Pull(list, k, p) \in Int
      BY <1>3
    <3>2. top(list[p].value) \in Int
      BY <1>4, <3>1
    <3> QED BY <3>1, <3>2
  <2>2. w[p] = top(list[p].value) \/ w[p] = list[p].value + Pull(list, k, p)
    OBVIOUS
  <2> HIDE DEF w
  <2> QED BY <2>1, <2>2
<1>8. \A p \in 1 .. Len(list) : f[list[p].name] = w[p]
  <2> TAKE p \in 1 .. Len(list)
  <2> DEFINE m == list[p].name
  <2>1. m \in MoodsIn(list) /\ v[m] = list[p].value
    BY ValueIs DEF v
  <2>2. m = n <=> p = k
    BY <1>1, <1>2 DEF Good
  <2>3. {m, n} = Ends(list, p, k)
    BY <1>1, <1>2 DEF Ends
  <2>4. Pull(list, k, p) = IF {m, n} \in DOMAIN g THEN ValueIncrease * g[{m, n}] ELSE 0
    <3>1. Pull(list, k, p) = IF Ends(list, p, k) \in DOMAIN g
                             THEN ValueIncrease * g[Ends(list, p, k)] ELSE 0
      <4>1. k \in 1 .. Len(list)
        BY <1>1, <1>2
      <4> QED BY <4>1, PullIs DEF g
    <3> HIDE DEF m
    <3> QED BY <2>3, <3>1
  <2> HIDE DEF m
  <2>5. f[m] = IF m = n THEN top(v[m])
               ELSE IF {m, n} \in DOMAIN g THEN v[m] + ValueIncrease * g[{m, n}]
               ELSE v[m]
    BY <2>1
  <2>6. w[p] = IF p = k THEN top(list[p].value) ELSE list[p].value + Pull(list, k, p)
    OBVIOUS
  <2>7. list[p].value \in Int
    BY <1>3
  <2> HIDE DEF w, f
  <2>8. CASE p = k
    BY <2>1, <2>2, <2>5, <2>6, <2>8 DEF m
  <2>9. CASE p # k /\ {m, n} \in DOMAIN g
    <3>1. f[m] = v[m] + ValueIncrease * g[{m, n}]
      BY <2>2, <2>5, <2>9
    <3>2. w[p] = list[p].value + ValueIncrease * g[{m, n}]
      BY <2>4, <2>6, <2>9
    <3> QED BY <2>1, <3>1, <3>2 DEF m
  <2>10. CASE p # k /\ {m, n} \notin DOMAIN g
    <3>1. f[m] = v[m]
      BY <2>2, <2>5, <2>10
    <3>2. w[p] = list[p].value
      BY <2>4, <2>6, <2>7, <2>10
    <3> QED BY <2>1, <3>1, <3>2 DEF m
  <2> QED BY <2>8, <2>9, <2>10
<1>9. f = [m \in MoodsIn(list) |-> f[m]]
  OBVIOUS
<1>10. MoodsIn(list') = MoodsIn(list) /\ RelIn(list') = RelIn(list) /\ ValueIn(list') = f
  <2> HIDE DEF f, w
  <2> QED BY ZenonT(60), <1>5, <1>6, <1>7, <1>8, <1>9, ValuesSet
<1> QED BY <1>1, <1>2, <1>10 DEF Relation!Raise, Relation!Limit, Limit, top, g, v

LEMMA InitMatches ==
  ASSUME GraphInv, Init
  PROVE  Relation!Init
<1> DEFINE m == [name |-> Base, id |-> 0, edges |-> <<>>, value |-> BaseValue]
           r == [pair \in {} |-> 0]
           v == [n \in {Base} |-> BaseValue]
<1>1. list = <<m>> /\ m.name = Base /\ m.edges = <<>> /\ m.value = BaseValue
  BY DEF Init
<1> HIDE DEF m
<1>2. DOMAIN list = {1} /\ 1 .. Len(list) = {1} /\ list[1] = m /\ Good(list)
  BY <1>1, GoodList
<1>3. MoodsIn(list) = {Base}
  BY <1>1, <1>2 DEF MoodsIn
<1>4. RelIn(list) = r
  <2>1. \A s : ~Tie(list, 1, 1, s)
    BY <1>1, <1>2 DEF Tie, ToSet
  <2>2. IsRelOf(r, list) /\ r = [pair \in DOMAIN r |-> r[pair]]
    BY <1>2, <2>1 DEF IsRelOf
  <2> QED BY <1>2, <2>2, RelIsOnly
<1>5. ValueIn(list) = v
  <2>1. v = [n \in MoodsIn(list) |-> v[n]] /\ \A p \in 1 .. Len(list) : v[list[p].name] = list[p].value
    BY <1>1, <1>2, <1>3
  <2> QED BY ZenonT(60), <1>2, <2>1, ValueIsOnly
<1> QED BY <1>3, <1>4, <1>5 DEF Init, Relation!Init

LEMMA StepMatches ==
  ASSUME MoodAssumption, GraphInv, GraphInv', [Next]_vars
  PROVE  [Relation!Next]_(Relation!state)
<1>1. Good(list) /\ Good(list')
  BY GoodList
<1>2. ASSUME NEW n \in Names, Create(n) \/ Destroy(n) \/ Raise(n)
      PROVE  Relation!Next
  BY <1>1, <1>2, CreateMatches, DestroyMatches, RaiseMatches DEF Relation!Next
<1>3. ASSUME NEW p \in Pairs, Unbind(p[1], p[2]) \/ \E r \in Rels : Bind(p[1], p[2], r)
      PROVE  Relation!Next
  <2>1. p[1] # p[2]
    BY DEF MoodAssumption
  <2> QED BY <1>1, <1>3, <2>1, UnbindMatches, BindMatches DEF Relation!Next
<1>4. ASSUME NEW n \in Names, NEW v \in Values, SetProperty(n, v)
      PROVE  Relation!Next
  BY <1>1, <1>4, SetPropertyMatches DEF Relation!Next
<1>5. CASE UNCHANGED vars
  BY <1>5 DEF vars, Relation!state
<1> QED BY <1>2, <1>3, <1>4, <1>5 DEF Next

\* What callers of wp_mood_sys.c see is the symmetric relation on names: no id, no edge and
\* no renumbering shows through, for every set of names and every sequence of calls.
THEOREM RelationCorrect == Spec /\ []FewMoods => ImplementsMoodRelation
<1>1. MoodAssumption
  BY MoodAssumption
<1>2. Spec /\ []FewMoods => []GraphInv
  BY GraphInvariant DEF GraphInv
<1>3. GraphInv /\ Init => Relation!Init
  BY InitMatches
<1>4. GraphInv /\ GraphInv' /\ [Next]_vars => [Relation!Next]_(Relation!state)
  BY <1>1, StepMatches
<1>5. Spec => Init /\ [][Next]_vars
  BY DEF Spec
<1>6. Relation!Init /\ [][Relation!Next]_(Relation!state) => ImplementsMoodRelation
  BY DEF ImplementsMoodRelation, Relation!Spec
<1> QED BY <1>2, <1>3, <1>4, <1>5, <1>6, PTL
-----------------------------------------------------------------------------
(* Recursive functions of a number: what they are, and induction over them *)

LEMMA Induction ==
  ASSUME NEW n \in Nat, NEW T, 0 \in T, \A i \in 1 .. n : i - 1 \in T => i \in T
  PROVE  0 .. n \subseteq T
<1> DEFINE Out == {i \in 0 .. n : i \notin T}
<1>1. SUFFICES ASSUME Out # {} PROVE FALSE
  OBVIOUS
<1>2. Out \subseteq Nat
  OBVIOUS
<1>3. PICK m \in Out : \A u \in Out : ~(<<u, m>> \in OpToRel(<, Nat))
  BY <1>1, <1>2, WFMin, NatLessThanWellFounded
<1>4. m # 0 /\ m \in 1 .. n /\ m \notin T /\ m - 1 \in Nat /\ m - 1 < m
  OBVIOUS
<1>5. m - 1 \in T
  <2>1. SUFFICES ASSUME m - 1 \in Out PROVE FALSE
    BY <1>4
  <2>2. <<m - 1, m>> \in OpToRel(<, Nat)
    BY <1>2, <1>4 DEF OpToRel
  <2> QED BY <1>3, <2>1, <2>2
<1> QED BY <1>4, <1>5

\* The function f starts with base and goes on by the steps op.
GoesOn(f, n, base, op) == f[0] = base /\ \A i \in 1 .. n : f[i] = op[i][f[i - 1]]

LEMMA Recursion ==
  ASSUME NEW n \in Nat, NEW S, NEW base \in S, NEW op \in [1 .. n -> [S -> S]]
  PROVE  \E f \in [0 .. n -> S] : GoesOn(f, n, base, op)
<1> DEFINE Upto(k) == \E f \in [0 .. k -> S] : f[0] = base /\ \A i \in 1 .. k : f[i] = op[i][f[i - 1]]
           T == {k \in 0 .. n : Upto(k)}
<1>1. 0 \in T
  <2>1. PICK f \in [0 .. 0 -> S] : f = [i \in 0 .. 0 |-> base]
    OBVIOUS
  <2>2. f[0] = base /\ 0 \in 0 .. n /\ 1 .. 0 = {}
    BY <2>1
  <2> QED BY <2>2
<1>2. ASSUME NEW k \in 1 .. n, k - 1 \in T
      PROVE  k \in T
  <2>1. PICK f \in [0 .. k - 1 -> S] : f[0] = base /\ \A i \in 1 .. k - 1 : f[i] = op[i][f[i - 1]]
    BY <1>2
  <2> DEFINE g == [i \in 0 .. k |-> IF i = k THEN op[k][f[k - 1]] ELSE f[i]]
  <2>2. g \in [0 .. k -> S]
    <3>1. op[k] \in [S -> S] /\ f[k - 1] \in S
      OBVIOUS
    <3>2. op[k][f[k - 1]] \in S
      BY <3>1
    <3>3. ASSUME NEW i \in 0 .. k PROVE g[i] \in S
      BY <3>2
    <3> QED BY <3>3
  <2>3. g[0] = base
    BY <2>1
  <2>4. ASSUME NEW i \in 1 .. k PROVE g[i] = op[i][g[i - 1]]
    <3>1. CASE i = k
      BY <3>1
    <3>2. CASE i # k
      <4>1. i \in 1 .. k - 1 /\ g[i] = f[i] /\ g[i - 1] = f[i - 1]
        BY <3>2
      <4> QED BY <2>1, <4>1
    <3> QED BY <3>1, <3>2
  <2> HIDE DEF g
  <2>5. Upto(k)
    BY <2>2, <2>3, <2>4
  <2> HIDE DEF Upto
  <2> QED BY <2>5
<1> HIDE DEF T
<1>3. 0 .. n \subseteq T
  BY <1>1, <1>2, Induction
<1> QED BY <1>3 DEF T, GoesOn

-----------------------------------------------------------------------------
(* The frames of a mood                                                    *)

\* A turn of the loop changes the bit of its own group and no count but that of group 0.
LEMMA LookKeeps ==
  ASSUME FrameAssumption, FrameInv, NEW f \in File, Look(f)
  PROVE  FrameInv'
<1>1. /\ turn \in Nat /\ DOMAIN looked = 0 .. turn - 1
      /\ counts = [g \in Groups |-> counts[g]]
      /\ \A g \in 0 .. GroupBits - 1 : g < turn =>
           /\ g \in present <=> looked[g].kind # Missing
           /\ g \in Groups \ {0} /\ looked[g].kind = "count" => counts[g] = Frames(looked[g].number)
  BY DEF FrameInv, GroupsAsFound
<1>2. /\ turn' = turn + 1 /\ DOMAIN looked' = 0 .. turn /\ looked'[turn] = f
      /\ \A g \in 0 .. turn - 1 : looked'[g] = looked[g]
  BY <1>1 DEF Look
<1>3. GroupBits \in Nat /\ MaxMoodGroup \in Nat /\ MaxMoodGroup <= GroupBits
  BY DEF FrameAssumption
<1>4. ASSUME NEW v \in {0, 1}, SetBit(turn, v)
      PROVE  /\ counts' = [g \in Groups |-> counts'[g]]
             /\ \A g \in Groups \ {0} : counts'[g] = counts[g]
             /\ \A g \in 0 .. GroupBits - 1 : g # turn => (g \in present' <=> g \in present)
             /\ turn < GroupBits => (turn \in present' <=> v = 1)
  <2>1. CASE turn < GroupBits
    BY <1>1, <1>4, <2>1 DEF SetBit
  <2>2. CASE ~(turn < GroupBits)
    <3>1. UNCHANGED present /\ counts' = [counts EXCEPT ![0] = WithBit(@, turn - GroupBits, v)]
      BY <1>4, <2>2 DEF SetBit
    <3> QED BY <1>1, <2>2, <3>1
  <2> QED BY <2>1, <2>2
<1>5. /\ counts' = [g \in Groups |-> counts'[g]]
      /\ \A g \in Groups \ {0} : g # turn => counts'[g] = counts[g]
      /\ \A g \in 0 .. GroupBits - 1 : g # turn => (g \in present' <=> g \in present)
      /\ turn < GroupBits => (turn \in present' <=> f.kind # Missing)
      /\ turn \in Groups /\ f.kind = "count" => counts'[turn] = Frames(f.number)
  <2>1. CASE f.kind = Missing
    BY <1>4, <2>1 DEF Look, Missing
  <2>2. CASE f.kind # Missing /\ f.kind = "count" /\ turn \in Groups
    <3>1. counts' = [counts EXCEPT ![turn] = Frames(f.number)] /\ present' = present \cup {turn}
      BY <2>2 DEF Look, Opened
    <3> QED BY <1>1, <2>2, <3>1
  <2>3. CASE f.kind # Missing /\ ~(f.kind = "count" /\ turn \in Groups)
    <3>1. SetBit(turn, 1)
      BY <2>3 DEF Look, Opened
    <3> QED BY <1>4, <2>3, <3>1
  <2> QED BY <2>1, <2>2, <2>3
<1>6. GroupsAsFound'
  <2> SUFFICES ASSUME NEW g \in 0 .. GroupBits - 1, g < turn'
               PROVE  /\ g \in present' <=> looked'[g].kind # Missing
                      /\ g \in Groups \ {0} /\ looked'[g].kind = "count"
                           => counts'[g] = Frames(looked'[g].number)
    BY DEF GroupsAsFound
  <2>1. CASE g = turn
    BY <1>2, <1>3, <1>5, <2>1
  <2>2. CASE g # turn
    <3>1. g \in 0 .. turn - 1 /\ g < turn
      BY <1>1, <1>2, <2>2
    <3> QED BY <1>1, <1>2, <1>5, <2>2, <3>1
  <2> QED BY <2>1, <2>2
<1> QED BY <1>1, <1>2, <1>5, <1>6 DEF FrameInv

\* Every group's bit and count are what its file says, for any number of groups, turns and
\* bits, whatever malloc left and whatever the files hold (mood_get_frame_config).
THEOREM GroupsCorrect == FrameSpec => []GroupsAsFound
<1>1. FrameInit => FrameInv
  BY DEF FrameInit, FrameInv, GroupsAsFound
<1>2. FrameInv /\ [FrameNext]_frameVars => FrameInv'
  <2>1. ASSUME FrameInv, NEW f \in File, Look(f)
        PROVE  FrameInv'
    BY <2>1, FrameAssumption, LookKeeps
  <2>2. FrameInv /\ UNCHANGED frameVars => FrameInv'
    BY DEF frameVars, FrameInv, GroupsAsFound
  <2> QED BY <2>1, <2>2 DEF FrameNext
<1>3. FrameInv => GroupsAsFound
  BY DEF FrameInv
<1> QED BY <1>1, <1>2, <1>3, PTL DEF FrameSpec

\* 1 << b is twice 1 << b - 1.
LEMMA ShiftIs ==
  /\ Shift \in [0 .. GroupBits -> Nat \ {0}] /\ Shift[0] = 1
  /\ \A b \in 1 .. GroupBits : Shift[b] = 2 * Shift[b - 1]
<1> DEFINE Twice(f) == [b \in 0 .. GroupBits |-> IF b = 0 THEN 1 ELSE 2 * f[b - 1]]
<1>1. Shift = CHOOSE f : f = Twice(f)
  BY DEF Shift
<1>2. \E f \in [0 .. GroupBits -> Nat \ {0}] : f = Twice(f)
  <2>1. PICK op \in [1 .. GroupBits -> [Nat \ {0} -> Nat \ {0}]] :
               \A b \in 1 .. GroupBits, n \in Nat \ {0} : op[b][n] = 2 * n
    <3> DEFINE t == [b \in 1 .. GroupBits |-> [n \in Nat \ {0} |-> 2 * n]]
    <3>1. t \in [1 .. GroupBits -> [Nat \ {0} -> Nat \ {0}]]
      OBVIOUS
    <3>2. \A b \in 1 .. GroupBits, n \in Nat \ {0} : t[b][n] = 2 * n
      OBVIOUS
    <3> HIDE DEF t
    <3> QED BY <3>1, <3>2, Zenon
  <2>2. GroupBits \in Nat /\ 1 \in Nat \ {0}
    BY FrameAssumption DEF FrameAssumption
  <2>3. PICK f \in [0 .. GroupBits -> Nat \ {0}] : GoesOn(f, GroupBits, 1, op)
    BY <2>1, <2>2, Recursion, Zenon
  <2>4. ASSUME NEW b \in 0 .. GroupBits PROVE f[b] = IF b = 0 THEN 1 ELSE 2 * f[b - 1]
    <3>1. CASE b = 0
      BY <2>3, <3>1 DEF GoesOn
    <3>2. CASE b # 0
      <4>1. b \in 1 .. GroupBits /\ b - 1 \in 0 .. GroupBits
        BY <2>2, <3>2
      <4>2. f[b - 1] \in Nat \ {0}
        BY <4>1, Zenon
      <4>3. f[b] = op[b][f[b - 1]]
        BY <2>3, <4>1, Zenon DEF GoesOn
      <4>4. op[b][f[b - 1]] = 2 * f[b - 1]
        BY <2>1, <4>1, <4>2, Zenon
      <4> QED BY <3>2, <4>3, <4>4, Zenon
    <3> QED BY <3>1, <3>2
  <2>5. f = [b \in 0 .. GroupBits |-> f[b]]
    BY <2>3, Zenon
  <2> QED BY <2>3, <2>4, <2>5, Zenon
<1>3. Shift = Twice(Shift)
  <2> HIDE DEF Twice
  <2> QED BY <1>1, <1>2, Zenon
<1>4. GroupBits \in Nat
  BY FrameAssumption DEF FrameAssumption
<1>5. Shift[0] = 1 /\ \A b \in 1 .. GroupBits : Shift[b] = 2 * Shift[b - 1]
  BY <1>3, <1>4
<1> DEFINE T == {b \in 0 .. GroupBits : Shift[b] \in Nat \ {0}}
<1>6. 0 .. GroupBits \subseteq T
  <2>1. 0 \in T
    BY <1>4, <1>5
  <2>2. \A b \in 1 .. GroupBits : b - 1 \in T => b \in T
    BY <1>4, <1>5
  <2> HIDE DEF T
  <2> QED BY <1>4, <2>1, <2>2, Induction
<1>7. \A b \in 0 .. GroupBits : Shift[b] \in Nat \ {0}
  BY <1>6
<1>8. Shift = [b \in 0 .. GroupBits |-> Shift[b]]
  BY <1>3
<1> QED BY <1>5, <1>7, <1>8

\* A bit of a byte has another above it, or is the last.
LEMMA ByteHolds ==
  ASSUME NEW b \in 0 .. GroupBits - 1
  PROVE  \E e \in Nat \ {0} : Shift[GroupBits] = 2 * e * Shift[b]
<1>1. GroupBits \in Nat \ {0}
  BY FrameAssumption DEF FrameAssumption
<1> DEFINE T == {i \in 0 .. GroupBits - 1 :
                   \E e \in Nat \ {0} : Shift[GroupBits] = 2 * e * Shift[GroupBits - 1 - i]}
<1>2. 0 \in T
  <2>1. Shift[GroupBits] = 2 * 1 * Shift[GroupBits - 1 - 0]
    BY <1>1, ShiftIs
  <2>2. \E e \in Nat \ {0} : Shift[GroupBits] = 2 * e * Shift[GroupBits - 1 - 0]
    BY <2>1
  <2> QED BY <1>1, <2>2
<1>3. ASSUME NEW i \in 1 .. GroupBits - 1, i - 1 \in T
      PROVE  i \in T
  <2>1. PICK e \in Nat \ {0} : Shift[GroupBits] = 2 * e * Shift[GroupBits - 1 - (i - 1)]
    BY <1>3
  <2>2. GroupBits - 1 - (i - 1) \in 1 .. GroupBits /\ (GroupBits - 1 - (i - 1)) - 1 = GroupBits - 1 - i
    BY <1>1
  <2>3. Shift[GroupBits - 1 - (i - 1)] = 2 * Shift[GroupBits - 1 - i]
    BY <2>2, ShiftIs
  <2>4. GroupBits - 1 - i \in 0 .. GroupBits /\ i \in 0 .. GroupBits - 1
    BY <1>1
  <2>5. Shift[GroupBits - 1 - i] \in Nat
    BY <2>4, ShiftIs
  <2>6. Shift[GroupBits] = 2 * (2 * e) * Shift[GroupBits - 1 - i] /\ 2 * e \in Nat \ {0}
    BY <2>1, <2>3, <2>5
  <2>7. \E d \in Nat \ {0} : Shift[GroupBits] = 2 * d * Shift[GroupBits - 1 - i]
    BY <2>6
  <2> QED BY <2>4, <2>7
<1>4. 0 .. GroupBits - 1 \subseteq T
  <2> HIDE DEF T
  <2> QED BY <1>1, <1>2, <1>3, Induction
<1>5. (GroupBits - 1 - b) \in T /\ GroupBits - 1 - (GroupBits - 1 - b) = b
  BY <1>1, <1>4
<1> QED BY <1>5

\* A byte with another bit is a byte.
LEMMA BitFits ==
  ASSUME NEW n \in UInt8, NEW b \in 0 .. GroupBits - 1, NEW v \in {0, 1}
  PROVE  WithBit(n, b, v) \in UInt8
<1>1. PICK e \in Nat \ {0} : Shift[GroupBits] = 2 * e * Shift[b]
  BY ByteHolds
<1>2. PICK p \in Nat \ {0} : p = Shift[b]
  <2>1. b \in 0 .. GroupBits
    BY FrameAssumption DEF FrameAssumption
  <2> QED BY <2>1, ShiftIs
<1>3. n \in 0 .. 2 * e * p - 1
  BY <1>1, <1>2 DEF UInt8
<1> DEFINE q == n \div p
           r == n % p
           bit == q % 2
           h == q \div 2
<1>4. q \in Int /\ r \in 0 .. p - 1 /\ n = p * q + r
  BY <1>3, SMT
<1> HIDE DEF q, r
<1>5. q \in 0 .. 2 * e - 1
  <2>1. q >= 0
    <3>1. q < 0 => p * q <= -p
      BY <1>4, SMT
    <3> QED BY <1>3, <1>4, <3>1, SMT
  <2>2. q <= 2 * e - 1
    <3>1. q > 2 * e - 1 => p * q >= 2 * e * p
      BY <1>4, SMT
    <3> QED BY <1>3, <1>4, <3>1, SMT
  <2> QED BY <1>4, <2>1, <2>2
<1>6. bit \in {0, 1} /\ h \in Int /\ q = 2 * h + bit
  BY <1>4, SMT
<1>7. PICK w \in 0 .. 2 * e - 1 : w = q + (v - bit)
  <2> HIDE DEF bit, h
  <2> QED BY <1>5, <1>6, SMT
<1>8. WithBit(n, b, v) = n + (v - bit) * p
  BY <1>2 DEF WithBit, q
<1>9. n + (v - bit) * p = p * w + r
  <2> HIDE DEF bit
  <2> QED BY <1>4, <1>6, <1>7, SMT
<1>10. p * w + r \in 0 .. 2 * e * p - 1
  <2>1. p * w <= p * (2 * e - 1)
    BY <1>7, SMT
  <2>2. p * w >= 0
    BY <1>7, SMT
  <2>3. p * (2 * e - 1) = 2 * e * p - p
    BY SMT
  <2> QED BY <1>4, <1>7, <2>1, <2>2, <2>3, SMT
<1> QED BY <1>1, <1>2, <1>8, <1>9, <1>10 DEF UInt8

\* A number of frames is a byte, too.
LEMMA FramesFit ==
  ASSUME NEW n \in Int
  PROVE  Frames(n) \in UInt8
<1>1. PICK s \in Nat \ {0} : s = Shift[GroupBits]
  <2>1. GroupBits \in 0 .. GroupBits
    BY FrameAssumption DEF FrameAssumption
  <2> QED BY <2>1, ShiftIs
<1>2. n % s \in 0 .. s - 1
  BY <1>1, SMT
<1>3. MaxFrameNum \in Nat
  BY FrameAssumption DEF FrameAssumption
<1>4. Frames(n) = IF n % s >= MaxFrameNum THEN MaxFrameNum ELSE n % s
  BY <1>1 DEF Frames
<1> QED BY <1>1, <1>2, <1>3, <1>4 DEF UInt8

LEMMA LookFits ==
  ASSUME FrameTypeOK, NEW f \in File, Look(f)
  PROVE  FrameTypeOK'
<1>1. /\ GroupBits \in Nat \ {0} /\ MaxMoodGroup \in Nat \ {0} /\ MaxFrameNum \in Nat
      /\ MaxMoodGroup <= GroupBits /\ MaxFrameNum <= 2 * GroupBits /\ Numbers \subseteq Int
  BY FrameAssumption DEF FrameAssumption
<1>2. /\ turn \in 0 .. MaxFrameNum - 1 /\ looked \in [0 .. turn - 1 -> File]
      /\ present \subseteq 0 .. GroupBits - 1 /\ counts \in [Groups -> UInt8]
  BY <1>1 DEF FrameTypeOK, Look
<1>3. turn' \in 0 .. MaxFrameNum /\ looked' \in [0 .. turn' - 1 -> File]
  <2>1. turn' = turn + 1 /\ turn' - 1 = turn
    BY <1>1, <1>2 DEF Look
  <2>2. looked' = [g \in 0 .. turn |-> IF g = turn THEN f ELSE looked[g]]
    BY DEF Look
  <2>3. ASSUME NEW g \in 0 .. turn PROVE (IF g = turn THEN f ELSE looked[g]) \in File
    <3>1. g # turn => g \in 0 .. turn - 1
      BY <1>2
    <3> QED BY <1>2, <3>1
  <2>4. looked' \in [0 .. turn -> File]
    BY <2>2, <2>3
  <2> QED BY <1>1, <1>2, <2>1, <2>4
<1>4. ASSUME NEW v \in {0, 1}, SetBit(turn, v)
      PROVE  present' \subseteq 0 .. GroupBits - 1 /\ counts' \in [Groups -> UInt8]
  <2>1. CASE turn < GroupBits
    <3>1. counts' = counts /\ present' \in {present \cup {turn}, present \ {turn}}
      BY <1>4, <2>1, Zenon DEF SetBit
    <3>2. turn \in 0 .. GroupBits - 1
      BY <1>1, <1>2, <2>1
    <3> QED BY <1>2, <3>1, <3>2
  <2>2. CASE ~(turn < GroupBits)
    <3>1. UNCHANGED present /\ counts' = [counts EXCEPT ![0] = WithBit(counts[0], turn - GroupBits, v)]
      BY <1>4, <2>2 DEF SetBit
    <3>2. turn - GroupBits \in 0 .. GroupBits - 1 /\ counts[0] \in UInt8
      BY <1>1, <1>2, <2>2 DEF Groups
    <3>3. WithBit(counts[0], turn - GroupBits, v) \in UInt8
      BY <3>2, BitFits
    <3> QED BY <1>2, <3>1, <3>3
  <2> QED BY <2>1, <2>2
<1>5. CASE f.kind = Missing
  BY <1>3, <1>4, <1>5 DEF Look, FrameTypeOK
<1>6. CASE f.kind # Missing /\ f.kind = "count" /\ turn \in Groups
  <2>1. f.number \in Int
    <3>1. f \in [kind : {"count"}, number : Numbers]
      <4>1. ASSUME f \in [kind : {Missing, NoCount}] PROVE FALSE
        BY <1>6, <4>1 DEF Missing, NoCount
      <4> QED BY <4>1 DEF File
    <3>2. f.number \in Numbers
      BY <3>1
    <3> QED BY <1>1, <3>2
  <2>2. Frames(f.number) \in UInt8
    BY <2>1, FramesFit
  <2>3. counts' = [counts EXCEPT ![turn] = Frames(f.number)] /\ present' = present \cup {turn}
    BY <1>6 DEF Look, Opened
  <2>4. turn \in 0 .. GroupBits - 1
    BY <1>1, <1>2, <1>6 DEF Groups
  <2> QED BY <1>2, <1>3, <2>2, <2>3, <2>4 DEF FrameTypeOK
<1>7. CASE f.kind # Missing /\ ~(f.kind = "count" /\ turn \in Groups)
  <2>1. SetBit(turn, 1)
    BY <1>7 DEF Look, Opened
  <2> QED BY <1>3, <1>4, <2>1 DEF FrameTypeOK
<1> QED BY <1>5, <1>6, <1>7

\* FrameTypeOK: group stays a byte with eight bits and each count a byte, the one that the bits
\* behind the group byte are written to among them (mood_get_frame_config, wp_set_bit).
THEOREM FrameTypeCorrect == FrameSpec => []FrameTypeOK
<1>1. FrameInit => FrameTypeOK
  <2> SUFFICES ASSUME FrameInit PROVE FrameTypeOK
    OBVIOUS
  <2>1. GroupBits \in Nat \ {0} /\ MaxFrameNum \in Nat /\ Left \subseteq UInt8
    BY FrameAssumption DEF FrameAssumption
  <2>2. turn = 0 /\ looked = << >> /\ present \subseteq 0 .. GroupBits - 1
        /\ counts \in [Groups -> UInt8]
    BY <2>1 DEF FrameInit
  <2>3. looked \in [0 .. turn - 1 -> File]
    BY <2>2
  <2> QED BY <2>1, <2>2, <2>3 DEF FrameTypeOK
<1>2. FrameTypeOK /\ [FrameNext]_frameVars => FrameTypeOK'
  <2>1. ASSUME FrameTypeOK, NEW f \in File, Look(f)
        PROVE  FrameTypeOK'
    BY <2>1, LookFits
  <2>2. FrameTypeOK /\ UNCHANGED frameVars => FrameTypeOK'
    BY DEF frameVars, FrameTypeOK
  <2> QED BY <2>1, <2>2 DEF FrameNext
<1> QED BY <1>1, <1>2, PTL DEF FrameSpec

-----------------------------------------------------------------------------
(* The search in a file, the first number of a text, the largest face      *)

LEMMA Appended ==
  ASSUME NEW S, NEW s \in Seq(S), NEW x \in S
  PROVE  /\ Append(s, x) \in Seq(S) /\ Len(Append(s, x)) = Len(s) + 1 /\ Len(s) \in Nat
         /\ \A i \in 1 .. Len(s) : Append(s, x)[i] = s[i]
         /\ Append(s, x)[Len(s) + 1] = x
         /\ ToSet(Append(s, x)) = ToSet(s) \cup {x}
<1> DEFINE t == Append(s, x)
<1>1. /\ t \in Seq(S) /\ Len(t) = Len(s) + 1 /\ Len(s) \in Nat
      /\ (\A i \in 1 .. Len(s) : t[i] = s[i]) /\ t[Len(s) + 1] = x
      /\ DOMAIN s = 1 .. Len(s) /\ DOMAIN t = 1 .. Len(s) + 1
  OBVIOUS
<1> HIDE DEF t
<1>2. \A i \in 1 .. Len(s) + 1 : i \in 1 .. Len(s) \/ i = Len(s) + 1
  BY <1>1
<1>3. ToSet(t) = ToSet(s) \cup {x}
  BY <1>1, <1>2 DEF ToSet
<1> QED BY <1>1, <1>3 DEF t

LEMMA SearchKeeps ==
  ASSUME SearchAssumption, SearchInv, SearchNext
  PROVE  SearchInv'
<1>1. /\ BlockSize \in Nat \ {0} /\ TargetLen \in Nat \ {0} /\ TargetLen < BlockSize
      /\ size \in Nat /\ pointer \in Nat /\ places \subseteq Nat /\ buf \in Seq(places)
      /\ \A p \in places : p + TargetLen <= size
      /\ \A p, q \in places : p < q => q - p > BlockSize
  BY DEF SearchAssumption, SearchInv, Spaced
<1>2. CASE SearchEnds
  <2>1. /\ searching /\ pointer + BlockSize > size /\ pointer' = size /\ searching' = FALSE
        /\ UNCHANGED <<size, places, buf>>
    BY <1>2 DEF SearchEnds, AtEnd
  <2>2. \A p \in places : p + TargetLen + BlockSize <= size => p < pointer
    BY <1>1, <2>1
  <2>3. FoundBeforeTheEnd' /\ FoundInOrder'
    BY <2>1, <2>2 DEF SearchInv, FoundBeforeTheEnd, FoundInOrder
  <2> QED BY <1>1, <2>1, <2>3 DEF SearchInv, Spaced
<1>3. CASE SearchFinds
  <2> DEFINE x == FirstOf(Block)
  <2>1. /\ searching /\ Block # {} /\ buf' = Append(buf, PlaceOf(x))
        /\ pointer' = pointer + BlockSize /\ UNCHANGED <<size, places, searching>>
    BY <1>3 DEF SearchFinds
  <2>2. Block \in SUBSET Nat
    BY <1>1 DEF Block
  <2>3. x \in Block
    BY <2>1, <2>2, MinIn DEF FirstOf
  <2> HIDE DEF x
  <2>4. x \in places /\ x \in Nat /\ x >= pointer /\ x + TargetLen <= pointer + BlockSize
    BY <1>1, <2>3 DEF Block
  <2>5. PlaceOf(x) = x
    BY <1>1, <2>4 DEF PlaceOf
  <2>6. /\ buf' \in Seq(places) /\ Len(buf') = Len(buf) + 1 /\ Len(buf) \in Nat
        /\ \A i \in 1 .. Len(buf) : buf'[i] = buf[i]
        /\ buf'[Len(buf) + 1] = x /\ ToSet(buf') = ToSet(buf) \cup {x}
    BY <1>1, <2>1, <2>4, <2>5, Appended
  <2>7. \A p \in places : p < pointer <=> p \in ToSet(buf)
    BY <2>1 DEF SearchInv
  <2>8. \A p \in places : p < pointer' <=> p \in ToSet(buf')
    <3> TAKE p \in places
    <3>1. p < pointer' <=> p < pointer \/ (pointer <= p /\ p < pointer + BlockSize)
      BY <1>1, <2>1
    <3>2. pointer <= p /\ p < pointer + BlockSize <=> p = x
      BY <1>1, <2>4
    <3> QED BY <2>6, <2>7, <3>1, <3>2
  <2>9. FoundInOrder'
    <3>1. ToSet(buf) \subseteq places /\ \A i \in 1 .. Len(buf) - 1 : buf[i] < buf[i + 1]
      BY DEF SearchInv, FoundInOrder
    <3>2. \A i \in 1 .. Len(buf) : buf[i] < x
      <4> TAKE i \in 1 .. Len(buf)
      <4>1. buf[i] \in ToSet(buf) /\ buf[i] \in places
        BY <1>1 DEF ToSet
      <4>2. buf[i] \in Nat /\ buf[i] < pointer
        BY <1>1, <2>7, <4>1
      <4> QED BY <1>1, <2>4, <4>2
    <3>3. \A i \in 1 .. Len(buf') - 1 : buf'[i] < buf'[i + 1]
      <4> TAKE i \in 1 .. Len(buf') - 1
      <4>1. CASE i = Len(buf)
        BY <2>6, <3>2, <4>1
      <4>2. CASE i # Len(buf)
        <5>1. i \in 1 .. Len(buf) - 1 /\ i \in 1 .. Len(buf) /\ i + 1 \in 1 .. Len(buf)
          BY <2>6, <4>2
        <5> QED BY <2>6, <3>1, <5>1
      <4> QED BY <4>1, <4>2
    <3> QED BY <2>1, <2>4, <2>6, <3>1, <3>3 DEF FoundInOrder
  <2>10. FoundBeforeTheEnd'
    BY <2>1 DEF FoundBeforeTheEnd
  <2>11. pointer' \in Nat
    BY <1>1, <2>1
  <2> QED BY <1>1, <2>1, <2>6, <2>8, <2>9, <2>10, <2>11 DEF SearchInv, Spaced
<1>4. CASE SearchGoesBack
  <2>1. /\ searching /\ Block = {} /\ pointer' = pointer + BlockSize - TargetLen
        /\ UNCHANGED <<size, places, buf, searching>>
    BY <1>4 DEF SearchGoesBack, Back
  <2>2. pointer' \in Nat /\ pointer' >= pointer
    BY <1>1, <2>1
  <2>3. \A p \in places : p < pointer' <=> p < pointer
    <3> TAKE p \in places
    <3>1. ~(p >= pointer /\ p + TargetLen <= pointer + BlockSize)
      BY <2>1 DEF Block
    <3> QED BY <1>1, <2>1, <2>2, <3>1
  <2>4. FoundBeforeTheEnd' /\ FoundInOrder'
    BY <2>1 DEF SearchInv, FoundBeforeTheEnd, FoundInOrder
  <2> QED BY <1>1, <2>1, <2>2, <2>3, <2>4 DEF SearchInv, Spaced
<1> QED BY <1>2, <1>3, <1>4 DEF SearchNext

\* file_search_data notes the places of the target in order and none twice, and misses none
\* that ends a block before the end of the file: for every block, target and file whose
\* targets are a block apart.
THEOREM SearchCorrect == SearchSpec => [](FoundInOrder /\ FoundBeforeTheEnd)
<1>1. SearchInit => SearchInv
  <2> SUFFICES ASSUME SearchInit
               PROVE  SearchInv
    OBVIOUS
  <2>1. /\ size \in Nat /\ places \subseteq {p \in Nat : p + TargetLen <= size} /\ Spaced(places)
        /\ pointer = 0 /\ buf = <<>> /\ searching = TRUE
    BY DEF SearchInit
  <2>2. ToSet(buf) = {} /\ Len(buf) = 0 /\ buf \in Seq(places)
    BY <2>1 DEF ToSet
  <2>3. \A p \in places : ~(p < 0)
    BY <2>1
  <2> QED BY <2>1, <2>2, <2>3 DEF SearchInv, FoundInOrder, FoundBeforeTheEnd
<1>2. SearchInv /\ [SearchNext]_searchVars => SearchInv'
  <2>1. SearchInv /\ UNCHANGED searchVars => SearchInv'
    BY DEF searchVars, SearchInv, Spaced, FoundInOrder, FoundBeforeTheEnd
  <2> QED BY <2>1, SearchAssumption, SearchKeeps
<1>3. SearchInv => FoundInOrder /\ FoundBeforeTheEnd
  BY DEF SearchInv
<1> QED BY <1>1, <1>2, <1>3, PTL DEF SearchSpec

\* A function on the first numbers is a sequence.
LEMMA TupleIsSequence ==
  ASSUME NEW S, NEW k \in Nat, NEW s \in [1 .. k -> S]
  PROVE  s \in Seq(S) /\ Len(s) = k /\ DOMAIN s = 1 .. k
  OBVIOUS

\* The value of a run of digits, digit by digit.
LEMMA ValueOf ==
  ASSUME NEW s \in Seq(Int), NEW i \in 1 .. Len(s)
  PROVE  /\ Value(s, i, i - 1) = 0
         /\ \A j \in i .. Len(s) : Value(s, i, j) = 10 * Value(s, i, j - 1) + s[j]
<1> DEFINE Of(f) == [k \in 0 .. Len(s) |-> IF k < i THEN 0 ELSE 10 * f[k - 1] + s[k]]
           value == CHOOSE f : f = Of(f)
<1>1. \A j : Value(s, i, j) = value[j]
  BY DEF Value
<1>2. Len(s) \in Nat /\ 0 \in Int /\ \A k \in 1 .. Len(s) : s[k] \in Int
  OBVIOUS
<1>3. \E f : f = Of(f)
  <2>1. PICK op \in [1 .. Len(s) -> [Int -> Int]] :
               \A k \in 1 .. Len(s), n \in Int : op[k][n] = IF k < i THEN 0 ELSE 10 * n + s[k]
    <3> DEFINE t == [k \in 1 .. Len(s) |-> [n \in Int |-> IF k < i THEN 0 ELSE 10 * n + s[k]]]
    <3>1. t \in [1 .. Len(s) -> [Int -> Int]]
      BY <1>2
    <3>2. \A k \in 1 .. Len(s), n \in Int : t[k][n] = IF k < i THEN 0 ELSE 10 * n + s[k]
      OBVIOUS
    <3> HIDE DEF t
    <3> QED BY <3>1, <3>2, Zenon
  <2>2. PICK f \in [0 .. Len(s) -> Int] : GoesOn(f, Len(s), 0, op)
    BY <1>2, <2>1, Recursion, Zenon
  <2>3. ASSUME NEW k \in 0 .. Len(s) PROVE f[k] = IF k < i THEN 0 ELSE 10 * f[k - 1] + s[k]
    <3>1. CASE k = 0
      BY <2>2, <3>1 DEF GoesOn
    <3>2. CASE k # 0
      <4>1. k \in 1 .. Len(s) /\ k - 1 \in 0 .. Len(s)
        BY <1>2, <3>2
      <4>2. f[k - 1] \in Int
        BY <4>1, Zenon
      <4>3. f[k] = op[k][f[k - 1]]
        BY <2>2, <4>1, Zenon DEF GoesOn
      <4> QED BY <2>1, <4>1, <4>2, <4>3, Zenon
    <3> QED BY <3>1, <3>2
  <2>4. f = [k \in 0 .. Len(s) |-> f[k]]
    BY <2>2, Zenon
  <2> QED BY <2>3, <2>4, Zenon
<1>4. value = Of(value)
  <2> HIDE DEF Of
  <2> QED BY <1>3, Zenon
<1> HIDE DEF value
<1>5. \A k \in 0 .. Len(s) : value[k] = IF k < i THEN 0 ELSE 10 * value[k - 1] + s[k]
  BY <1>4
<1>6. i - 1 \in 0 .. Len(s) /\ i - 1 < i /\ \A j \in i .. Len(s) : j \in 0 .. Len(s) /\ ~(j < i)
  BY <1>2
<1> QED BY <1>1, <1>5, <1>6

\* Every turn of extract_first_int's loop keeps the invariant.
LEMMA CharKeeps ==
  ASSUME TextInv, ReadChar
  PROVE  TextInv'
<1>1. /\ str \in Seq(Digits \cup {Minus, Other}) /\ num \in Nat /\ Len(str) \in Nat
      /\ place \in 1 .. Len(str) /\ start \in 0 .. place - 1
      /\ str' = str /\ place' = place + 1 /\ place' \in 1 .. Len(str) + 1
  BY DEF TextInv, ReadChar
<1>2. /\ \A k \in 1 .. Before : str[k] \notin Digits
      /\ \A k \in Before + 1 .. place - 1 : str[k] \in Digits
      /\ num = IF start = 0 THEN 0 ELSE Value(str, start, place - 1)
      /\ sign = IF \E k \in 1 .. Before : str[k] = Minus THEN -1 ELSE 1
  BY DEF TextInv
<1>3. Digits \subseteq 0 .. 9 /\ Minus \notin Digits
  BY UtilsAssumption DEF UtilsAssumption, Minus
<1>4. str \in Seq(Int)
  <2>1. Digits \cup {Minus, Other} \subseteq Int
    BY <1>3 DEF Minus, Other
  <2> QED BY <1>1, <2>1
<1>5. CASE start = 0 /\ str[place] \notin Digits
  <2>1. num' = num /\ start' = 0 /\ sign' = IF str[place] = Minus THEN -1 ELSE sign
    <3>1. CASE str[place] = Minus
      BY <1>5, <3>1 DEF ReadChar, MinusBefore
    <3>2. CASE str[place] # Minus
      BY <1>5, <3>2 DEF ReadChar, MinusBefore
    <3> QED BY <3>1, <3>2
  <2>2. Before = place - 1 /\ Before' = place
    BY <1>1, <1>5, <2>1 DEF Before
  <2>3. 1 .. place = 1 .. place - 1 \cup {place} /\ place + 1 .. place = {}
    BY <1>1
  <2>4. \A k \in 1 .. place : str[k] \notin Digits
    BY <1>2, <1>5, <2>2, <2>3
  <2>5. sign' = IF \E k \in 1 .. place : str[k] = Minus THEN -1 ELSE 1
    BY <1>2, <2>1, <2>2, <2>3
  <2>6. num' = 0 /\ place' - 1 = place /\ 0 \in 0 .. place
    BY <1>1, <1>2, <1>5, <2>1
  <2> QED BY <1>1, <2>1, <2>2, <2>3, <2>4, <2>5, <2>6 DEF TextInv
<1>6. CASE str[place] \in Digits
  <2>1. num' = 10 * num + str[place] /\ start' = (IF start = 0 THEN place ELSE start) /\ sign' = sign
    BY <1>3, <1>6 DEF ReadChar, MinusBefore
  <2>2. PICK s \in 1 .. Len(str) : s <= place /\ start' = s /\ Before = s - 1 /\ Before' = s - 1
    <3>1. (IF start = 0 THEN place ELSE start) \in 1 .. Len(str)
      BY <1>1
    <3> QED BY <1>1, <2>1, <3>1 DEF Before
  <2>3. \A k \in s .. place : str[k] \in Digits
    <3>1. \A k \in s .. place : k = place \/ k \in (s - 1) + 1 .. place - 1
      BY <1>1
    <3> QED BY <1>2, <1>6, <2>2, <3>1, Zenon
  <2>4. num' = Value(str, s, place)
    <3>1. num = Value(str, s, place - 1)
      <4>1. CASE start = 0
        <5>1. s = place /\ num = 0
          BY <1>1, <1>2, <2>1, <2>2, <4>1
        <5> QED BY <1>1, <1>4, <5>1, ValueOf
      <4>2. CASE start # 0
        BY <1>2, <2>1, <2>2, <4>2
      <4> QED BY <4>1, <4>2
    <3>2. place \in s .. Len(str)
      BY <1>1, <2>2
    <3>3. Value(str, s, place) = 10 * Value(str, s, place - 1) + str[place]
      BY <1>4, <3>2, ValueOf
    <3> QED BY <2>1, <3>1, <3>3
  <2>5. num' \in Nat
    <3>1. \A d \in Digits : d \in Nat
      BY <1>3
    <3>2. str[place] \in Nat
      BY <1>6, <3>1, Zenon
    <3>3. \A n, d \in Nat : 10 * n + d \in Nat
      OBVIOUS
    <3> QED BY <1>1, <2>1, <3>2, <3>3, Zenon
  <2>6. /\ place' - 1 = place /\ start' # 0 /\ start' \in 0 .. place' - 1 /\ Before' + 1 = s
        /\ 1 .. Before' = 1 .. Before
    BY <1>1, <2>2
  <2> QED BY <1>1, <1>2, <2>1, <2>2, <2>3, <2>4, <2>5, <2>6 DEF TextInv
<1>7. str[place] \in Digits \/ start = 0
  BY DEF ReadChar, MinusBefore
<1> QED BY <1>5, <1>6, <1>7

\* FirstInt: extract_first_int gives the value of the first run of digits, for every text:
\* it is negative with a minus sign anywhere before it and never by a later one
\* (wp_utils.c).
THEOREM FirstIntCorrect == UtilsSpec => []FirstInt
<1>1. UtilsInit => TextInv
  <2> SUFFICES ASSUME UtilsInit PROVE TextInv
    OBVIOUS
  <2>1. num = 0 /\ sign = 1 /\ start = 0 /\ place = 1 /\ Before = 0
    BY DEF UtilsInit, Before
  <2>2. str \in Seq(Digits \cup {Minus, Other}) /\ Len(str) \in Nat
    <3>1. CASE str = <<>>
      BY <3>1
    <3>2. ASSUME NEW k \in 0 .. MaxText, str \in [1 .. k -> Digits \cup {Minus, Other}]
          PROVE  str \in Seq(Digits \cup {Minus, Other}) /\ Len(str) \in Nat
      <4>1. k \in Nat
        BY UtilsAssumption DEF UtilsAssumption
      <4> QED BY <3>2, <4>1, TupleIsSequence
    <3> QED BY <3>1, <3>2 DEF UtilsInit, UpTo
  <2> QED BY <2>1, <2>2 DEF TextInv
<1>2. TextInv /\ [UtilsNext]_utilsVars => TextInv'
  <2> SUFFICES ASSUME TextInv, [UtilsNext]_utilsVars PROVE TextInv'
    OBVIOUS
  <2>1. CASE ReadChar
    BY <2>1, CharKeeps
  <2>2. CASE UNCHANGED textVars
    BY <2>2 DEF textVars, TextInv, Before
  <2> QED BY <2>1, <2>2 DEF UtilsNext, LookAtFace, utilsVars
<1>3. TextInv => FirstInt
  <2> SUFFICES ASSUME TextInv, Over PROVE FirstInt
    BY DEF FirstInt
  <2>1. /\ DOMAIN str = 1 .. Len(str) /\ Len(str) \in Nat /\ num \in Nat
        /\ place \in 1 .. Len(str) + 1 /\ start \in 0 .. place - 1
    BY DEF TextInv
  <2>2. sign \in {-1, 1} /\ (sign = -1 <=> \E k \in 1 .. Before : str[k] = Minus)
    BY DEF TextInv
  <2>3. CASE start = 0
    <3>1. place = Len(str) + 1 /\ Before = Len(str)
      BY <2>1, <2>3 DEF Over, Before
    <3>2. \A k \in DOMAIN str : str[k] \notin Digits
      BY <2>1, <3>1 DEF TextInv
    <3>3. sign * num = 0
      BY <2>2, <2>3 DEF TextInv
    <3> QED BY <3>2, <3>3 DEF FirstInt
  <2>4. CASE start # 0
    <3>1. /\ start \in DOMAIN str /\ place - 1 \in DOMAIN str
          /\ Before = start - 1 /\ Before + 1 = start /\ (place - 1) + 1 = place
      BY <2>1, <2>4 DEF Before
    <3>2. \A k \in start .. place - 1 : str[k] \in Digits
      BY <3>1 DEF TextInv
    <3>3. str[start] \in Digits
      BY <2>1, <2>4, <3>2
    <3>4. place - 1 = Len(str) \/ str[place] \notin Digits
      BY <2>1 DEF Over
    <3>5. IsRun(start, place - 1)
      BY <3>1, <3>2, <3>4 DEF TextInv, IsRun
    <3>6. num = Value(str, start, place - 1)
      BY <2>4 DEF TextInv
    <3>7. sign * num = IF \E k \in 1 .. start - 1 : str[k] = Minus
                       THEN -Value(str, start, place - 1) ELSE Value(str, start, place - 1)
      <4>1. (-1) * num = -num /\ 1 * num = num
        BY <2>1
      <4>2. (\E k \in 1 .. start - 1 : str[k] = Minus) <=> sign = -1
        BY <2>2, <3>1
      <4>3. CASE sign = -1
        BY <3>6, <4>1, <4>2, <4>3, Zenon
      <4>4. CASE sign = 1
        <5>1. 1 # -1
          OBVIOUS
        <5> QED BY <3>6, <4>1, <4>2, <4>4, <5>1, Zenon
      <4> QED BY <2>2, <4>3, <4>4
    <3> QED BY <3>1, <3>3, <3>5, <3>7 DEF FirstInt
  <2> QED BY <2>3, <2>4
<1> QED BY <1>1, <1>2, <1>3, PTL DEF UtilsSpec

\* face_filter takes the first of the largest faces, however many there are and whatever
\* their areas.
THEOREM LargestCorrect == UtilsSpec => []LargestFace
<1>1. UtilsInit => FaceInv
  <2> SUFFICES ASSUME UtilsInit
               PROVE  FaceInv
    OBVIOUS
  <2>1. max = 1 /\ maxArea = 0 /\ face = 1
    BY DEF UtilsInit
  <2>2. faces \in Seq(Nat)
    <3>1. Areas \subseteq Nat
      BY UtilsAssumption DEF UtilsAssumption
    <3>2. CASE faces = <<>>
      BY <3>2
    <3>3. ASSUME NEW k \in 0 .. MaxFaces, faces \in [1 .. k -> Areas]
          PROVE  faces \in Seq(Nat)
      <4>1. k \in Nat
        BY UtilsAssumption DEF UtilsAssumption
      <4>2. faces \in [1 .. k -> Nat]
        BY <3>1, <3>3
      <4> QED BY <4>1, <4>2, TupleIsSequence
    <3> QED BY <3>2, <3>3 DEF UtilsInit
  <2> QED BY <2>1, <2>2 DEF FaceInv
<1>2. FaceInv /\ [UtilsNext]_utilsVars => FaceInv'
  <2> SUFFICES ASSUME FaceInv, [UtilsNext]_utilsVars
               PROVE  FaceInv'
    OBVIOUS
  <2>1. CASE UNCHANGED faceVars
    BY <2>1 DEF faceVars, FaceInv
  <2>2. CASE LookAtFace
    <3>1. /\ faces \in Seq(Nat) /\ face \in 1 .. Len(faces) /\ face' = face + 1 /\ faces' = faces
          /\ maxArea \in Nat /\ max \in Nat /\ Len(faces) \in Nat /\ faces[face] \in Nat
          /\ \A f \in 1 .. face - 1 : faces[f] \in Nat /\ faces[f] <= maxArea
          /\ maxArea > 0 => max \in 1 .. face - 1 /\ faces[max] = maxArea
          /\ \A f \in 1 .. max - 1 : faces[f] < maxArea
      BY <2>2 DEF LookAtFace, FaceInv
    <3>2. CASE maxArea < faces[face]
      <4>1. max' = face /\ maxArea' = faces[face]
        BY <2>2, <3>2 DEF LookAtFace, Larger
      <4>2. \A f \in 1 .. face - 1 : faces[f] < faces[face]
        BY <3>1, <3>2
      <4>3. \A f \in 1 .. face : faces[f] <= faces[face]
        BY <3>1, <4>2
      <4>4. face' - 1 = face /\ max' - 1 = face - 1 /\ face' \in 1 .. Len(faces) + 1 /\ face \in 1 .. face
        BY <3>1, <4>1
      <4> QED BY <3>1, <4>1, <4>2, <4>3, <4>4 DEF FaceInv
    <3>3. CASE ~(maxArea < faces[face])
      <4>1. max' = max /\ maxArea' = maxArea
        BY <2>2, <3>3 DEF LookAtFace, Larger
      <4> QED BY <3>1, <3>3, <4>1 DEF FaceInv
    <3> QED BY <3>2, <3>3
  <2> QED BY <2>1, <2>2 DEF UtilsNext, ReadChar, utilsVars
<1>3. FaceInv => LargestFace
  <2> SUFFICES ASSUME FaceInv, face > Len(faces)
               PROVE  /\ \A f \in DOMAIN faces : faces[f] <= maxArea
                      /\ maxArea > 0 => faces[max] = maxArea /\ \A f \in 1 .. max - 1 : faces[f] < maxArea
    BY DEF LargestFace
  <2>1. faces \in Seq(Nat) /\ face = Len(faces) + 1 /\ DOMAIN faces = 1 .. Len(faces) /\ Len(faces) \in Nat
    BY DEF FaceInv
  <2>2. face - 1 = Len(faces)
    BY <2>1
  <2> QED BY <2>1, <2>2 DEF FaceInv
<1> QED BY <1>1, <1>2, <1>3, PTL DEF UtilsSpec

(* The circular queue                                                      *)

LEMMA Round ==
  ASSUME NEW n \in Nat \ {0}, NEW x \in 0 .. 2 * n - 1
  PROVE  x % n = IF x < n THEN x ELSE x - n
<1>1. CASE x < n
  BY <1>1, Wrap
<1>2. CASE ~(x < n)
  <2> DEFINE q == x \div n
             r == x % n
  <2>1. q \in Int /\ r \in 0 .. n - 1 /\ x = n * q + r
    BY SMT
  <2> HIDE DEF q, r
  <2>2. q < 1 => n * q <= 0
    BY <2>1, SMT
  <2>3. q > 1 => n * q >= n + n
    <3>1. SUFFICES ASSUME q > 1
                   PROVE  n * q >= n + n
      OBVIOUS
    <3>2. n * (q - 2) >= 0 /\ n * q = n * (q - 2) + n + n
      BY <2>1, <3>1, SMT
    <3> QED BY <2>1, <3>2, SMT
  <2>4. q = 1
    BY <1>2, <2>1, <2>2, <2>3, SMT
  <2> QED BY <1>2, <2>1, <2>4 DEF r
<1> QED BY <1>1, <1>2

LEMMA SlotIs ==
  ASSUME QueueInv, NEW k \in 0 .. MaxQueue
  PROVE  /\ Slot(k) \in Slots
         /\ Slot(k) = IF front + k < MaxQueue THEN front + k ELSE front + k - MaxQueue
<1>1. MaxQueue \in Nat \ {0} /\ front \in 0 .. MaxQueue - 1
  BY QueueAssumption, SMT DEF QueueAssumption, QueueInv, Slots
<1>2. front + k \in 0 .. 2 * MaxQueue - 1
  BY <1>1
<1>3. Slot(k) = IF front + k < MaxQueue THEN front + k ELSE front + k - MaxQueue
  <2> DEFINE x == front + k
             m == x % MaxQueue
  <2>1. x \in 0 .. 2 * MaxQueue - 1 /\ x = front + k
    BY <1>2
  <2>2. Slot(k) = m
    BY DEF Slot
  <2> HIDE DEF x
  <2>3. m = IF x < MaxQueue THEN x ELSE x - MaxQueue
    BY <1>1, <2>1, Round
  <2> HIDE DEF m
  <2> QED BY <1>1, <2>1, <2>2, <2>3
<1> QED BY <1>1, <1>2, <1>3 DEF Slots

LEMMA WaitingIs ==
  ASSUME QueueInv
  PROVE  /\ Waiting \in Seq(Bytes) /\ Len(Waiting) = used /\ DOMAIN Waiting = 1 .. used
         /\ \A i \in 1 .. used : Waiting[i] = data[Slot(i - 1)]
<1>1. used \in Nat /\ MaxQueue \in Nat /\ used <= MaxQueue /\ data \in [Slots -> Bytes]
  BY QueueAssumption, SMT DEF QueueAssumption, QueueInv
<1>2. \A i \in 1 .. used : Slot(i - 1) \in Slots
  BY <1>1, SlotIs
<1>3. Waiting \in [1 .. used -> Bytes]
  BY <1>1, <1>2 DEF Waiting
<1> QED BY <1>1, <1>3, TupleIsSequence DEF Waiting

LEMMA QueueStarts ==
  ASSUME QueueInit
  PROVE  QueueInv /\ Waiting = <<>>
<1>1. MaxQueue \in Nat \ {0} /\ ByteSpace \in Nat \ {0} /\ Byte0 \in Bytes
  BY QueueAssumption DEF QueueAssumption, Byte0
<1>2. (0 + 0) % MaxQueue = 0
  BY <1>1, Wrap
<1>3. QueueInv
  <2>1. rear = Slot(used)
    BY <1>2, Zenon DEF QueueInit, Slot
  <2>2. /\ data \in [Slots -> Bytes] /\ front \in Slots /\ used \in 0 .. MaxQueue
        /\ moving \in {"none", "read", "write"} \X (0 .. ByteSpace - 1) /\ buffer \in Seq(Bytes)
        /\ moving[1] = "none"
    BY <1>1 DEF QueueInit, Slots
  <2> QED BY <2>1, <2>2 DEF QueueInv
<1>4. Len(Waiting) = 0
  BY <1>3, WaitingIs DEF QueueInit
<1> QED BY <1>3, <1>4, WaitingIs

LEMMA RoundSum ==
  ASSUME NEW n \in Nat \ {0}, NEW a \in Int, NEW b \in Int, a + b \in 0 .. 2 * n - 1
  PROVE  (a + b) % n = IF a + b < n THEN a + b ELSE a + b - n
<1> DEFINE x == a + b
<1>1. x \in 0 .. 2 * n - 1
  OBVIOUS
<1> HIDE DEF x
<1>2. x % n = IF x < n THEN x ELSE x - n
  BY <1>1, Round
<1> QED BY <1>2 DEF x

\* The places follow each other, whichever of them is counted from.
LEMMA SlotsFollow ==
  ASSUME QueueInv
  PROVE  /\ \A j, k \in 0 .. MaxQueue - 1 : Slot(j) = Slot(k) => j = k
         /\ \A k \in 0 .. MaxQueue - 1 : After(Slot(k)) = Slot(k + 1)
         /\ \A k \in 1 .. MaxQueue : (After(front) + (k - 1)) % MaxQueue = Slot(k)
<1> DEFINE n == MaxQueue
<1>1. n \in Nat \ {0} /\ front \in 0 .. n - 1 /\ After(front) = Slot(1)
  BY QueueAssumption, SMT DEF QueueAssumption, QueueInv, Slots, After, Slot
<1>2. \A k \in 0 .. n : /\ Slot(k) \in 0 .. n - 1
                        /\ Slot(k) = IF front + k < n THEN front + k ELSE front + k - n
  BY SlotIs DEF Slots
<1> HIDE DEF n
<1>3. \A j, k \in 0 .. n - 1 : Slot(j) = Slot(k) => j = k
  BY <1>1, <1>2
<1>4. ASSUME NEW k \in 0 .. n - 1
      PROVE  After(Slot(k)) = Slot(k + 1)
  <2>1. /\ k \in 0 .. n /\ k + 1 \in 0 .. n /\ Slot(k) \in Int /\ 1 \in Int
        /\ Slot(k) + 1 \in 0 .. 2 * n - 1
    BY <1>1, <1>2
  <2>2. (Slot(k) + 1) % n = IF Slot(k) + 1 < n THEN Slot(k) + 1 ELSE Slot(k) + 1 - n
    BY <1>1, <2>1, RoundSum
  <2>3. After(Slot(k)) = (Slot(k) + 1) % n
    BY DEF After, n
  <2> DEFINE m == (Slot(k) + 1) % n
  <2> HIDE DEF m
  <2>4. m = IF Slot(k) + 1 < n THEN Slot(k) + 1 ELSE Slot(k) + 1 - n
    BY <2>2 DEF m
  <2>5. m = Slot(k + 1)
    BY <1>1, <1>2, <2>1, <2>4
  <2> QED BY <2>3, <2>5 DEF m
<1>5. ASSUME NEW k \in 1 .. n
      PROVE  (After(front) + (k - 1)) % n = Slot(k)
  <2>1. /\ 1 \in 0 .. n /\ k \in 0 .. n /\ Slot(1) \in Int /\ k - 1 \in Int
        /\ Slot(1) + (k - 1) \in 0 .. 2 * n - 1
    BY <1>1, <1>2
  <2> DEFINE m == (Slot(1) + (k - 1)) % n
  <2>2. m = IF Slot(1) + (k - 1) < n THEN Slot(1) + (k - 1) ELSE Slot(1) + (k - 1) - n
    BY <1>1, <2>1, RoundSum
  <2> HIDE DEF m
  <2>3. m = Slot(k)
    BY <1>1, <1>2, <2>1, <2>2
  <2> QED BY <1>1, <2>3 DEF m
<1> QED BY <1>3, <1>4, <1>5 DEF n

LEMMA QueueCallKeeps ==
  ASSUME QueueInv, WriteCall \/ ReadCall \/ CallReturns
  PROVE  QueueInv' /\ Waiting' = Waiting
<1>1. /\ data \in [Slots -> Bytes] /\ front \in Slots /\ used \in 0 .. MaxQueue
      /\ rear = Slot(used) /\ buffer \in Seq(Bytes)
      /\ moving \in {"none", "read", "write"} \X (0 .. ByteSpace - 1)
      /\ moving[1] = "write" => Len(buffer) = moving[2] /\ moving[2] + used <= MaxQueue
      /\ moving[1] = "read" => moving[2] <= used
  BY DEF QueueInv
<1>2. ByteSpace \in Nat \ {0} /\ MaxQueue \in 1 .. ByteSpace - 1 /\ Lengths \subseteq 0 .. ByteSpace - 1
  BY QueueAssumption, SMT DEF QueueAssumption
<1>3. UNCHANGED <<data, front, rear, used>>
  BY DEF WriteCall, ReadCall, CallReturns, QueueCall
<1>4. Waiting' = Waiting
  BY <1>3 DEF Waiting, Slot
<1>12. /\ data' \in [Slots -> Bytes] /\ front' \in Slots /\ used' \in 0 .. MaxQueue
       /\ rear' = Slot(used)' /\ Slots' = Slots
  BY <1>1, <1>3, Zenon DEF Slot, Slots
<1>5. CASE UNCHANGED <<moving, buffer>>
  <2>1. /\ moving' \in {"none", "read", "write"} \X (0 .. ByteSpace - 1) /\ buffer' \in Seq(Bytes)
        /\ moving'[1] = "write" => Len(buffer') = moving'[2] /\ moving'[2] + used' <= MaxQueue
        /\ moving'[1] = "read" => moving'[2] <= used'
    BY <1>1, <1>3, <1>5
  <2> QED BY <1>4, <1>12, <2>1, Zenon DEF QueueInv
<1>6. CASE moving' = <<"none", 0>> /\ buffer' = <<>>
  <2>1. moving' \in {"none", "read", "write"} \X (0 .. ByteSpace - 1) /\ moving'[1] = "none"
    BY <1>2, <1>6
  <2>2. buffer' \in Seq(Bytes)
    BY <1>6
  <2> QED BY <1>4, <1>12, <2>1, <2>2 DEF QueueInv
<1>7. ASSUME NEW len \in Lengths, NEW bytes \in [1 .. len -> Bytes],
             ~(nouse < len), moving' = <<"write", len>>, buffer' = bytes
      PROVE  QueueInv'
  <2>1. len \in 0 .. ByteSpace - 1 /\ len \in Nat
    BY <1>2
  <2>2. nouse = MaxQueue - used
    <3> DEFINE x == MaxQueue - used
    <3>1. x \in Int /\ x \in 0 .. ByteSpace - 1 /\ ByteSpace \in Nat \ {0}
      BY <1>1, <1>2
    <3> HIDE DEF x
    <3>2. x % ByteSpace = x
      BY <3>1, Wrap
    <3> QED BY <3>2 DEF x, nouse
  <2>3. len + used <= MaxQueue
    BY <1>1, <1>2, <1>7, <2>1, <2>2
  <2>4. bytes \in Seq(Bytes) /\ Len(bytes) = len
    BY <2>1, TupleIsSequence
  <2>5. /\ moving' \in {"none", "read", "write"} \X (0 .. ByteSpace - 1)
        /\ moving'[1] = "write" /\ moving'[2] = len
    BY <1>7, <2>1
  <2> QED BY <1>1, <1>3, <1>12, <1>7, <2>3, <2>4, <2>5 DEF QueueInv, Slots
<1>8. ASSUME NEW len \in Lengths, ~(haduse < len), moving' = <<"read", len>>, buffer' = <<>>
      PROVE  QueueInv'
  <2>1. len \in 0 .. ByteSpace - 1 /\ len \in Nat
    BY <1>2
  <2>2. len <= used
    BY <1>1, <1>2, <1>8, <2>1 DEF haduse
  <2>3. /\ moving' \in {"none", "read", "write"} \X (0 .. ByteSpace - 1)
        /\ moving'[1] = "read" /\ moving'[2] = len
    BY <1>8, <2>1
  <2> QED BY <1>1, <1>3, <1>12, <1>8, <2>2, <2>3 DEF QueueInv, Slots
<1>9. CASE WriteCall
  BY <1>5, <1>7, <1>9, <1>4 DEF WriteCall
<1>10. CASE ReadCall
  BY <1>5, <1>8, <1>10, <1>4 DEF ReadCall
<1>11. CASE CallReturns
  BY <1>6, <1>11, <1>4 DEF CallReturns
<1> QED BY <1>9, <1>10, <1>11

LEMMA WriteKeeps ==
  ASSUME QueueInv, WriteByte
  PROVE  QueueInv' /\ Fifo!Put
<1>1. /\ data \in [Slots -> Bytes] /\ front \in Slots /\ used \in 0 .. MaxQueue
      /\ rear = Slot(used) /\ buffer \in Seq(Bytes)
      /\ moving[2] \in 1 .. ByteSpace - 1 /\ Len(buffer) = moving[2] /\ moving[2] + used <= MaxQueue
  BY QueueAssumption, SMT DEF QueueAssumption, QueueInv, WriteByte, Slot
<1>2. ByteSpace \in Nat \ {0} /\ MaxQueue \in Nat \ {0} /\ used \in 0 .. MaxQueue - 1
  BY <1>1, QueueAssumption, SMT DEF QueueAssumption
<1>3. /\ data' = [s \in Slots |-> IF s = rear THEN Head(buffer) ELSE data[s]]
      /\ rear' = After(rear) /\ used' = used + 1 /\ front' = front
      /\ moving' = <<"write", moving[2] - 1>> /\ buffer' = Tail(buffer)
  BY DEF WriteByte
<1>4. Head(buffer) \in Bytes /\ Tail(buffer) \in Seq(Bytes) /\ Len(Tail(buffer)) = Len(buffer) - 1
  BY <1>1, <1>2
<1>5. QueueInv'
  <2>1. rear' = Slot(used)'
    <3>1. Slot(used)' = Slot(used + 1)
      BY <1>3 DEF Slot
    <3> QED BY <1>1, <1>2, <1>3, <3>1, SlotsFollow
  <2>2. data' \in [Slots -> Bytes] /\ front' \in Slots /\ used' \in 0 .. MaxQueue
    BY <1>1, <1>2, <1>3, <1>4
  <2>3. /\ moving' \in {"none", "read", "write"} \X (0 .. ByteSpace - 1)
        /\ moving'[1] = "write" /\ moving'[2] = moving[2] - 1
    BY <1>1, <1>2, <1>3
  <2>4. buffer' \in Seq(Bytes) /\ Len(buffer') = moving'[2] /\ moving'[2] + used' <= MaxQueue
    BY <1>1, <1>2, <1>3, <1>4, <2>3
  <2> QED BY <2>1, <2>2, <2>3, <2>4 DEF QueueInv, Slots
<1>6. Waiting' = Append(Waiting, Head(buffer))
  <2> DEFINE w == Waiting
             b == Head(buffer)
  <2>1. w \in Seq(Bytes) /\ Len(w) = used /\ \A i \in 1 .. used : w[i] = data[Slot(i - 1)]
    BY WaitingIs
  <2>2. ASSUME NEW i \in 1 .. used + 1
        PROVE  data'[Slot(i - 1)'] = IF i <= used THEN w[i] ELSE b
    <3>1. i - 1 \in 0 .. MaxQueue - 1 /\ i - 1 \in 0 .. MaxQueue
      BY <1>2
    <3>2. Slot(i - 1) \in Slots
      BY <3>1, SlotIs
    <3>3. data'[Slot(i - 1)] = IF Slot(i - 1) = Slot(used) THEN b ELSE data[Slot(i - 1)]
      BY <1>1, <1>3, <3>2
    <3>4. Slot(i - 1) = Slot(used) <=> i - 1 = used
      BY <1>2, <3>1, SlotsFollow
    <3>5. Slot(i - 1)' = Slot(i - 1)
      BY <1>3 DEF Slot
    <3> QED BY <1>2, <2>1, <3>3, <3>4, <3>5
  <2>3. Waiting' = [i \in 1 .. used + 1 |-> IF i <= used THEN w[i] ELSE b]
    BY <1>3, <2>2 DEF Waiting
  <2> HIDE DEF w, b
  <2>4. Append(w, b) = [i \in 1 .. used + 1 |-> IF i <= used THEN w[i] ELSE b]
    <3> DEFINE a == Append(w, b)
    <3>1. a \in Seq(Bytes) /\ Len(a) = used + 1
      BY <1>4, <2>1 DEF b
    <3>2. \A i \in 1 .. used + 1 : a[i] = IF i <= used THEN w[i] ELSE b
      BY <1>2, <2>1
    <3> HIDE DEF a
    <3>3. a = [i \in 1 .. used + 1 |-> a[i]]
      BY <3>1
    <3> QED BY <3>2, <3>3 DEF a
  <2> QED BY <2>3, <2>4 DEF w, b
<1>7. Len(Waiting) < MaxQueue
  BY <1>2, WaitingIs
<1> QED BY <1>4, <1>5, <1>6, <1>7 DEF Fifo!Put

LEMMA ReadKeeps ==
  ASSUME QueueInv, ReadByte
  PROVE  QueueInv' /\ Fifo!Get
<1>1. /\ data \in [Slots -> Bytes] /\ front \in Slots /\ used \in 0 .. MaxQueue
      /\ rear = Slot(used) /\ buffer \in Seq(Bytes)
      /\ moving[2] \in 1 .. ByteSpace - 1 /\ moving[2] <= used
  BY QueueAssumption, SMT DEF QueueAssumption, QueueInv, ReadByte
<1>2. ByteSpace \in Nat \ {0} /\ MaxQueue \in Nat \ {0} /\ used \in 1 .. MaxQueue
  BY <1>1, QueueAssumption, SMT DEF QueueAssumption
<1>3. /\ data' = data /\ front' = After(front) /\ used' = used - 1 /\ rear' = rear
      /\ moving' = <<"read", moving[2] - 1>> /\ buffer' = Append(buffer, data[front])
  BY DEF ReadByte
<1>4. \A k \in 1 .. MaxQueue : Slot(k - 1)' = Slot(k)
  <2> SUFFICES ASSUME NEW k \in 1 .. MaxQueue
               PROVE  Slot(k - 1)' = Slot(k)
    OBVIOUS
  <2>1. Slot(k - 1)' = (After(front) + (k - 1)) % MaxQueue
    BY <1>3 DEF Slot
  <2>2. (After(front) + (k - 1)) % MaxQueue = Slot(k)
    BY SlotsFollow
  <2> QED BY <2>1, <2>2, Zenon
<1>5. front' \in Slots
  <2>1. After(front) = Slot(1)
    BY DEF After, Slot
  <2>2. 1 \in 0 .. MaxQueue
    BY <1>2
  <2> QED BY <1>3, <2>1, <2>2, SlotIs
<1>6. QueueInv'
  <2>1. rear' = Slot(used)'
    <3>1. Slot(used)' = (After(front) + (used - 1)) % MaxQueue
      BY <1>3, Zenon DEF Slot
    <3>2. (After(front) + (used - 1)) % MaxQueue = Slot(used)
      BY <1>2, SlotsFollow
    <3> QED BY <1>1, <1>3, <3>1, <3>2, Zenon
  <2>2. data' \in [Slots -> Bytes] /\ used' \in 0 .. MaxQueue
    BY <1>1, <1>2, <1>3
  <2>3. /\ moving' \in {"none", "read", "write"} \X (0 .. ByteSpace - 1)
        /\ moving'[1] = "read" /\ moving'[2] <= used'
    BY <1>1, <1>2, <1>3
  <2>4. buffer' \in Seq(Bytes)
    BY <1>1, <1>3
  <2> QED BY <1>5, <2>1, <2>2, <2>3, <2>4 DEF QueueInv, Slots
<1>7. Waiting' = Tail(Waiting)
  <2> DEFINE w == Waiting
  <2>1. w \in Seq(Bytes) /\ Len(w) = used /\ \A i \in 1 .. used : w[i] = data[Slot(i - 1)]
    BY WaitingIs
  <2>2. ASSUME NEW i \in 1 .. used - 1
        PROVE  data'[Slot(i - 1)'] = w[i + 1]
    <3>1. i \in 1 .. MaxQueue /\ i + 1 \in 1 .. used /\ (i + 1) - 1 = i
      BY <1>2
    <3> QED BY <1>3, <1>4, <2>1, <3>1
  <2>3. Waiting' = [i \in 1 .. used - 1 |-> w[i + 1]]
    BY <1>3, <2>2 DEF Waiting
  <2> HIDE DEF w
  <2>4. Tail(w) = [i \in 1 .. used - 1 |-> w[i + 1]]
    <3> DEFINE a == Tail(w)
    <3>1. a \in Seq(Bytes) /\ Len(a) = used - 1
      BY <1>2, <2>1
    <3>2. \A i \in 1 .. used - 1 : a[i] = w[i + 1]
      BY <1>2, <2>1
    <3> HIDE DEF a
    <3>3. a = [i \in 1 .. used - 1 |-> a[i]]
      BY <3>1
    <3> QED BY <3>2, <3>3 DEF a
  <2> QED BY <2>3, <2>4 DEF w
<1>8. Waiting # <<>>
  BY <1>2, WaitingIs
<1> QED BY <1>6, <1>7, <1>8 DEF Fifo!Get

\* The circular queue implements a sequence that is bounded, whatever its size, the bytes
\* and the calls: a byte that is written goes behind those that wait, and the one that is
\* read is the first of them, however often front and rear went round.
THEOREM FifoCorrect == QueueSpec => ImplementsFifo
<1>1. QueueInit => QueueInv /\ Fifo!Init
  BY QueueStarts DEF Fifo!Init
<1>2. ASSUME QueueInv, [QueueNext]_queueVars
      PROVE  QueueInv' /\ [Fifo!Put \/ Fifo!Get]_Waiting
  <2>1. CASE WriteCall \/ ReadCall \/ CallReturns
    BY <1>2, <2>1, QueueCallKeeps
  <2>2. CASE WriteByte
    BY <1>2, <2>2, WriteKeeps
  <2>3. CASE ReadByte
    BY <1>2, <2>3, ReadKeeps
  <2>4. CASE UNCHANGED queueVars
    BY <1>2, <2>4 DEF queueVars, QueueInv, Waiting, Slot
  <2> QED BY <1>2, <2>1, <2>2, <2>3, <2>4 DEF QueueNext
<1> QED BY <1>1, <1>2, PTL DEF QueueSpec, ImplementsFifo, Fifo!Spec

\* Neither front nor rear leaves the array and size keeps to it, for every call of
\* circular_queue_write and circular_queue_read (wp_mood_queue.c), refused ones included.
THEOREM QueueTypeCorrect == QueueSpec => []QueueTypeOK
<1> DEFINE Counted == moves \in 0 .. MaxMoves /\ answer \in BOOLEAN
<1>1. QueueInit => QueueInv /\ Counted
  BY QueueStarts, QueueAssumption DEF QueueInit, QueueAssumption
<1>2. ASSUME QueueInv, Counted, [QueueNext]_queueVars
      PROVE  QueueInv' /\ Counted'
  <2>1. CASE WriteCall \/ ReadCall \/ CallReturns
    <3>1. Counted'
      <4>1. \/ moves' = moves /\ answer' = answer
            \/ moves < MaxMoves /\ moves' = moves + 1 /\ answer' \in BOOLEAN
        BY <1>2, <2>1, Zenon DEF WriteCall, ReadCall, CallReturns, QueueCall
      <4> QED BY <1>2, <4>1, QueueAssumption DEF QueueAssumption
    <3> QED BY <1>2, <2>1, <3>1, QueueCallKeeps
  <2>2. CASE WriteByte
    BY <1>2, <2>2, WriteKeeps DEF WriteByte
  <2>3. CASE ReadByte
    BY <1>2, <2>3, ReadKeeps DEF ReadByte
  <2>4. CASE UNCHANGED queueVars
    BY <1>2, <2>4 DEF queueVars, QueueInv, Slot
  <2> QED BY <1>2, <2>1, <2>2, <2>3, <2>4 DEF QueueNext
<1>3. ASSUME QueueInv, Counted
      PROVE  QueueTypeOK
  <2>1. /\ data \in [Slots -> Bytes] /\ front \in Slots /\ used \in 0 .. MaxQueue /\ rear = Slot(used)
        /\ moving[1] \in {"none", "read", "write"} /\ moving[2] \in 0 .. ByteSpace - 1
    BY <1>3 DEF QueueInv
  <2>2. rear \in Slots
    BY <1>3, <2>1, SlotIs
  <2> QED BY <1>3, <2>1, <2>2 DEF QueueTypeOK
<1> QED BY <1>1, <1>2, <1>3, PTL DEF QueueSpec

-----------------------------------------------------------------------------
(* The parts side by side                                                  *)

\* Each part of MCMoods behaves as it does alone: no other part touches its state.
LEMMA PartsAlone == MCSpec => Spec /\ FrameSpec /\ SearchSpec /\ UtilsSpec /\ QueueSpec
<1>1. MCInit => Init /\ FrameInit /\ SearchInit /\ UtilsInit /\ QueueInit
  BY DEF MCInit
<1>2. [MCNext]_mcVars => /\ [Next]_vars /\ [FrameNext]_frameVars /\ [SearchNext]_searchVars
                         /\ [UtilsNext]_utilsVars /\ [QueueNext]_queueVars
  <2> SUFFICES ASSUME [MCNext]_mcVars
               PROVE  /\ Next \/ UNCHANGED vars
                      /\ FrameNext \/ UNCHANGED frameVars
                      /\ SearchNext \/ UNCHANGED searchVars
                      /\ UtilsNext \/ UNCHANGED utilsVars
                      /\ QueueNext \/ UNCHANGED queueVars
    OBVIOUS
  <2>1. CASE Follow("graph", Next, <<frameVars, searchVars, utilsVars, queueVars>>)
    BY <2>1 DEF Follow
  <2>2. CASE Follow("frame", FrameNext, <<vars, searchVars, utilsVars, queueVars>>)
    BY <2>2 DEF Follow
  <2>3. CASE Follow("search", SearchNext, <<vars, frameVars, utilsVars, queueVars>>)
    BY <2>3 DEF Follow
  <2>4. CASE Follow("utils", UtilsNext, <<vars, frameVars, searchVars, queueVars>>)
    BY <2>4 DEF Follow
  <2>5. CASE Follow("queue", QueueNext, <<vars, frameVars, searchVars, utilsVars>>)
    BY <2>5 DEF Follow
  <2>6. CASE UNCHANGED mcVars
    BY <2>6 DEF mcVars
  <2> QED BY <2>1, <2>2, <2>3, <2>4, <2>5, <2>6 DEF MCNext
<1> QED BY <1>1, <1>2, PTL DEF MCSpec, Spec, FrameSpec, SearchSpec, UtilsSpec, QueueSpec

\* The state of the graph, of the frames and of the queue keeps its type, for any number of
\* calls: that of the graph as long as there are fewer moods than ids.
THEOREM MoodTypes == MCSpec /\ []FewMoods => []TypesOK
<1>1. TypeOK /\ FrameTypeOK /\ QueueTypeOK => TypesOK
  BY DEF TypesOK
<1> QED BY <1>1, PartsAlone, TypeCorrect, FrameTypeCorrect, QueueTypeCorrect, PTL

\* Where there are fewer names than ids, nothing else is needed.
THEOREM FewNamesTypes ==
  ASSUME FewNames
  PROVE  MCSpec => []TypesOK
BY MoodTypes, PartsAlone, FewNamesFewMoods, PTL

\* file_search_data, extract_first_int and face_filter (wp_utils.c) find what they look for,
\* whatever the file, the text and the faces.
THEOREM HelpersCorrect == MCSpec => []HelpersRight
<1>1. FoundInOrder /\ FoundBeforeTheEnd /\ FirstInt /\ LargestFace => HelpersRight
  BY DEF HelpersRight
<1> QED BY <1>1, PartsAlone, SearchCorrect, FirstIntCorrect, LargestCorrect, PTL
=============================================================================

----------------------------- MODULE MoodGraph ------------------------------
(***************************************************************************)
(* The mood graph of Robot/src/wp_mood_sys.c: a linked list of moods that  *)
(* starts with the static mood BASE, each with a list of edges that name   *)
(* the other mood by its id.  Ids are list positions: they are handed out  *)
(* from gMood_Num and shifted when a mood is destroyed.  Every call runs   *)
(* to its end before the next one (one thread builds the graph).           *)
(* Relevances and values are floats in the code and multiples of 1/Unit    *)
(* here.  The answer to a name, an edge or memory that is not there is the *)
(* return code of the C function.                                          *)
(***************************************************************************)
EXTENDS Integers, Sequences, FiniteSets, SequencesExt

CONSTANTS
  Names,          \* the names callers use
  Base,           \* "BASE", the name of the static mood
  LongNames,      \* the names that do not fit into the name field
  Pairs,          \* the pairs of different names callers bind
  Rels,           \* the relevances callers pass, in 1/Unit
  Values,         \* the values callers set, in 1/Unit
  Unit,
  BaseValue, MinValue, MaxValue,   \* the ..._MOOD_VALUE of wp_config.h, in 1/Unit
  ValueIncrease,  \* VALUE_INCREASE
  IdSpace,        \* 256: gMood_Num and the ids are uint8_t
  MaxChanges      \* bound on the calls that change a value

ASSUME MoodAssumption ==
  /\ Base \in Names \ LongNames
  /\ Pairs \subseteq {p \in Names \X Names : p[1] # p[2]}
  /\ Rels \subseteq Int /\ Values \subseteq Int
  /\ Unit \in Nat \ {0} /\ IdSpace \in Nat \ {0, 1} /\ ValueIncrease \in Nat
  /\ {BaseValue, MinValue, MaxValue} \subseteq Int /\ MinValue <= MaxValue

VARIABLES
  list,      \* the moods from stMood_List on: name, id, edges (from head), value
  gMood_Num,
  ret,       \* the answer of the last call
  changes    \* calls that changed a value so far

vars == <<list, gMood_Num, ret, changes>>

Limit(x, lo, hi) == IF x < lo THEN lo ELSE IF x > hi THEN hi ELSE x

\* The first mood with that name, or that id; 0 stands for NULL.
LocateByName(l, n) == SelectInSeq(l, LAMBDA m : m.name = n)
LocateById(l, d) == SelectInSeq(l, LAMBDA m : m.id = d)

Known(n) == LocateByName(list, n) # 0

\* Is there an edge to the mood with id d?
PointsTo(m, d) == \E e \in ToSet(m.edges) : e.dst = d

\* The first edge to d is taken out, if there is one.
Without(edges, d) == RemoveFirstMatch(edges, LAMBDA e : e.dst = d)

Answer(code) == ret' = code /\ UNCHANGED <<list, gMood_Num, changes>>

-----------------------------------------------------------------------------
Init ==
  /\ list = << [name |-> Base, id |-> 0, edges |-> <<>>, value |-> BaseValue] >>
  /\ gMood_Num = 1
  /\ ret = 0 /\ changes = 0

\* mood_create's tests before the allocation.
Refused(n) == n \in LongNames \/ Known(n)

Create(n) ==
  \/ Refused(n) /\ Answer(1)
  \/ ~Refused(n) /\ Answer(2)
  \/ /\ ~Refused(n)
     /\ list' = Append(list, [name |-> n, id |-> gMood_Num, edges |-> <<>>, value |-> BaseValue])
     /\ gMood_Num' = (gMood_Num + 1) % IdSpace
     /\ ret' = 0 /\ UNCHANGED changes

\* mood_node_create: an edge at the front of each list.  A slip: dst's edge gets
\* no partner.
LinkOneWay(l, src, dst, r) ==
  [l EXCEPT ![dst].edges = <<[dst |-> l[src].id, rel |-> r]>> \o @]
Link(l, src, dst, r) ==
  [l EXCEPT ![dst].edges = <<[dst |-> l[src].id, rel |-> r]>> \o @,
            ![src].edges = <<[dst |-> l[dst].id, rel |-> r]>> \o @]

\* What mood_node_create makes of the relevance.
Relevance(r) == Limit(r, -Unit, Unit)

\* mood_bind looks for an edge in one direction only.
AlreadyBound(src, dst) == PointsTo(list[src], list[dst].id)

Bind(a, b, r) ==
  LET src == LocateByName(list, a)
      dst == LocateByName(list, b) IN
  IF src = 0 \/ dst = 0 THEN Answer(1)
  ELSE \/ AlreadyBound(src, dst) /\ Answer(3)
       \/ ~AlreadyBound(src, dst) /\ Answer(1)
       \/ /\ ~AlreadyBound(src, dst)
          /\ list' = Link(list, src, dst, Relevance(r))
          /\ ret' = 0 /\ UNCHANGED <<gMood_Num, changes>>

\* mood_node_destroy
Unlink(l, src, dst) ==
  [l EXCEPT ![src].edges = Without(@, l[dst].id),
            ![dst].edges = Without(@, l[src].id)]

Unbind(a, b) ==
  LET src == LocateByName(list, a)
      dst == LocateByName(list, b) IN
  IF src = 0 \/ dst = 0 THEN Answer(1)
  ELSE \/ ~PointsTo(list[src], list[dst].id) /\ Answer(2)
       \/ /\ PointsTo(list[src], list[dst].id)
          /\ list' = Unlink(list, src, dst)
          /\ ret' = 0 /\ UNCHANGED <<gMood_Num, changes>>

\* The edges of mood k and their partners are taken out.
Isolate(l, k) ==
  [p \in DOMAIN l |->
     [l[p] EXCEPT !.edges =
        IF p = k THEN <<>>
        ELSE IF PointsTo(l[k], l[p].id) THEN Without(@, l[k].id)
        ELSE @]]

\* The moods behind position k move up by one id.
ShiftIds(l, k) == [p \in DOMAIN l |-> IF p < k THEN l[p] ELSE [l[p] EXCEPT !.id = @ - 1]]

\* The edges follow the ids.  A slip: they do not.
Renumber(edges, d) ==
  [e \in DOMAIN edges |->
     IF edges[e].dst >= d THEN [edges[e] EXCEPT !.dst = @ - 1] ELSE edges[e]]
LeaveEdges(l, d) == l
ShiftEdges(l, d) == [p \in DOMAIN l |-> [l[p] EXCEPT !.edges = Renumber(@, d)]]

\* mood_list_destroy.  A slip: the ids behind the mood stay.
TakeOutOnly(l, k) == RemoveAt(l, k)
TakeOut(l, k) == ShiftIds(RemoveAt(l, k), k)

Destroy(n) ==
  LET k == LocateByName(list, n) IN
  IF n = Base \/ k = 0 THEN Answer(1)
  ELSE /\ list' = ShiftEdges(TakeOut(Isolate(list, k), k), list[k].id)
       /\ gMood_Num' = (gMood_Num - 1) % IdSpace
       /\ ret' = 0 /\ UNCHANGED changes

\* mood_set_property, of which only the value is read anywhere.
SetProperty(n, v) ==
  LET k == LocateByName(list, n) IN
  IF k = 0 THEN Answer(1)
  ELSE /\ changes < MaxChanges /\ changes' = changes + 1
       /\ list' = [list EXCEPT ![k].value = v]
       /\ ret' = 0 /\ UNCHANGED gMood_Num

\* What mood_increase(k) adds to the mood at p, through k's edge to it.
Pull(l, k, p) ==
  IF PointsTo(l[k], l[p].id)
  THEN ValueIncrease * (CHOOSE e \in ToSet(l[k].edges) : e.dst = l[p].id).rel
  ELSE 0

\* mood_increase: only the mood itself is kept in range.
Raise(n) ==
  LET k == LocateByName(list, n) IN
  /\ k # 0 /\ changes < MaxChanges /\ changes' = changes + 1
  /\ list' = [p \in DOMAIN list |->
                [list[p] EXCEPT !.value =
                   IF p = k THEN Limit(@ + ValueIncrease * Unit, MinValue, MaxValue)
                   ELSE @ + Pull(list, k, p)]]
  /\ UNCHANGED <<gMood_Num, ret>>

-----------------------------------------------------------------------------
Next ==
  \/ \E n \in Names : Create(n) \/ Destroy(n) \/ Raise(n)
  \/ \E p \in Pairs : Unbind(p[1], p[2]) \/ \E r \in Rels : Bind(p[1], p[2], r)
  \/ \E n \in Names, v \in Values : SetProperty(n, v)

Spec == Init /\ [][Next]_vars

-----------------------------------------------------------------------------
Edge == [dst : 0 .. IdSpace - 1, rel : -Unit .. Unit]
Mood == [name : Names, id : 0 .. IdSpace - 1, edges : Seq(Edge), value : Int]

TypeOK ==
  /\ list \in Seq(Mood) /\ Len(list) > 0
  /\ gMood_Num \in 0 .. IdSpace - 1
  /\ ret \in 0 .. 3 /\ changes \in Nat

\* As long as there are fewer moods than ids, a mood's id is its place in the
\* list and gMood_Num their number, however many were destroyed in between: so an
\* id finds one mood, and the next mood gets an id nobody has.
IdIsPlace ==
  /\ gMood_Num = Len(list)
  /\ \A p \in DOMAIN list : list[p].id = p - 1

\* No two moods have one name, so that a name finds the mood it was given to; and
\* BASE is always there, at the place where the static mood is.
OneMoodPerName ==
  /\ \A p, q \in DOMAIN list : list[p].name = list[q].name => p = q
  /\ list[1].name = Base

\* Each mood is found under its id and under its name, and no other is.
EachMoodIsFound == IdIsPlace /\ OneMoodPerName

\* Every edge meets its partner: it leads to another mood, which has exactly one
\* edge back with the same relevance; so no edge dangles after a destroy and the
\* one-directional test of mood_bind and mood_unbind is enough.
EdgesMeet ==
  \A p \in DOMAIN list : \A e \in DOMAIN list[p].edges :
    \E q \in DOMAIN list \ {p} :
      /\ list[q].id = list[p].edges[e].dst
      /\ \E f \in DOMAIN list[q].edges :
           /\ list[q].edges[f] = [dst |-> list[p].id, rel |-> list[p].edges[e].rel]
           /\ \A g \in DOMAIN list[q].edges : list[q].edges[g].dst = list[p].id => g = f

-----------------------------------------------------------------------------
(* The inductive invariant behind them (MoodProofs)                        *)

\* A mood whatever the numbers in it.
AnyEdge == [dst : Int, rel : -Unit .. Unit]
AnyMood == [name : Names \ LongNames, id : Int, edges : Seq(AnyEdge), value : Int]

ListInv ==
  /\ list \in Seq(AnyMood) /\ Len(list) > 0
  /\ OneMoodPerName
  /\ gMood_Num \in 0 .. IdSpace - 1 /\ ret \in 0 .. 3 /\ changes \in Nat

\* There are fewer moods than ids.
FewMoods == Len(list) < IdSpace

\* No two edges of a mood lead to the same one, and each has its partner at the place its
\* id says.
Single(edges) == \A e, f \in DOMAIN edges : edges[e].dst = edges[f].dst => e = f
Partnered(l, p) ==
  \A x \in ToSet(l[p].edges) :
    /\ x.dst + 1 \in DOMAIN l \ {p}
    /\ [dst |-> p - 1, rel |-> x.rel] \in ToSet(l[x.dst + 1].edges)
Meet(l) == \A p \in DOMAIN l : Single(l[p].edges) /\ Partnered(l, p)
EdgeInv == Meet(list)

-----------------------------------------------------------------------------
(* The graph as its callers see it                                         *)

\* The moods of a list by name; the pairs its edges join, with the relevance of the edge;
\* and the value found under each name.
MoodsIn(l) == {l[p].name : p \in DOMAIN l}
BondsIn(l) ==
  UNION {{[ends |-> {l[p].name, l[q].name}, rel |-> e.rel] :
            e \in {x \in ToSet(l[p].edges) : x.dst = l[q].id}} : p, q \in DOMAIN l}
RelIn(l) ==
  [pair \in {bond.ends : bond \in BondsIn(l)} |->
     (CHOOSE bond \in BondsIn(l) : bond.ends = pair).rel]
ValueIn(l) == [n \in MoodsIn(l) |-> l[LocateByName(l, n)].value]

\* The graph implements the symmetric relation on names of MoodRelation: ids,
\* edges and their renumbering never show in what a caller sees.
Relation == INSTANCE MoodRelation WITH
  moods <- MoodsIn(list), rel <- RelIn(list), value <- ValueIn(list)
ImplementsMoodRelation == Relation!Spec
=============================================================================

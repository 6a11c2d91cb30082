---------------------------- MODULE MoodRelation ----------------------------
(***************************************************************************)
(* What the calls of wp_mood_sys.c mean, without lists, ids and pointers:  *)
(* a set of moods with values, and a relevance for every unordered pair    *)
(* that is bound.  The calls answer with the codes of the C functions.     *)
(***************************************************************************)
EXTENDS Integers

CONSTANTS Names, Base, LongNames, Pairs, Rels, Values,
          Unit, BaseValue, MinValue, MaxValue, ValueIncrease

VARIABLES
  moods,   \* the names of the moods that exist
  rel,     \* the relevance of every bound pair {a, b}
  value,   \* the value of every mood
  ret      \* the answer of the last call

state == <<moods, rel, value, ret>>

Limit(x, lo, hi) == IF x < lo THEN lo ELSE IF x > hi THEN hi ELSE x
Keep(f, S) == [x \in S |-> f[x]]
Extend(f, x, v) == [y \in DOMAIN f \cup {x} |-> IF y = x THEN v ELSE f[y]]
Answer(code) == ret' = code /\ UNCHANGED <<moods, rel, value>>

Init ==
  /\ moods = {Base} /\ rel = [pair \in {} |-> 0]
  /\ value = [n \in {Base} |-> BaseValue]
  /\ ret = 0

\* An unknown or too long name, with memory or without.
Create(n) ==
  LET refused == n \in LongNames \cup moods IN
  \/ refused /\ Answer(1)
  \/ ~refused /\ Answer(2)
  \/ /\ ~refused
     /\ moods' = moods \cup {n}
     /\ value' = Extend(value, n, BaseValue)
     /\ ret' = 0 /\ UNCHANGED rel

\* The mood goes with its own bonds, and with nothing else.
Destroy(n) ==
  \/ n \notin moods \ {Base} /\ Answer(1)
  \/ /\ n \in moods \ {Base}
     /\ moods' = moods \ {n}
     /\ rel' = Keep(rel, {p \in DOMAIN rel : n \notin p})
     /\ value' = Keep(value, moods')
     /\ ret' = 0

\* Binding is symmetric, so <<b, a>> is refused once <<a, b>> is bound.
Bind(a, b, r) ==
  LET there == {a, b} \subseteq moods
      bound == {a, b} \in DOMAIN rel IN
  \/ ~there /\ Answer(1)
  \/ bound /\ Answer(3)
  \/ there /\ ~bound /\ Answer(1)
  \/ /\ there /\ ~bound
     /\ rel' = Extend(rel, {a, b}, Limit(r, -Unit, Unit))
     /\ ret' = 0 /\ UNCHANGED <<moods, value>>

Unbind(a, b) ==
  \/ ~({a, b} \subseteq moods) /\ Answer(1)
  \/ {a, b} \subseteq moods /\ {a, b} \notin DOMAIN rel /\ Answer(2)
  \/ /\ {a, b} \in DOMAIN rel
     /\ rel' = Keep(rel, DOMAIN rel \ {{a, b}})
     /\ ret' = 0 /\ UNCHANGED <<moods, value>>

SetProperty(n, v) ==
  \/ n \notin moods /\ Answer(1)
  \/ /\ n \in moods
     /\ value' = [value EXCEPT ![n] = v]
     /\ ret' = 0 /\ UNCHANGED <<moods, rel>>

\* A mood rises and draws the moods bound to it along; only its own value is
\* kept in range.
Raise(n) ==
  /\ n \in moods
  /\ value' = [m \in moods |->
                 IF m = n THEN Limit(value[m] + ValueIncrease * Unit, MinValue, MaxValue)
                 ELSE IF {m, n} \in DOMAIN rel THEN value[m] + ValueIncrease * rel[{m, n}]
                 ELSE value[m]]
  /\ UNCHANGED <<moods, rel, ret>>

Next ==
  \/ \E n \in Names : Create(n) \/ Destroy(n) \/ Raise(n)
  \/ \E p \in Pairs : Unbind(p[1], p[2]) \/ \E r \in Rels : Bind(p[1], p[2], r)
  \/ \E n \in Names, v \in Values : SetProperty(n, v)

Spec == Init /\ [][Next]_state
=============================================================================

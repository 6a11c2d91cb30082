------------------------------- MODULE Utils --------------------------------
(***************************************************************************)
(* Two loops of Robot/src/wp_utils.c.  extract_first_int reads a number    *)
(* out of the text behind "count="; face_filter takes the largest of the   *)
(* faces that were detected, whose position the servo follows.  A text is  *)
(* a sequence of digits, minus signs and other characters; a face is its   *)
(* area, as the number face_filter computes from its box.                  *)
(***************************************************************************)
EXTENDS Integers, Sequences

CONSTANTS
  Digits,   \* the digits a text is made of
  MaxText,  \* bound on its length
  Areas,    \* of the faces
  MaxFaces  \* bound on their number

ASSUME UtilsAssumption ==
  /\ Digits \subseteq 0 .. 9 /\ Areas \subseteq Nat
  /\ {MaxText, MaxFaces} \subseteq Nat /\ MaxFaces < 256

VARIABLES
  str, num, sign, start, place,     \* extract_first_int; place is its i
  faces, max, maxArea, face         \* face_filter; face is its i

textVars == <<str, num, sign, start, place>>
faceVars == <<faces, max, maxArea, face>>
utilsVars == <<textVars, faceVars>>

Minus == -1
Other == -2
UpTo(n) == UNION {[1 .. k -> Digits \cup {Minus, Other}] : k \in 0 .. n}

UtilsInit ==
  /\ num = 0 /\ sign = 1 /\ start = 0 /\ place = 1
  /\ max = 1 /\ maxArea = 0 /\ face = 1
  /\ \/ str \in UpTo(MaxText) /\ faces = <<>>
     \/ str = <<>> /\ faces \in UNION {[1 .. k -> Areas] : k \in 0 .. MaxFaces}

\* A minus sign behind the number does not count.
MinusBefore == str[place] = Minus /\ start = 0

\* Behind the number the loop ends; start = 0 stands for -1.
Over == place > Len(str) \/ (start # 0 /\ str[place] \notin Digits)

ReadChar ==
  /\ place <= Len(str) /\ place' = place + 1
  /\ CASE MinusBefore -> sign' = -1 /\ UNCHANGED <<num, start>>
       [] str[place] \in Digits ->
            /\ num' = 10 * num + str[place]
            /\ start' = IF start = 0 THEN place ELSE start
            /\ UNCHANGED sign
       [] OTHER -> start = 0 /\ UNCHANGED <<num, sign, start>>
  /\ UNCHANGED <<str, faceVars>>

\* Of two faces of one size the first is taken.
Larger == maxArea < faces[face]

LookAtFace ==
  /\ face <= Len(faces) /\ face' = face + 1
  /\ IF Larger THEN max' = face /\ maxArea' = faces[face] ELSE UNCHANGED <<max, maxArea>>
  /\ UNCHANGED <<faces, textVars>>

UtilsNext == ReadChar \/ LookAtFace

UtilsSpec == UtilsInit /\ [][UtilsNext]_utilsVars

-----------------------------------------------------------------------------
\* The first run of digits in the text, and its value.
IsRun(i, j) ==
  /\ \A k \in i .. j : str[k] \in Digits
  /\ \A k \in 1 .. i - 1 : str[k] \notin Digits
  /\ j = Len(str) \/ str[j + 1] \notin Digits
Value(s, i, j) ==
  LET value[k \in 0 .. Len(s)] == IF k < i THEN 0 ELSE 10 * value[k - 1] + s[k]
  IN  value[j]

\* extract_first_int gives the value of the first run of digits, or zero; it is negative
\* with a minus sign before it, which need not be next to it, and never by a later one.
FirstInt ==
  Over =>
    IF \A k \in DOMAIN str : str[k] \notin Digits THEN sign * num = 0
    ELSE \E i, j \in DOMAIN str :
           /\ IsRun(i, j)
           /\ sign * num = IF \E k \in 1 .. i - 1 : str[k] = Minus THEN -Value(str, i, j) ELSE Value(str, i, j)

\* face_filter gives the first of the largest faces: the servo does not change between
\* two faces of one size.
LargestFace ==
  face > Len(faces) =>
    /\ \A f \in DOMAIN faces : faces[f] <= maxArea
    /\ faces # <<>> /\ maxArea > 0 => faces[max] = maxArea /\ \A f \in 1 .. max - 1 : faces[f] < maxArea

\* The inductive invariant behind FirstInt (MoodProofs): the number is the value of the
\* digits read since start, and the sign that of what is before them.
Before == IF start = 0 THEN place - 1 ELSE start - 1
TextInv ==
  /\ str \in Seq(Digits \cup {Minus, Other}) /\ num \in Nat
  /\ place \in 1 .. Len(str) + 1 /\ start \in 0 .. place - 1
  /\ \A k \in 1 .. Before : str[k] \notin Digits
  /\ \A k \in Before + 1 .. place - 1 : str[k] \in Digits
  /\ num = IF start = 0 THEN 0 ELSE Value(str, start, place - 1)
  /\ sign = IF \E k \in 1 .. Before : str[k] = Minus THEN -1 ELSE 1

\* The inductive invariant behind LargestFace (MoodProofs): the same of the faces looked at.
FaceInv ==
  /\ faces \in Seq(Nat) /\ face \in 1 .. Len(faces) + 1 /\ max \in Nat /\ maxArea \in Nat
  /\ \A f \in 1 .. face - 1 : faces[f] <= maxArea
  /\ maxArea > 0 => max \in 1 .. face - 1 /\ faces[max] = maxArea
  /\ \A f \in 1 .. max - 1 : faces[f] < maxArea
=============================================================================

---------------------------- MODULE PixelScreen ----------------------------
(***************************************************************************)
(* What the drawing functions of the OLED driver promise: a screen is a    *)
(* set of lit pixels, an image replaces what its rectangle showed, what    *)
(* lies beyond the edge of the screen is dropped, and a number appears as  *)
(* its decimal digits, rounded to the nearest that has so many of them.    *)
(***************************************************************************)
EXTENDS Integers, Sequences

CONSTANTS
  Width, Height,  \* of the screen in pixels
  Images,         \* records of a width w, a height h and the lit pixels of an image
  Spots,          \* where an image is put
  Glyph,          \* the images of the characters, by their codes
  Numbers,        \* numbers to show, in thousandths
  IntDigits, FraDigits  \* digits before and behind the point

VARIABLE pixels

Screen == (0 .. Width - 1) \X (0 .. Height - 1)
Rect(x, y, w, h) == (x .. x + w - 1) \X (y .. y + h - 1)

Put(lit, spot, image) ==
  (lit \ Rect(spot[1], spot[2], image.w, image.h))
    \cup ({<<spot[1] + p[1], spot[2] + p[2]>> : p \in image.lit} \cap Screen)

\* The number of 10^-FraDigits that is nearest to n thousandths, and its digits.
Abs(n) == IF n < 0 THEN -n ELSE n
Unit == 1000 \div 10^FraDigits
Nearest(n) ==
  CHOOSE m \in 0 .. Abs(n) \div Unit + 1 :
    LET off == 2 * (m * Unit - Abs(n)) IN -Unit < off /\ off <= Unit
Plus == 43
Minus == 45
Point == 46
DigitOf(m, i) == 48 + ((m \div 10^i) % 10)
Text(n) ==
  <<IF n < 0 THEN Minus ELSE Plus>>
    \o [i \in 1 .. IntDigits |-> DigitOf(Nearest(n) \div 10^FraDigits, IntDigits - i)]
    \o <<Point>>
    \o [i \in 1 .. FraDigits |-> DigitOf(Nearest(n), FraDigits - i)]

PutText(lit, spot, text) ==
  LET behind[i \in 0 .. Len(text)] ==
        IF i = 0 THEN lit
        ELSE Put(behind[i - 1], <<spot[1] + (i - 1) * Glyph[Point].w, spot[2]>>, Glyph[text[i]])
  IN  behind[Len(text)]

Init == pixels = {}

Clear == pixels' = {}
Full == pixels' = {p \in Screen : p[2] % 2 = 1}
Draw == \E image \in Images, spot \in Spots : pixels' = Put(pixels, spot, image)
Show == \E n \in Numbers, spot \in Spots : pixels' = PutText(pixels, spot, Text(n))

Next == Clear \/ Full \/ Draw \/ Show

Spec == Init /\ [][Next]_pixels
=============================================================================

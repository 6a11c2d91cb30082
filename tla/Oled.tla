-------------------------------- MODULE Oled --------------------------------
(***************************************************************************)
(* freertos/duo_oled/duo_oled.c: drawing into oled_disbuf, where a byte is *)
(* eight pixels of a column, and oled_update, which sends it page by page  *)
(* to the display over the software I2C.  A byte is the set of its bits.   *)
(* The display is external (page addressing: data goes to the column of    *)
(* its cursor and moves it).  A byte that the display does not answer ends *)
(* the transfer for it, as SoftI2C shows, and nobody in the driver looks.  *)
(***************************************************************************)
EXTENDS Integers, Sequences

CONSTANTS
  Columns, Pages,      \* 128 and 8
  Images,              \* records of a width w, a height h and the bytes of an image
  Spots,               \* where an image is put
  Font,                \* OLED_F8x16: the images of the characters
  Numbers,             \* numbers shown, in thousandths
  IntLength, FraLength,
  MaxDraw, MaxUpdate, MaxLost  \* bounds on drawings, updates and lost transfers

\* '+', '-', '.' and the digits.
Characters == {43, 45, 46} \cup 48 .. 57

\* An image: strips of eight rows, one byte for each column of a strip.
IsImage(image) ==
  /\ {image.w, image.h} \subseteq Nat /\ image.h > 0 /\ image.h % 8 = 0
  /\ \A j \in 0 .. (image.h - 1) \div 8, d \in 0 .. image.w - 1 :
       image.bytes[j * image.w + d + 1] \subseteq 0 .. 7

ASSUME OledAssumption ==
  /\ {Columns, Pages, MaxDraw, MaxUpdate, MaxLost} \subseteq Nat /\ Columns \in 1 .. 128 /\ Pages \in 1 .. 8
  /\ \A image \in Images : IsImage(image)
  /\ Characters \subseteq DOMAIN Font /\ \A char \in Characters : IsImage(Font[char])
  /\ Spots \subseteq Nat \X Nat /\ Numbers \subseteq Int
  /\ IntLength \in 0 .. 10 /\ FraLength \in 0 .. 3  \* a power of ten has 32 bits

VARIABLES
  oled_disbuf,
  display,      \* what the display shows
  cursor,       \* its page and column
  updating,     \* where oled_update is: a page and a transfer of it
  whole,        \* every byte of the update was answered
  upToDate,     \* history: nothing was drawn or sent since a whole update
  draws, updates, losses

oledVars == <<oled_disbuf, display, cursor, updating, whole, upToDate, draws, updates, losses>>
displayVars == <<display, cursor, updating, whole, updates, losses>>

Page == 0 .. Pages - 1
Column == 0 .. Columns - 1
NotUpdating == <<Pages, "none">>

-----------------------------------------------------------------------------
(* Drawing                                                                 *)

\* The pixels of a column and page that lie in the rectangle.
InArea(p, c, X, Y, w, h) == {b \in 0 .. 7 : c \in X .. X + w - 1 /\ 8 * p + b \in Y .. Y + h - 1}

clear_area(buf, X, Y, w, h) ==
  [p \in Page |-> [c \in Column |-> buf[p][c] \ InArea(p, c, X, Y, w, h)]]

\* What of a strip of the image falls into the page below the one it starts in.  A slip:
\* one row too far.
CarryLong(bits, shift) == {b + shift - 7 : b \in {r \in bits : r + shift > 6}}
Carry(bits, shift) == {b + shift - 8 : b \in {r \in bits : r + shift > 7}}

\* What stays in the page.
Stay(bits, shift) == {b + shift : b \in {r \in bits : r + shift <= 7}}

show_image(buf, X, Y, image) ==
  LET shift == Y % 8
      strip(j, c) == IF j \in 0 .. (image.h - 1) \div 8 /\ c \in X .. X + image.w - 1
                       THEN image.bytes[j * image.w + (c - X) + 1] ELSE {}
      cleared == clear_area(buf, X, Y, image.w, image.h)
  IN  [p \in Page |-> [c \in Column |->
        cleared[p][c] \cup Stay(strip(p - Y \div 8, c), shift) \cup Carry(strip(p - Y \div 8 - 1, c), shift)]]

FontSize == Font[46].w
show_char(buf, X, Y, char) == show_image(buf, X % 256, Y, Font[char])

oled_pow(X, Y) ==
  LET Result[y \in 0 .. Y] == IF y = 0 THEN 1 ELSE Result[y - 1] * X IN Result[Y]

\* The buffer behind the first i digits.
show_num(buf, X, Y, number, length) ==
  LET shown[i \in 0 .. length] ==
        IF i = 0 THEN buf
        ELSE show_char(shown[i - 1], X + (i - 1) * FontSize, Y,
                       48 + ((number \div oled_pow(10, length - i)) % 10))
  IN  shown[length]

\* A slip: what is rounded up to a whole is not carried.
NoCarry(int, fra) == int
RoundedInt(int, fra) == int + fra \div oled_pow(10, FraLength)

show_floatnum(buf, X, Y, number) ==
  LET size == IF number < 0 THEN -number ELSE number
      fra == ((size % 1000) * oled_pow(10, FraLength) + 500) \div 1000
      signed == show_char(buf, X, Y, IF number < 0 THEN 45 ELSE 43)
      int == show_num(signed, X + FontSize, Y, RoundedInt(size \div 1000, fra), IntLength)
      point == show_char(int, X + (IntLength + 1) * FontSize, Y, 46)
  IN  show_num(point, X + (IntLength + 2) * FontSize, Y, fra, FraLength)

-----------------------------------------------------------------------------
OledInit ==
  /\ oled_disbuf = [p \in Page |-> [c \in Column |-> {}]]
  /\ display = oled_disbuf /\ cursor = <<0, 0>>
  /\ updating = NotUpdating /\ whole = TRUE /\ upToDate = FALSE
  /\ draws = 0 /\ updates = 0 /\ losses = 0

\* The buffer is an array, and keeps its size.
Drawn(buf) ==
  /\ updating = NotUpdating /\ draws < MaxDraw
  /\ oled_disbuf' = [p \in Page |-> [c \in Column |-> buf[p][c]]]
  /\ draws' = draws + 1 /\ upToDate' = FALSE
  /\ UNCHANGED displayVars

oled_clear == Drawn([p \in Page |-> [c \in Column |-> {}]])
oled_full == Drawn([p \in Page |-> [c \in Column |-> {1, 3, 5, 7}]])
oled_show_image == \E image \in Images, s \in Spots : Drawn(show_image(oled_disbuf, s[1], s[2], image))
oled_show_floatnum == \E n \in Numbers, s \in Spots : Drawn(show_floatnum(oled_disbuf, s[1], s[2], n))

oled_update ==
  /\ updating = NotUpdating /\ updates < MaxUpdate
  /\ updating' = <<0, "page">> /\ whole' = TRUE /\ updates' = updates + 1
  /\ upToDate' = FALSE
  /\ UNCHANGED <<oled_disbuf, display, cursor, draws, losses>>

\* A transfer is answered, or lost from some byte on.
Answered == UNCHANGED <<whole, losses>>
Lost == losses < MaxLost /\ losses' = losses + 1 /\ whole' = FALSE

\* The three commands of oled_set_cursor: the page, the high and the low part of the
\* column.  A slip: the page is set once.
SetPageOnce(j) == IF j = 0 THEN 0 ELSE cursor[1]
SetPage(j) == j

SetCursor ==
  /\ updating[2] \in {"page", "high", "low"}
  /\ LET j == updating[1]
         col == cursor[2]
     IN  \/ /\ Answered
            /\ cursor' = CASE updating[2] = "page" -> <<SetPage(j), col>>
                           [] updating[2] = "high" -> <<cursor[1], col % 16>>
                           [] updating[2] = "low" -> <<cursor[1], col - (col % 16)>>
         \/ Lost /\ UNCHANGED cursor
  /\ updating' = <<updating[1], CASE updating[2] = "page" -> "high"
                                  [] updating[2] = "high" -> "low"
                                  [] updating[2] = "low" -> "data">>
  /\ UNCHANGED <<oled_disbuf, display, upToDate, draws, updates>>

\* oled_w_bytes sends the page; the first n bytes arrive.
SendPage ==
  /\ updating[2] = "data"
  /\ \E n \in 0 .. Columns :
       /\ IF n = Columns THEN Answered ELSE Lost
       /\ display' = [display EXCEPT ![cursor[1]] =
            [c \in Column |-> LET k == (c - cursor[2] + Columns) % Columns
                              IN  IF k < n THEN oled_disbuf[updating[1]][k] ELSE @[c]]]
       /\ cursor' = <<cursor[1], (cursor[2] + n) % Columns>>
  /\ IF updating[1] = Pages - 1
       THEN updating' = NotUpdating /\ upToDate' = whole'
       ELSE updating' = <<updating[1] + 1, "page">> /\ UNCHANGED upToDate
  /\ UNCHANGED <<oled_disbuf, draws, updates>>

OledNext ==
  \/ oled_clear \/ oled_full \/ oled_show_image \/ oled_show_floatnum
  \/ oled_update \/ SetCursor \/ SendPage

OledSpec == OledInit /\ [][OledNext]_oledVars

-----------------------------------------------------------------------------
\* The ranges; no drawing leaves a bit outside a byte or a byte outside the buffer.
OledTypeOK ==
  /\ oled_disbuf \in [Page -> [Column -> SUBSET (0 .. 7)]]
  /\ display \in [Page -> [Column -> SUBSET (0 .. 7)]]
  /\ cursor \in Page \X Column
  /\ updating[1] \in 0 .. Pages /\ {whole, upToDate} \subseteq BOOLEAN
  /\ draws \in 0 .. MaxDraw /\ updates \in 0 .. MaxUpdate /\ losses \in 0 .. MaxLost

\* An update whose bytes are all answered brings the whole buffer to the display,
\* whatever was lost in the updates before and wherever they left the cursor.
UpdateShows == upToDate => display = oled_disbuf

\* Pixel for pixel the buffer shows the images and the numbers that were drawn last, at
\* every row a page is split at and over every edge.
PixelImage(image) ==
  [w |-> image.w, h |-> image.h,
   lit |-> {q \in (0 .. image.w - 1) \X (0 .. image.h - 1) :
              q[2] % 8 \in image.bytes[(q[2] \div 8) * image.w + q[1] + 1]}]

Shown(buf) == {q \in Column \X (0 .. 8 * Pages - 1) : q[2] % 8 \in buf[q[2] \div 8][q[1]]}

Pixels == INSTANCE PixelScreen WITH
  Width <- Columns, Height <- 8 * Pages,
  Images <- {PixelImage(image) : image \in Images},
  Glyph <- [char \in DOMAIN Font |-> PixelImage(Font[char])],
  IntDigits <- IntLength, FraDigits <- FraLength,
  pixels <- Shown(oled_disbuf)

ImplementsPixels == Pixels!Spec

\* The columns of a number are counted in a byte.
TextsFit == \A s \in Spots : s[1] + (IntLength + FraLength + 1) * FontSize < 256

-----------------------------------------------------------------------------
(* The inductive invariant behind UpdateShows (SmallCoreProofs)            *)

Stages == {"page", "high", "low", "data"}

\* Both are full arrays of bytes.
OledRanges ==
  /\ oled_disbuf = [p \in Page |-> [c \in Column |-> oled_disbuf[p][c]]]
  /\ display = [p \in Page |-> [c \in Column |-> display[p][c]]]
  /\ cursor \in Page \X Column /\ updating \in (Page \X Stages) \cup {NotUpdating}
  /\ {whole, upToDate} \subseteq BOOLEAN

\* An update answered so far has brought the pages before this one, and the commands of
\* oled_set_cursor have put the cursor where they say.
UpdateInv ==
  /\ updating # NotUpdating => ~upToDate
  /\ updating # NotUpdating /\ whole => \A p \in Page : p < updating[1] => display[p] = oled_disbuf[p]
  /\ updating # NotUpdating /\ whole /\ updating[2] # "page" => cursor[1] = updating[1]
  /\ updating # NotUpdating /\ whole /\ updating[2] = "low" => cursor[2] < 16
  /\ updating # NotUpdating /\ whole /\ updating[2] = "data" => cursor[2] = 0

OledInv == OledRanges /\ UpdateInv /\ UpdateShows
=============================================================================

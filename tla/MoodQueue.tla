----------------------------- MODULE MoodQueue ------------------------------
(***************************************************************************)
(* The circular queue of study/wp_mood_system/wp_mood_queue.c: an array    *)
(* with a place to read from, a place to write to and a size, all bytes.   *)
(* A write takes all of its bytes or none, and so does a read; each byte   *)
(* is a step.  circular_queue_write and circular_queue_read are not safe   *)
(* against each other, so one runs after the other.                        *)
(***************************************************************************)
EXTENDS Naturals, Sequences, SequencesExt

CONSTANTS
  MaxQueue,   \* MAX_SIZE
  Bytes,      \* what is written
  Lengths,    \* len, of a write or a read
  ByteSpace,  \* 256
  MaxMoves    \* bound on the calls

ASSUME QueueAssumption ==
  /\ {ByteSpace, MaxMoves} \subseteq Nat /\ MaxQueue \in 1 .. ByteSpace - 1
  /\ Lengths \subseteq 0 .. ByteSpace - 1 /\ Bytes # {}

VARIABLES
  data, front, rear, used,  \* used: size
  moving,    \* the call under way, and how many of its bytes are left
  buffer,    \* of the call: what is left to write, or what was read
  moves,     \* calls so far
  answer     \* of the last call

queueVars == <<data, front, rear, used, moving, buffer, moves, answer>>

Slots == 0 .. MaxQueue - 1
Byte0 == CHOOSE b \in Bytes : TRUE

QueueInit ==
  /\ data = [s \in Slots |-> Byte0] /\ front = 0 /\ rear = 0 /\ used = 0
  /\ moving = <<"none", 0>> /\ buffer = <<>> /\ moves = 0 /\ answer = TRUE

haduse == used
\* A slip: one more than there is.
nouse_One == (MaxQueue - used + 1) % ByteSpace
nouse == (MaxQueue - used) % ByteSpace

\* A slip: the place is not taken round.
AfterEnd(place) == (place + 1) % ByteSpace
After(place) == (place + 1) % MaxQueue

QueueCall ==
  /\ moving[1] = "none" /\ moves < MaxMoves /\ moves' = moves + 1
  /\ UNCHANGED <<data, front, rear, used>>

WriteCall ==
  \E len \in Lengths : \E bytes \in [1 .. len -> Bytes] :
    /\ QueueCall
    /\ IF nouse < len THEN answer' = FALSE /\ UNCHANGED <<moving, buffer>>
       ELSE answer' = TRUE /\ moving' = <<"write", len>> /\ buffer' = bytes

ReadCall ==
  \E len \in Lengths :
    /\ QueueCall
    /\ IF haduse < len THEN answer' = FALSE /\ UNCHANGED <<moving, buffer>>
       ELSE answer' = TRUE /\ moving' = <<"read", len>> /\ buffer' = <<>>

WriteByte ==
  /\ moving[1] = "write" /\ moving[2] > 0
  /\ data' = [s \in Slots |-> IF s = rear THEN Head(buffer) ELSE data[s]]
  /\ rear' = After(rear) /\ used' = used + 1
  /\ moving' = <<"write", moving[2] - 1>> /\ buffer' = Tail(buffer)
  /\ UNCHANGED <<front, moves, answer>>

ReadByte ==
  /\ moving[1] = "read" /\ moving[2] > 0
  /\ buffer' = Append(buffer, data[front])
  /\ front' = After(front) /\ used' = used - 1
  /\ moving' = <<"read", moving[2] - 1>>
  /\ UNCHANGED <<data, rear, moves, answer>>

CallReturns ==
  /\ moving[1] # "none" /\ moving[2] = 0
  /\ moving' = <<"none", 0>> /\ buffer' = <<>>
  /\ UNCHANGED <<data, front, rear, used, moves, answer>>

QueueNext == WriteCall \/ ReadCall \/ WriteByte \/ ReadByte \/ CallReturns

QueueSpec == QueueInit /\ [][QueueNext]_queueVars

-----------------------------------------------------------------------------
\* Where the byte is that is k bytes behind the front.
Slot(k) == (front + k) % MaxQueue

\* The ranges: no place is behind the array, and the size is the way from front to rear.
QueueTypeOK ==
  /\ data \in [Slots -> Bytes] /\ {front, rear} \subseteq Slots
  /\ used \in 0 .. MaxQueue /\ Slot(used) = rear
  /\ moving[1] \in {"none", "read", "write"} /\ moving[2] \in 0 .. ByteSpace - 1
  /\ moves \in 0 .. MaxMoves /\ answer \in BOOLEAN

\* The bytes wait in the order they were written in, however often the places went round:
\* the queue implements a sequence that is bounded.
Waiting == [i \in 1 .. used |-> data[Slot(i - 1)]]

Fifo == INSTANCE ByteFifo WITH Capacity <- MaxQueue, waiting <- Waiting

ImplementsFifo == Fifo!Spec

\* The inductive invariant behind it (MoodProofs): a write under way has room for the bytes
\* it has left, and a read finds as many as it wants.
QueueInv ==
  /\ data \in [Slots -> Bytes] /\ front \in Slots /\ used \in 0 .. MaxQueue
  /\ rear = Slot(used)
  /\ moving \in {"none", "read", "write"} \X (0 .. ByteSpace - 1) /\ buffer \in Seq(Bytes)
  /\ moving[1] = "write" => Len(buffer) = moving[2] /\ moving[2] + used <= MaxQueue
  /\ moving[1] = "read" => moving[2] <= used
=============================================================================

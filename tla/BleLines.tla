------------------------------- MODULE BleLines -------------------------------
(***************************************************************************)
(* How a line of the host reaches the parser of the device: the host       *)
(* writes it in pieces, a callback of the BLE stack pushes the bytes of a  *)
(* piece into a ring (ble_bridge.cpp), the loop takes them out one by one  *)
(* and cuts them into lines at the ends of lines (dataPoll in data.h).     *)
(* Neither the ring nor the buffer of the line is emptied when a           *)
(* connection ends.  A byte is a pair of the line it belongs to and its    *)
(* place in it: 1 is "{", Length is "}", Length + 1 ends the line.         *)
(***************************************************************************)
EXTENDS Integers, Sequences

CONSTANTS
  Length,    \* bytes of a line
  Piece,     \* the most bytes of a write of the host
  RX_CAP,    \* the ring holds one byte less
  LineCap,   \* the most bytes of a line the device keeps
  MaxLines,  \* bound: lines the host sends
  MaxCuts    \* bound: writes that fail in the middle of a line

ASSUME LinesAssumption ==
  /\ {Length, Piece, RX_CAP, LineCap, MaxLines} \subseteq Nat \ {0}
  /\ Length > 1 /\ RX_CAP > 1 /\ MaxCuts \in Nat

VARIABLES
  next,              \* the byte the host sends next
  piece,             \* what rxPush has not pushed yet of a write
  rxBuf, rxHead, rxTail,
  btLine,            \* _btLine
  heard,             \* the lines that were parsed
  unsent, dropped,   \* bytes the host gave up, bytes that found the ring full
  cuts

lineVars == <<next, piece, rxBuf, rxHead, rxTail, btLine, heard, unsent, dropped, cuts>>

Lines == 1..MaxLines
Byte == Lines \X (1..(Length + 1))
EndsLine(byte) == byte[2] = Length + 1
WholeLine(line) == [i \in 1..Length |-> <<line, i>>]

\* For comparison: a parser that is content with the opening brace.
OpensWell(text) == text[1][2] = 1

(* deserializeJson of a line whose second byte is a quote: another opening *)
(* brace in it, or a missing closing one, is an error.  A line that only   *)
(* lacks bytes in the middle may well be read.                             *)
Readable(text) ==
  /\ \A i \in DOMAIN text : text[i][2] = 1 <=> i = 1
  /\ text[Len(text)][2] = Length

(***************************************************************************)
(* The host.                                                               *)
(***************************************************************************)

After(byte) == IF EndsLine(byte) THEN <<byte[1] + 1, 1>> ELSE <<byte[1], byte[2] + 1>>

(* A write of the helper, of one line; onWrite is called with it.          *)
Write ==
  /\ piece = << >> /\ next[1] \in Lines
  /\ \E n \in 1..Piece :
       /\ next[2] + n - 1 <= Length + 1
       /\ piece' = [i \in 1..n |-> <<next[1], next[2] + i - 1>>]
       /\ next' = After(<<next[1], next[2] + n - 1>>)
  /\ UNCHANGED <<rxBuf, rxHead, rxTail, btLine, heard, unsent, dropped, cuts>>

(* A write fails, or the connection ends: the rest of the line is never    *)
(* sent, and the next one starts at its beginning.                         *)
CutLine ==
  /\ piece = << >> /\ next[1] \in Lines /\ next[2] > 1 /\ cuts < MaxCuts
  /\ unsent' = unsent \cup {<<next[1], i>> : i \in next[2]..(Length + 1)}
  /\ next' = <<next[1] + 1, 1>> /\ cuts' = cuts + 1
  /\ UNCHANGED <<piece, rxBuf, rxHead, rxTail, btLine, heard, dropped>>

(***************************************************************************)
(* The task of the BLE stack and the loop of the device.                   *)
(***************************************************************************)

(* rxPush, a byte at a time: the loop may run between any two of them.     *)
RxPush ==
  /\ piece # << >>
  /\ LET head == (rxHead + 1) % RX_CAP
     IN  IF head = rxTail
         THEN /\ dropped' = dropped \cup {piece[i] : i \in DOMAIN piece}
              /\ piece' = << >> /\ UNCHANGED <<rxBuf, rxHead>>
         ELSE /\ rxBuf' = [rxBuf EXCEPT ![rxHead] = Head(piece)]
              /\ rxHead' = head /\ piece' = Tail(piece) /\ UNCHANGED dropped
  /\ UNCHANGED <<next, rxTail, btLine, heard, unsent, cuts>>

Available == (rxHead + RX_CAP - rxTail) % RX_CAP

(* A turn of dataPoll's loop: bleRead, and what becomes of the byte.       *)
PollByte ==
  /\ Available > 0
  /\ LET byte == rxBuf[rxTail]
     IN  IF EndsLine(byte)
         THEN /\ btLine' = << >>
              /\ IF btLine # << >> /\ Readable(btLine)
                 THEN heard' = Append(heard, btLine) ELSE UNCHANGED heard
         ELSE /\ btLine' = IF Len(btLine) < LineCap THEN Append(btLine, byte) ELSE btLine
              /\ UNCHANGED heard
  /\ rxTail' = (rxTail + 1) % RX_CAP
  /\ UNCHANGED <<next, piece, rxBuf, rxHead, unsent, dropped, cuts>>

LinesInit ==
  /\ next = <<1, 1>> /\ piece = << >>
  /\ rxBuf = [i \in 0..(RX_CAP - 1) |-> <<1, 1>>] /\ rxHead = 0 /\ rxTail = 0
  /\ btLine = << >> /\ heard = << >> /\ unsent = {} /\ dropped = {} /\ cuts = 0

LinesNext == Write \/ CutLine \/ RxPush \/ PollByte
LinesSpec == LinesInit /\ [][LinesNext]_lineVars

(***************************************************************************)
(* Correctness.                                                            *)
(***************************************************************************)

Lost == unsent \cup dropped
InRing == {rxBuf[(rxTail + i) % RX_CAP] : i \in 0..(Available - 1)}
Passed(byte) ==
  /\ byte \notin Lost \cup InRing \cup {piece[i] : i \in DOMAIN piece}
  /\ byte[1] < next[1] \/ (byte[1] = next[1] /\ byte[2] < next[2])

LinesTypeOK ==
  /\ next \in (1..(MaxLines + 1)) \X (1..(Length + 1))
  /\ {rxHead, rxTail} \subseteq 0..(RX_CAP - 1) /\ rxBuf \in [0..(RX_CAP - 1) -> Byte]
  /\ Len(btLine) <= LineCap /\ unsent \cup dropped \subseteq Byte /\ cuts \in 0..MaxCuts

(* A lost write costs at most the line it belongs to and the one after it: *)
(* a line that arrived, with the end of the line before it, was parsed,    *)
(* once, although half lines stay in the buffer over the end of a          *)
(* connection (PollByte drops a line that does not parse as a whole).      *)
LossIsLocal ==
  \A line \in Lines :
    (/\ \A i \in 1..(Length + 1) : Passed(<<line, i>>)
     /\ line > 1 => Passed(<<line - 1, Length + 1>>)) =>
      \E k \in DOMAIN heard :
        /\ heard[k] = WholeLine(line)
        /\ \A j \in DOMAIN heard : heard[j] = WholeLine(line) => j = k

(* Lines are parsed in the order in which they were sent, and one that is  *)
(* not what the host sent has lost a byte to a full ring: a connection     *)
(* that ends never makes one line of two.                                  *)
HeardWasSent ==
  /\ \A k \in DOMAIN heard :
       \/ \E line \in Lines : heard[k] = WholeLine(line)
       \/ \E byte \in dropped : byte[1] \in heard[k][1][1]..heard[k][Len(heard[k])][1]
  /\ \A j, k \in DOMAIN heard : j < k => heard[j][Len(heard[j])][1] < heard[k][1][1]
==============================================================================

------------------------------- MODULE Frames --------------------------------
(***************************************************************************)
(* protocol/continuous/parser.py and checksum.py: what is made of one line *)
(* of an analyser that broadcasts.                                         *)
(*                                                                         *)
(* A frame is <sp>date;N;(id;value;)*CKSUM; with a two-field header and    *)
(* two-field blocks for the five and eight of the code; the checksum has   *)
(* HexLen digits of base Base for four of base 16.  Bytes are the numbers  *)
(* of a small alphabet.  A frame that is refused raises a ServomexError.   *)
(***************************************************************************)
EXTENDS Integers, Sequences, SequencesExt, FiniteSets

CONSTANTS
  Base,       \* of the checksum's digits
  HexLen,     \* CHECKSUM_HEX_LEN
  Channels,   \* ids the parser knows: digits
  Broadcasts  \* what the analyser says: a date and its readings

Digit(d) == d + 1
Space == Base + 1
Semi == Base + 2
Return == Base + 3 \* CR or LF
Other == Base + 4
Bytes == 1..Other

Digits == {Digit(d) : d \in 0..(Base - 1)}

Power(n) == LET to[k \in 0..n] == IF k = 0 THEN 1 ELSE to[k - 1] * Base IN to[n]

Modulus == Power(HexLen)

\* A byte is below the modulus, as 255 is below 2^16; the number of readings is
\* a header field, and so a digit.
ASSUME FramesAssumption ==
  /\ Base \in Nat /\ Base > 1 /\ HexLen \in Nat \ {0}
  /\ Other < Modulus
  /\ Channels \subseteq 0..(Base - 1)
  /\ \A b \in Broadcasts :
       /\ b.date \in 0..(Base - 1)
       /\ b.readings \in Seq([channel : Channels, value : 0..(Base - 1)])
       /\ Len(b.readings) < Base

-----------------------------------------------------------------------------
\* checksum.py

Sum(s) ==
  LET upto[n \in 0..Len(s)] == IF n = 0 THEN 0 ELSE upto[n - 1] + s[n]
  IN  upto[Len(s)]

Compute(body) == Sum(body) % Modulus

ChecksummedBody(c) == SubSeq(c, 2, Len(c) - HexLen - 1)

ChecksumField(c) ==
  SubSeq(c, IF Len(c) > HexLen THEN Len(c) - HexLen ELSE 1, Len(c) - 1)

\* int(field, base) takes spaces around the digits.
Strip(s) ==
  LET inside == {i \in DOMAIN s : s[i] # Space}
  IN  IF inside = {} THEN <<>>
      ELSE SubSeq(s, CHOOSE i \in inside : \A j \in inside : i <= j,
                     CHOOSE i \in inside : \A j \in inside : j <= i)

IsNumber(s) == Strip(s) # <<>> /\ \A i \in DOMAIN Strip(s) : Strip(s)[i] \in Digits

Value(digits) ==
  LET upto[n \in 0..Len(digits)] ==
        IF n = 0 THEN 0 ELSE upto[n - 1] * Base + digits[n] - 1
  IN  upto[Len(digits)]

Number(s) == Value(Strip(s))

\* Mutant of Verified: the recomputed value is never compared.
VerifiedHexOnly(c) == IsNumber(ChecksumField(c))

Verified(c) ==
  /\ IsNumber(ChecksumField(c))
  /\ Number(ChecksumField(c)) = Compute(ChecksummedBody(c))

-----------------------------------------------------------------------------
\* parse_frame

HeaderFields == 2
BlockFields == 2
TrailerFields == 2

\* The line without the CR LF at its end.
Content(raw) ==
  LET inside == {i \in DOMAIN raw : raw[i] # Return}
  IN  IF inside = {} THEN <<>>
      ELSE SubSeq(raw, 1, CHOOSE i \in inside : \A j \in inside : j <= i)

\* A field ends at a semicolon, the last one behind the last byte.
Ends(s) == {i \in DOMAIN s : s[i] = Semi} \cup {Len(s) + 1}
End(s, k) == CHOOSE i \in Ends(s) : Cardinality({j \in Ends(s) : j < i}) = k - 1

Split(s) ==
  [k \in 1..Cardinality(Ends(s)) |->
    SubSeq(s, IF k = 1 THEN 1 ELSE End(s, k - 1) + 1, End(s, k) - 1)]

Fields(raw) == Split(Tail(Content(raw)))

Started(c) == c # <<>> /\ Head(c) = Space

\* Enough fields, and the empty one behind the closing semicolon.
Terminated(fields) ==
  Len(fields) >= HeaderFields + TrailerFields /\ Last(fields) = <<>>

\* As many blocks as the header says.
Counted(fields) ==
  /\ IsNumber(fields[HeaderFields])
  /\ Len(fields) =
       HeaderFields + BlockFields * Number(fields[HeaderFields]) + TrailerFields

BlockNumbers(fields) == 1..Number(fields[HeaderFields])
BlockField(fields, i, f) == fields[HeaderFields + BlockFields * (i - 1) + f]
ChannelId(fields, i) == BlockField(fields, i, 1)

Accepted(raw) ==
  /\ Started(Content(raw))
  /\ Verified(Content(raw))
  /\ Terminated(Fields(raw))
  /\ Counted(Fields(raw))
  /\ \A i \in BlockNumbers(Fields(raw)) :
       /\ IsNumber(ChannelId(Fields(raw), i))
       /\ Number(ChannelId(Fields(raw), i)) \in Channels

\* A date or a value that is no number is None.
OrNone(s) == IF IsNumber(s) THEN {Number(s)} ELSE {}

Says(raw) ==
  [date |-> OrNone(Fields(raw)[1]),
   readings |-> [i \in BlockNumbers(Fields(raw)) |->
     [channel |-> Number(ChannelId(Fields(raw), i)),
      value |-> OrNone(BlockField(Fields(raw), i, 2))]]]

-----------------------------------------------------------------------------
\* The analyser and the line

\* A value is padded on its left.
Block(r) == <<Digit(r.channel), Semi, Space, Digit(r.value), Semi>>

BlockBytes == 5

Body(b) ==
  <<Digit(b.date), Semi, Digit(Len(b.readings)), Semi>>
    \o [j \in 1..(BlockBytes * Len(b.readings)) |->
         Block(b.readings[((j - 1) \div BlockBytes) + 1])[((j - 1) % BlockBytes) + 1]]

Checksum(n) == [i \in 1..HexLen |-> Digit((n \div Power(HexLen - i)) % Base)]

\* What is sent: the start space, what is summed, the checksum and the end.
Framed(body, field, last) == <<Space>> \o body \o field \o <<last>>
Wire(b) == Framed(Body(b), Checksum(Compute(Body(b))), Semi)

Meaning(b) ==
  [date |-> {b.date},
   readings |-> [i \in DOMAIN b.readings |->
     [channel |-> b.readings[i].channel, value |-> {b.readings[i].value}]]]

\* g in place of what lies between the first i bytes of s and its byte j.
Spliced(s, i, g, j) == SubSeq(s, 1, i) \o g \o SubSeq(s, j, Len(s))

\* One byte is garbled, lost or too many, or we tune in within the frame.  (A
\* byte 0, which no sum can see, is left out: Bytes starts at 1.)
Noisy(s) ==
  {s} \cup {Spliced(s, i - 1, <<x>>, i + 1) : i \in DOMAIN s, x \in Bytes}
    \cup {Spliced(s, i - 1, <<>>, i + 1) : i \in DOMAIN s}
    \cup {Spliced(s, i - 1, <<x>>, i) : i \in DOMAIN s, x \in Bytes}
    \cup {SubSeq(s, i, Len(s)) : i \in DOMAIN s}

\* What can come of a line: a frame is made of it or not, it is what the
\* analyser said or not, and the line was as it was sent or not.
Outcome(b, raw) ==
  [frame |-> Accepted(raw),
   right |-> Accepted(raw) => Says(raw) = Meaning(b),
   intact |-> raw = Wire(b) \o <<Return>>]

Lines == UNION {{Outcome(b, s \o <<Return>>) : s \in Noisy(Wire(b))} : b \in Broadcasts}
=============================================================================

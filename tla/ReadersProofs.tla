--------------------------- MODULE ReadersProofs ----------------------------
(***************************************************************************)
(* Proofs about the two readers, which take what they get apart piece by   *)
(* piece: core/network, which cuts packets off a stream of bytes, and      *)
(* core/processor, which makes lists of the characters of a file.          *)
(*                                                                         *)
(* Packets: for bytes of any number of values, packets of any format and   *)
(* any length of the buffer that two bytes can tell, the header always     *)
(* lies right before what is left to pop and says the right size, pushing  *)
(* appends, popping takes from the front what is left out behind; what is  *)
(* written arrives value for value, however the streams are cut into       *)
(* reads.                                                                  *)
(*                                                                         *)
(* ParseList, for every file: the depth that GetToken counts is the number *)
(* of lists on the stack, so the assertion that the stack is empty at the  *)
(* end of a file whose brackets match never fails.  DepthIsStack alone is  *)
(* not inductive: the end of a symbol answers what its label says, and     *)
(* only a label of a symbol can never say OPEN or CLOSE.  A second         *)
(* invariant is of db_object::load.                                        *)
(***************************************************************************)
EXTENDS Packets, Parser, SequenceTheorems, FiniteSetTheorems, WellFoundedInduction, TLAPS

\* What every operation relies on and leaves behind.  The last line is the assertion
\* of packet::size (packet.h:98).
WellFormed(p) ==
    /\ p \in PacketType
    /\ p.begin = p.header + 3
    /\ p.begin <= p.end
    /\ Size(p) = p.end - p.header

LEMMA Bounds == Base \in Nat /\ Base >= 4 /\ Cap \in Nat /\ Cap < Base * Base
BY BaseAssumption, CapAssumption

LEMMA CapType == Cap \in Nat
BY CapAssumption

LEMMA Within ==
    ASSUME NEW from \in Nat, NEW n \in Nat, from + n <= Cap, NEW i \in 1 .. n
    PROVE  from + i - 1 \in Positions /\ from + i - 1 >= from
BY CapType DEF Positions

-----------------------------------------------------------------------------
(* Numbers of two bytes.                                                    *)

LEMMA Division ==
    ASSUME NEW b \in Nat, b > 0, NEW n \in Nat
    PROVE  n \div b \in Nat /\ n % b \in 0 .. (b - 1) /\ n = b * (n \div b) + (n % b)
OBVIOUS

LEMMA HighByteFits ==
    ASSUME NEW b \in Nat, b > 0, NEW q \in Nat, NEW r \in 0 .. (b - 1), b * q + r < b * b
    PROVE  q < b
<1>. SUFFICES ASSUME q >= b PROVE FALSE
  OBVIOUS
<1>1. PICK d \in Nat : q = b + d
  <2>1. q - b \in Nat /\ q = b + (q - b)
    OBVIOUS
  <2> QED
    BY <2>1
<1>2. b * q = b * b + b * d
  BY <1>1
<1>3. b * d >= 0
  OBVIOUS
<1> QED
  BY <1>2, <1>3

LEMMA Remainder ==
    ASSUME NEW b \in Nat, b > 0, NEW q \in Nat, q < b
    PROVE  q % b = q
OBVIOUS

\* The two bytes of the size of a packet are its size.
LEMMA WordValue ==
    ASSUME NEW n \in Nat, n < Base * Base
    PROVE  /\ Word(n) \in Seq(Byte) /\ Len(Word(n)) = 2
           /\ Word(n)[1] \in Byte /\ Word(n)[2] \in Byte
           /\ Word(n)[1] + Base * Word(n)[2] = n
<1>1. n \in Nat /\ n < Base * Base
  OBVIOUS
<1>2. /\ n \div Base \in Nat /\ n % Base \in 0 .. (Base - 1)
      /\ n = Base * (n \div Base) + (n % Base)
  BY <1>1, Bounds, Division
<1>3. n \div Base < Base
  BY <1>1, <1>2, Bounds, HighByteFits
<1>4. (n \div Base) % Base = n \div Base
  BY <1>2, <1>3, Bounds, Remainder
<1>5. n % Base \in Byte /\ n \div Base \in Byte
  BY <1>2, <1>3, Bounds DEF Byte
<1>6. Word(n) = <<n % Base, n \div Base>>
  BY <1>4 DEF Word
<1>. DEFINE low == n % Base
            high == n \div Base
<1>. HIDE DEF low, high
<1>7. low \in Byte /\ high \in Byte /\ n = Base * high + low /\ Word(n) = <<low, high>>
  BY <1>2, <1>5, <1>6 DEF low, high
<1>8. low + Base * high = n
  BY <1>7, Bounds DEF Byte
<1>9. /\ <<low, high>> \in Seq(Byte) /\ Len(<<low, high>>) = 2
      /\ <<low, high>>[1] = low /\ <<low, high>>[2] = high
  BY <1>7
<1> QED
  BY <1>7, <1>8, <1>9

-----------------------------------------------------------------------------
(* The buffer.                                                              *)

LEMMA CopiedType ==
    ASSUME NEW buf \in [Positions -> Byte], NEW at \in Int, NEW bytes \in Seq(Byte)
    PROVE  /\ Copied(buf, at, bytes) \in [Positions -> Byte]
           /\ \A i \in Positions :
                Copied(buf, at, bytes)[i] = IF i \in at .. (at + Len(bytes) - 1)
                                            THEN bytes[i - at + 1] ELSE buf[i]
BY Bounds DEF Copied, Positions

LEMMA CopiedByte ==
    ASSUME NEW buf \in [Positions -> Byte], NEW at \in Nat, NEW x \in Byte
    PROVE  /\ Copied(buf, at, <<x>>) \in [Positions -> Byte]
           /\ \A i \in Positions : Copied(buf, at, <<x>>)[i] = IF i = at THEN x ELSE buf[i]
<1>1. <<x>> \in Seq(Byte) /\ Len(<<x>>) = 1 /\ <<x>>[1] = x
  OBVIOUS
<1>. DEFINE s == <<x>>
<1>2. s \in Seq(Byte) /\ Len(s) = 1 /\ s[1] = x
  BY <1>1
<1>. HIDE DEF s
<1>3. /\ Copied(buf, at, s) \in [Positions -> Byte]
      /\ \A i \in Positions : Copied(buf, at, s)[i] = IF i \in at .. (at + Len(s) - 1)
                                                     THEN s[i - at + 1] ELSE buf[i]
  BY <1>2, CopiedType
<1>4. \A i \in Positions : Copied(buf, at, s)[i] = IF i = at THEN x ELSE buf[i]
  BY <1>2, <1>3, Bounds DEF Positions
<1> QED
  BY <1>3, <1>4 DEF s

LEMMA CopiedWord ==
    ASSUME NEW buf \in [Positions -> Byte], NEW at \in Nat, at + 1 < Cap, NEW n \in 0 .. Cap
    PROVE  LET new == Copied(buf, at, Word(n))
           IN  /\ new \in [Positions -> Byte]
               /\ new[at] + Base * new[at + 1] = n
               /\ \A i \in Positions : i # at /\ i # at + 1 => new[i] = buf[i]
<1>. DEFINE w == Word(n)
            new == Copied(buf, at, w)
<1>1. w \in Seq(Byte) /\ Len(w) = 2 /\ w[1] + Base * w[2] = n
  <2>1. n \in Nat /\ n < Base * Base
    BY Bounds
  <2>. QED  BY <2>1, WordValue
<1>. HIDE DEF w
<1>2. /\ new \in [Positions -> Byte]
      /\ \A i \in Positions : new[i] = IF i \in at .. (at + Len(w) - 1)
                                      THEN w[i - at + 1] ELSE buf[i]
  <2>1. at \in Int /\ w \in Seq(Byte)
    BY <1>1
  <2>. QED  BY <2>1, CopiedType, ZenonT(60)
<1>. HIDE DEF new
<1>3. at \in Positions /\ at + 1 \in Positions
  BY Bounds DEF Positions
<1>4. new[at] = w[1]
  BY <1>1, <1>2, <1>3
<1>5. new[at + 1] = w[2]
  BY <1>1, <1>2, <1>3
<1>6. \A i \in Positions : i # at /\ i # at + 1 => new[i] = buf[i]
  BY <1>1, <1>2, Bounds DEF Positions
<1> QED
  BY <1>1, <1>2, <1>4, <1>5, <1>6 DEF new, w

\* reset_size writes the three bytes in front of m_begin and nothing else.
LEMMA ResetSizeFits ==
    ASSUME NEW p \in PacketType, p.begin >= 3, p.begin <= p.end, p.header + 2 < Cap
    PROVE  /\ WellFormed(ResetSize(p))
           /\ ResetSize(p).begin = p.begin /\ ResetSize(p).end = p.end
           /\ \A i \in Positions : i >= p.begin => ResetSize(p).buf[i] = p.buf[i]
           /\ p.header = p.begin - 3 => Type(ResetSize(p)) = Type(p)
<1>. DEFINE at == p.begin - 3
            size == p.end - p.begin + 3
            sized == Copied(p.buf, at, Word(size))
            type == sized[p.header + 2]
            typed == Copied(sized, p.begin - 1, <<type>>)
            q == ResetSize(p)
<1>1. /\ p.buf \in [Positions -> Byte]
      /\ p.header \in 0 .. Cap /\ p.begin \in 0 .. Cap /\ p.end \in 0 .. Cap
  BY DEF PacketType
<1>2. at \in Nat /\ at + 1 < Cap /\ size \in 0 .. Cap
  BY <1>1, Bounds
<1>. HIDE DEF at, size
<1>3. /\ sized \in [Positions -> Byte]
      /\ sized[at] + Base * sized[at + 1] = size
      /\ \A i \in Positions : i # at /\ i # at + 1 => sized[i] = p.buf[i]
  BY <1>1, <1>2, CopiedWord
<1>. HIDE DEF sized
<1>4. type \in Byte
  BY <1>1, <1>3, Bounds DEF Positions
<1>. HIDE DEF type
<1>5. p.begin - 1 \in Nat /\ p.begin - 1 = at + 2
  BY <1>1 DEF at
<1>6. /\ typed \in [Positions -> Byte]
      /\ \A i \in Positions : typed[i] = IF i = at + 2 THEN type ELSE sized[i]
  BY <1>3, <1>4, <1>5, CopiedByte
<1>. HIDE DEF typed
<1>7. /\ q.buf = typed /\ q.header = at /\ q.begin = p.begin /\ q.end = p.end
      /\ q \in PacketType
  <2>1. p = [buf |-> p.buf, header |-> p.header, begin |-> p.begin, end |-> p.end]
    BY DEF PacketType
  <2>2. q = [p EXCEPT !.buf = typed, !.header = at]
    BY DEF ResetSize, typed, type, sized, size, at
  <2>3. q = [buf |-> typed, header |-> at, begin |-> p.begin, end |-> p.end]
    BY <2>1, <2>2
  <2>4. at \in 0 .. Cap
    BY <1>1, <1>2, Bounds DEF at
  <2> QED
    BY <1>1, <1>6, <2>3, <2>4 DEF PacketType
<1>. HIDE DEF q
<1>8. ASSUME NEW i \in Positions, i >= p.begin PROVE q.buf[i] = p.buf[i]
  <2>1. i # at /\ i # at + 1 /\ i # at + 2
    <3>1. i \in Int
      BY Bounds DEF Positions
    <3>2. p.begin \in Int /\ p.begin = at + 3
      BY <1>1, <1>2, <1>5
    <3>. QED  BY <1>2, <1>8, <3>1, <3>2
  <2>2. typed[i] = sized[i] /\ sized[i] = p.buf[i]
    BY <1>3, <1>6, <2>1
  <2>. QED  BY <1>7, <2>2
<1>9. Size(q) = size
  <2>1. at \in Positions /\ at + 1 \in Positions /\ at # at + 2 /\ at + 1 # at + 2
    BY <1>2, Bounds DEF Positions
  <2>2. typed[at] = sized[at] /\ typed[at + 1] = sized[at + 1]
    BY <1>6, <2>1
  <2> QED
    BY <1>3, <1>7, <2>2 DEF Size
<1>10. WellFormed(q)
  BY <1>1, <1>7, <1>9, Bounds DEF WellFormed, at, size
<1>11. p.header = at => Type(q) = Type(p)
  <2>1. at + 2 \in Positions /\ at + 2 # at /\ at + 2 # at + 1
    BY <1>1, <1>2, <1>5, Bounds DEF Positions
  <2> QED
    BY <1>3, <1>6, <1>7, <2>1 DEF Type, type
<1> QED
  BY <1>7, <1>8, <1>10, <1>11 DEF q, at

-----------------------------------------------------------------------------
(* The operations.                                                          *)

LEMMA SegmentType ==
    ASSUME NEW buf \in [Positions -> Byte], NEW from \in 0 .. Cap, NEW to \in from .. Cap
    PROVE  /\ Segment(buf, from, to) \in Seq(Byte)
           /\ Len(Segment(buf, from, to)) = to - from
           /\ DOMAIN Segment(buf, from, to) = 1 .. (to - from)
           /\ \A i \in 1 .. (to - from) : Segment(buf, from, to)[i] = buf[from + i - 1]
<1>1. \A i \in 1 .. (to - from) : from + i - 1 \in Positions
  BY Bounds DEF Positions
<1>2. to - from \in Nat
  BY Bounds
<1> QED
  BY <1>1, <1>2 DEF Segment

LEMMA Joined ==
    ASSUME NEW s \in Seq(Byte), NEW r \in Seq(Byte), NEW both \in Seq(Byte),
           Len(both) = Len(s) + Len(r),
           \A i \in 1 .. Len(s) : both[i] = s[i],
           \A i \in 1 .. Len(r) : both[Len(s) + i] = r[i]
    PROVE  both = s \o r
<1>1. s \o r \in Seq(Byte) /\ Len(s \o r) = Len(s) + Len(r)
  OBVIOUS
<1>2. \A i \in 1 .. Len(s) : (s \o r)[i] = s[i]
  OBVIOUS
<1>3. \A i \in 1 .. Len(r) : (s \o r)[Len(s) + i] = r[i]
  OBVIOUS
<1>4. ASSUME NEW i \in 1 .. Len(both) PROVE both[i] = (s \o r)[i]
  <2>1. CASE i <= Len(s)
    BY <1>2, <2>1
  <2>2. CASE ~(i <= Len(s))
    <3>1. i - Len(s) \in 1 .. Len(r) /\ i = Len(s) + (i - Len(s))
      BY <2>2
    <3> QED
      BY <1>3, <3>1
  <2> QED
    BY <2>1, <2>2
<1> QED
  BY <1>1, <1>4

LEMMA Fields ==
    ASSUME NEW p, WellFormed(p)
    PROVE  /\ p.buf \in [Positions -> Byte]
           /\ p.header \in Nat /\ p.begin \in 3 .. Cap /\ p.end \in p.begin .. Cap
           /\ p.header = p.begin - 3 /\ p.header + 2 < Cap
           /\ p.header \in 0 .. Cap /\ p \in PacketType
<1>1. p \in PacketType /\ p.begin = p.header + 3 /\ p.begin <= p.end
  BY DEF WellFormed
<1> QED
  BY <1>1, Bounds DEF PacketType

\* Bytes put behind a packet, as push and merge do.
LEMMA Extended ==
    ASSUME NEW p, WellFormed(p), NEW bytes \in Seq(Byte), p.end + Len(bytes) <= Cap
    PROVE  LET q == ResetSize([p EXCEPT !.buf = Copied(@, p.end, bytes), !.end = @ + Len(bytes)])
           IN  /\ WellFormed(q)
               /\ Content(q) = Content(p) \o bytes
               /\ Type(q) = Type(p)
               /\ q.begin = p.begin /\ q.end = p.end + Len(bytes)
<1>. DEFINE longer == Copied(p.buf, p.end, bytes)
            end == p.end + Len(bytes)
            r == [p EXCEPT !.buf = longer, !.end = end]
            q == ResetSize(r)
<1>1. /\ p.buf \in [Positions -> Byte] /\ p \in PacketType
      /\ p.header \in 0 .. Cap /\ p.begin \in 3 .. Cap /\ p.end \in p.begin .. Cap
      /\ p.header = p.begin - 3 /\ p.header + 2 < Cap
  BY Fields
<1>2. Len(bytes) \in Nat /\ end \in p.end .. Cap /\ p.end \in Int
  <2>. DEFINE old == p.end
  <2>1. old \in Nat /\ Len(bytes) \in Nat /\ end = old + Len(bytes) /\ end <= Cap
    BY <1>1, CapType
  <2>. HIDE DEF old, end
  <2>2. end \in old .. Cap /\ old \in Int
    BY <2>1, CapType
  <2>. QED  BY <2>1, <2>2 DEF old
<1>3. /\ longer \in [Positions -> Byte]
      /\ \A i \in Positions : longer[i] = IF i \in p.end .. (p.end + Len(bytes) - 1)
                                         THEN bytes[i - p.end + 1] ELSE p.buf[i]
  <2>. DEFINE buf == p.buf
              at == p.end
  <2>1. buf \in [Positions -> Byte] /\ at \in Int
    BY <1>1, <1>2
  <2>. HIDE DEF buf, at
  <2>2. /\ Copied(buf, at, bytes) \in [Positions -> Byte]
        /\ \A i \in Positions :
              Copied(buf, at, bytes)[i] = IF i \in at .. (at + Len(bytes) - 1)
                                          THEN bytes[i - at + 1] ELSE buf[i]
    BY <2>1, CopiedType
  <2> QED
    BY <2>2 DEF buf, at
<1>. HIDE DEF longer, end
<1>4. /\ r \in PacketType /\ r.buf = longer /\ r.header = p.header /\ r.begin = p.begin
      /\ r.end = end
  <2>1. end \in 0 .. Cap
    BY <1>1, <1>2, CapType
  <2> QED
    BY <1>1, <1>3, <2>1 DEF PacketType
<1>. HIDE DEF r
<1>5. r.begin >= 3 /\ r.begin <= r.end /\ r.header + 2 < Cap /\ r.header = r.begin - 3
  BY <1>1, <1>2, <1>4, Bounds
<1>6. /\ WellFormed(q) /\ q.begin = p.begin /\ q.end = end
      /\ \A i \in Positions : i >= p.begin => q.buf[i] = longer[i]
      /\ Type(q) = Type(r)
  BY <1>4, <1>5, ResetSizeFits
<1>. HIDE DEF q
<1>7. Type(r) = Type(p)
  <2>1. p.header + 2 \in Positions /\ p.header + 2 < p.end
    BY <1>1, Bounds, SMTT(30) DEF Positions
  <2> QED
    BY <1>1, <1>3, <1>4, <2>1 DEF Type
<1>8. Content(q) = Content(p) \o bytes
  <2>. DEFINE old == Content(p)
              new == Content(q)
              room == end - p.begin
              n == p.end - p.begin
  <2>1. /\ n \in Nat /\ room \in Nat /\ room = n + Len(bytes) /\ p.begin \in Nat
        /\ p.end = p.begin + n /\ end = p.begin + room /\ end <= Cap
    <3>1. p.begin \in Nat /\ p.end \in Nat /\ p.begin <= p.end
      BY <1>1, CapType
    <3>2. end = p.end + Len(bytes) /\ end <= Cap
      BY <1>2 DEF end
    <3> QED
      BY <1>2, <3>1, <3>2
  <2>2. /\ new \in Seq(Byte) /\ Len(new) = room
        /\ \A i \in 1 .. room : new[i] = q.buf[p.begin + i - 1]
    <3>1. q.buf \in [Positions -> Byte]
      BY <1>6, Fields
    <3>2. p.begin \in 0 .. Cap /\ end \in p.begin .. Cap
      BY <1>1, <1>2, CapType
    <3>3. new = Segment(q.buf, p.begin, end)
      BY <1>6 DEF Content
    <3>. HIDE DEF new
    <3> QED
      BY <3>1, <3>2, <3>3, SegmentType
  <2>3. /\ old \in Seq(Byte) /\ Len(old) = n
        /\ \A i \in 1 .. n : old[i] = p.buf[p.begin + i - 1]
    <3>1. p.begin \in 0 .. Cap
      BY <1>1
    <3> QED
      BY <1>1, <3>1, SegmentType DEF Content
  <2>. HIDE DEF old, new, room, n
  <2>4. \A i \in 1 .. room : p.begin + i - 1 \in Positions /\ p.begin + i - 1 >= p.begin
    BY <2>1, CapType, Within
  <2>5. \A i \in 1 .. room : new[i] = longer[p.begin + i - 1]
    BY <1>6, <2>2, <2>4
  <2>6. ASSUME NEW i \in 1 .. n PROVE new[i] = old[i]
    <3>1. i \in 1 .. room /\ p.begin + i - 1 < p.end
      BY <1>2, <2>1
    <3>2. longer[p.begin + i - 1] = p.buf[p.begin + i - 1]
      BY <1>3, <2>4, <3>1, <2>1
    <3>3. new[i] = longer[p.begin + i - 1]
      BY <2>5, <3>1
    <3>4. old[i] = p.buf[p.begin + i - 1]
      BY <2>3
    <3> QED
      BY <3>2, <3>3, <3>4
  <2>7. ASSUME NEW i \in 1 .. Len(bytes) PROVE new[n + i] = bytes[i]
    <3>. DEFINE at == p.begin + (n + i) - 1
    <3>0. at = p.end + i - 1 /\ p.end \in Nat
      <4>1. n \in Nat /\ p.begin \in Nat /\ i \in Nat /\ p.end = p.begin + n
        BY <2>1
      <4> QED
        BY <4>1
    <3>. HIDE DEF at
    <3>1. n + i \in 1 .. room /\ at \in p.end .. (p.end + Len(bytes) - 1) /\ at - p.end + 1 = i
      <4>1. /\ n \in Nat /\ Len(bytes) \in Nat /\ room = n + Len(bytes)
            /\ i \in Nat /\ i >= 1 /\ i <= Len(bytes)
        BY <1>2, <2>1
      <4>2. n + i \in 1 .. room
        BY <4>1
      <4>3. at \in p.end .. (p.end + Len(bytes) - 1) /\ at - p.end + 1 = i
        BY <3>0, <4>1
      <4> QED
        BY <4>2, <4>3
    <3>2. at \in Positions
      BY <2>4, <3>1 DEF at
    <3>3. longer[at] = bytes[i]
      BY <1>3, <3>1, <3>2
    <3>4. new[n + i] = longer[at]
      BY <2>5, <3>1 DEF at
    <3> QED
      BY <3>3, <3>4
  <2>8. new = old \o bytes
    <3>1. Len(new) = Len(old) + Len(bytes)
      BY <2>1, <2>2, <2>3
    <3>2. \A i \in 1 .. Len(old) : new[i] = old[i]
      BY <2>3, <2>6
    <3>3. \A i \in 1 .. Len(bytes) : new[Len(old) + i] = bytes[i]
      BY <2>3, <2>7
    <3> QED
      BY <2>2, <2>3, <3>1, <3>2, <3>3, Joined
  <2> QED
    BY <2>8 DEF old, new
<1> QED
  BY <1>6, <1>7, <1>8 DEF q, r, end, longer

\* push of a value that fits.
LEMMA PushFits ==
    ASSUME NEW p, WellFormed(p), NEW bytes \in Seq(Byte), p.end + Len(bytes) <= Cap
    PROVE  /\ WellFormed(Push(p, bytes))
           /\ Content(Push(p, bytes)) = Content(p) \o bytes
           /\ Type(Push(p, bytes)) = Type(p)
           /\ Push(p, bytes).begin = p.begin /\ Push(p, bytes).end = p.end + Len(bytes)
<1>1. Len(bytes) \in Nat /\ p.end \in Int
  BY Fields
<1>2. ~(p.end + Len(bytes) > Cap)
  BY <1>1, CapType
<1> QED
  BY <1>2, Extended DEF Push

\* push appends a value that fits and leaves the packet as it is otherwise: its size, type
\* and values are those it had.
THEOREM PushAppends ==
    ASSUME NEW p, WellFormed(p), NEW bytes \in Seq(Byte)
    PROVE  /\ WellFormed(Push(p, bytes)) /\ Type(Push(p, bytes)) = Type(p)
           /\ IF p.end + Len(bytes) <= Cap
              THEN /\ Content(Push(p, bytes)) = Content(p) \o bytes
                   /\ Push(p, bytes).end = p.end + Len(bytes)
              ELSE Push(p, bytes) = p
<1>1. CASE p.end + Len(bytes) <= Cap
  BY <1>1, PushFits
<1>2. CASE ~(p.end + Len(bytes) <= Cap)
  <2>1. p.end + Len(bytes) \in Int
    BY Fields
  <2>2. p.end + Len(bytes) > Cap
    BY <1>2, <2>1, CapType
  <2>3. Push(p, bytes) = p
    BY <2>2 DEF Push
  <2>. QED  BY <1>2, <2>3
<1>. QED  BY <1>1, <1>2

\* merge of what is left of another packet, when it fits.
LEMMA MergeFits ==
    ASSUME NEW p, WellFormed(p), NEW q, WellFormed(q), p.end + (q.end - q.begin) <= Cap
    PROVE  /\ WellFormed(Merge(p, q))
           /\ Content(Merge(p, q)) = Content(p) \o Content(q)
           /\ Type(Merge(p, q)) = Type(p)
           /\ Merge(p, q).begin = p.begin /\ Merge(p, q).end = p.end + (q.end - q.begin)
<1>1. q.buf \in [Positions -> Byte] /\ q.begin \in 0 .. Cap /\ q.end \in q.begin .. Cap
  BY Fields, CapType
<1>2. Content(q) \in Seq(Byte) /\ Len(Content(q)) = q.end - q.begin
  BY <1>1, SegmentType DEF Content
<1>3. p.end + Len(Content(q)) <= Cap
  BY <1>2
<1>4. ~(p.end + Len(Content(q)) > Cap)
  BY <1>2, <1>3, Fields, CapType
<1> QED
  BY <1>2, <1>3, <1>4, Extended DEF Merge

\* merge appends what is left of another packet, or leaves the packet as it is.
THEOREM MergeAppends ==
    ASSUME NEW p, WellFormed(p), NEW q, WellFormed(q)
    PROVE  /\ WellFormed(Merge(p, q)) /\ Type(Merge(p, q)) = Type(p)
           /\ IF p.end + (q.end - q.begin) <= Cap
              THEN /\ Content(Merge(p, q)) = Content(p) \o Content(q)
                   /\ Merge(p, q).end = p.end + (q.end - q.begin)
              ELSE Merge(p, q) = p
<1>1. CASE p.end + (q.end - q.begin) <= Cap
  BY <1>1, MergeFits
<1>2. CASE ~(p.end + (q.end - q.begin) <= Cap)
  <2>1. q.buf \in [Positions -> Byte] /\ q.begin \in 0 .. Cap /\ q.end \in q.begin .. Cap
    BY Fields, CapType
  <2>2. Len(Content(q)) = q.end - q.begin
    BY <2>1, SegmentType DEF Content
  <2>3. p.end + Len(Content(q)) > Cap
    BY <1>2, <2>1, <2>2, Fields, CapType
  <2>4. Merge(p, q) = p
    BY <2>3 DEF Merge
  <2>. QED  BY <1>2, <2>4
<1>. QED  BY <1>1, <1>2

\* pop of n bytes that are there: the value and what is left make up what was there.
LEMMA PopFits ==
    ASSUME NEW p, WellFormed(p), NEW n \in Nat, n <= p.end - p.begin
    PROVE  /\ WellFormed(Pop(p, n))
           /\ Popped(p, n) \o Content(Pop(p, n)) = Content(p)
<1>. DEFINE begin == p.begin + n
            r == [p EXCEPT !.begin = begin]
            q == ResetSize(r)
<1>1. /\ p.buf \in [Positions -> Byte] /\ p \in PacketType
      /\ p.header \in 0 .. Cap /\ p.begin \in 3 .. Cap /\ p.end \in p.begin .. Cap
      /\ p.header + 2 < Cap
  BY Fields
<1>2. /\ begin \in p.begin .. p.end /\ begin \in 0 .. Cap /\ begin >= 3 /\ begin <= p.end
      /\ ~(p.end - p.begin < n)
  BY <1>1, CapType
<1>. HIDE DEF begin
<1>3. /\ r \in PacketType /\ r.buf = p.buf /\ r.header = p.header /\ r.begin = begin
      /\ r.end = p.end
  BY <1>1, <1>2 DEF PacketType
<1>. HIDE DEF r
<1>4. /\ WellFormed(q) /\ q.begin = begin /\ q.end = p.end
      /\ \A i \in Positions : i >= begin => q.buf[i] = p.buf[i]
  BY <1>1, <1>2, <1>3, ResetSizeFits
<1>5. Pop(p, n) = q
  BY <1>2 DEF Pop, q, r, begin
<1>. HIDE DEF q
<1>6. Popped(p, n) \o Content(q) = Content(p)
  <2>. DEFINE value == Segment(p.buf, p.begin, begin)
              rest == Segment(q.buf, begin, p.end)
              all == Segment(p.buf, p.begin, p.end)
  <2>1. Popped(p, n) = value /\ Content(q) = rest /\ Content(p) = all
    BY <1>2, <1>4 DEF Popped, Content, begin
  <2>2. q.buf \in [Positions -> Byte]
    BY <1>4, Fields
  <2>3. p.begin \in 0 .. Cap /\ begin \in p.begin .. Cap /\ p.end \in begin .. Cap
    BY <1>1, <1>2, CapType
  <2>4. begin - p.begin = n /\ begin \in Nat /\ p.begin \in Nat /\ p.end \in Nat /\ p.end <= Cap
    BY <1>1, <1>2, CapType DEF begin
  <2>5. /\ value \in Seq(Byte) /\ Len(value) = n
        /\ \A i \in 1 .. n : value[i] = p.buf[p.begin + i - 1]
    BY <1>1, <2>3, <2>4, SegmentType
  <2>6. /\ rest \in Seq(Byte) /\ Len(rest) = p.end - begin
        /\ \A i \in 1 .. (p.end - begin) : rest[i] = q.buf[begin + i - 1]
    BY <2>2, <1>2, <2>3, SegmentType
  <2>7. /\ all \in Seq(Byte) /\ Len(all) = p.end - p.begin
        /\ \A i \in 1 .. (p.end - p.begin) : all[i] = p.buf[p.begin + i - 1]
    BY <1>1, <2>3, SegmentType
  <2>. HIDE DEF value, rest, all
  <2>8. Len(all) = Len(value) + Len(rest)
    <3>1. p.end - p.begin = n + (p.end - begin)
      BY <2>4
    <3> QED
      BY <2>5, <2>6, <2>7, <3>1
  <2>9. \A i \in 1 .. Len(value) : all[i] = value[i]
    <3>. SUFFICES ASSUME NEW i \in 1 .. n PROVE all[i] = value[i]
      BY <2>5
    <3>1. i \in 1 .. (p.end - p.begin)
      BY <1>2, <2>4
    <3> QED
      BY <2>5, <2>7, <3>1
  <2>10. \A i \in 1 .. Len(rest) : all[Len(value) + i] = rest[i]
    <3>. SUFFICES ASSUME NEW i \in 1 .. (p.end - begin) PROVE all[n + i] = rest[i]
      BY <2>5, <2>6
    <3>. DEFINE at == begin + i - 1
    <3>1. n + i \in 1 .. (p.end - p.begin) /\ p.begin + (n + i) - 1 = at
      BY <1>2, <2>4 DEF begin
    <3>2. at \in Positions /\ at >= begin
      BY <1>2, <2>4, CapType DEF Positions
    <3>. HIDE DEF at
    <3>3. all[n + i] = p.buf[at]
      BY <2>7, <3>1
    <3>4. rest[i] = q.buf[at]
      BY <2>6 DEF at
    <3> QED
      BY <1>4, <3>2, <3>3, <3>4
  <2>11. all = value \o rest
    BY <2>5, <2>6, <2>7, <2>8, <2>9, <2>10, Joined
  <2> QED
    BY <2>1, <2>11
<1> QED
  BY <1>4, <1>5, <1>6

\* pop takes the next n bytes: they and what is left make up what was there.  When there
\* are fewer it answers zeros and the packet stays as it is.
THEOREM PopTakes ==
    ASSUME NEW p, WellFormed(p), NEW n \in Nat
    PROVE  /\ WellFormed(Pop(p, n))
           /\ IF n <= p.end - p.begin
              THEN Popped(p, n) \o Content(Pop(p, n)) = Content(p)
              ELSE Pop(p, n) = p /\ Popped(p, n) = [i \in 1 .. n |-> 0]
<1>1. CASE n <= p.end - p.begin
  BY <1>1, PopFits
<1>2. CASE ~(n <= p.end - p.begin)
  <2>1. p.end - p.begin \in Int
    BY Fields
  <2>2. p.end - p.begin < n
    BY <1>2, <2>1
  <2>3. Pop(p, n) = p /\ Popped(p, n) = [i \in 1 .. n |-> 0]
    BY <2>2 DEF Pop, Popped
  <2>. QED  BY <1>2, <2>3
<1>. QED  BY <1>1, <1>2

-----------------------------------------------------------------------------
(* From one process to another.                                             *)

\* A new packet is empty.
THEOREM NewIsEmpty ==
    ASSUME NEW type \in Byte
    PROVE  WellFormed(New(type)) /\ Type(New(type)) = type /\ New(type).begin = New(type).end
<1>. DEFINE zero == [i \in Positions |-> 0]
            h == <<3, 0, type>>
            buf == Copied(zero, 0, h)
<1>1. 3 \in Byte /\ 0 \in Byte
  BY Bounds DEF Byte
<1>2. h \in Seq(Byte) /\ Len(h) = 3 /\ h[1] = 3 /\ h[2] = 0 /\ h[3] = type
  BY <1>1
<1>3. zero \in [Positions -> Byte]
  BY <1>1
<1>4. New(type) = [buf |-> buf, header |-> 0, begin |-> 3, end |-> 3]
  BY DEF New
<1>. HIDE DEF zero, h
<1>5. /\ buf \in [Positions -> Byte]
      /\ \A i \in Positions : buf[i] = IF i \in 0 .. (0 + Len(h) - 1) THEN h[i - 0 + 1] ELSE zero[i]
  BY <1>2, <1>3, CopiedType, SMTT(30)
<1>. HIDE DEF buf
<1>6. 0 \in Positions /\ 1 \in Positions /\ 2 \in Positions
  BY CapAssumption DEF Positions
<1>7. buf[0] = 3 /\ buf[1] = 0 /\ buf[2] = type
  BY <1>2, <1>5, <1>6
<1>8. New(type) \in PacketType
  BY <1>4, <1>5, CapAssumption DEF PacketType
<1>9. Size(New(type)) = 3
  BY <1>4, <1>7, Bounds DEF Size
<1> QED
  BY <1>4, <1>7, <1>8, <1>9 DEF WellFormed, Type

\* What is written and read again is the same packet: the assertion of the constructor
\* (packet.h:55) holds, and the values left to pop are those the sender had left.
THEOREM WireKeeps ==
    ASSUME NEW p, WellFormed(p)
    PROVE  LET q == FromBytes(Image(p))
           IN  /\ WellFormed(q) /\ Content(q) = Content(p) /\ Type(q) = Type(p)
               /\ q.begin = 3 /\ q.end = p.end - p.header
<1>. DEFINE image == Image(p)
            size == p.end - p.header
            zero == New(0).buf
            buf == Copied(zero, 0, image)
            q == FromBytes(image)
<1>1. /\ p.buf \in [Positions -> Byte]
      /\ p.header \in Nat /\ p.begin \in 3 .. Cap /\ p.end \in p.begin .. Cap
      /\ p.header = p.begin - 3 /\ p.header \in 0 .. Cap
  BY Fields
<1>2. size \in 3 .. Cap /\ p.end \in p.header .. Cap /\ p.end = p.header + size
  BY <1>1, CapType
<1>3. /\ image \in Seq(Byte) /\ Len(image) = size
      /\ \A i \in 1 .. size : image[i] = p.buf[p.header + i - 1]
  BY <1>1, <1>2, SegmentType DEF Image
<1>4. zero \in [Positions -> Byte]
  <2>1. 0 \in Byte
    BY Bounds DEF Byte
  <2> QED
    BY <2>1, NewIsEmpty, Fields
<1>5. q = [buf |-> buf, header |-> 0, begin |-> 3, end |-> size]
  BY <1>3 DEF FromBytes
<1>. HIDE DEF image, zero
<1>6. /\ buf \in [Positions -> Byte]
      /\ \A i \in Positions : buf[i] = IF i \in 0 .. (0 + Len(image) - 1)
                                      THEN image[i - 0 + 1] ELSE zero[i]
  <2>1. image \in Seq(Byte) /\ 0 \in Int
    BY <1>3
  <2> QED
    BY <1>4, <2>1, CopiedType
<1>. HIDE DEF buf, size
<1>7. ASSUME NEW i \in Nat, i < size PROVE i \in Positions /\ buf[i] = p.buf[p.header + i]
  <2>1. i \in Positions /\ i \in 0 .. (0 + Len(image) - 1) /\ i + 1 \in 1 .. size
    BY <1>2, <1>3, <1>7, CapType DEF Positions
  <2>2. buf[i] = image[i + 1]
    BY <1>6, <2>1
  <2>3. image[i + 1] = p.buf[p.header + (i + 1) - 1]
    BY <1>3, <2>1
  <2>4. p.header + (i + 1) - 1 = p.header + i
    BY <1>1
  <2> QED
    BY <2>1, <2>2, <2>3, <2>4
<1>8. /\ q \in PacketType /\ q.buf = buf /\ q.header = 0 /\ q.begin = 3 /\ q.end = size
  BY <1>2, <1>5, <1>6, CapAssumption DEF PacketType
<1>. HIDE DEF q
<1>9. Type(q) = Type(p)
  <2>1. buf[2] = p.buf[p.header + 2]
    BY <1>2, <1>7
  <2> QED
    BY <1>8, <2>1 DEF Type
<1>10. WellFormed(q)
  <2>1. buf[0] = p.buf[p.header + 0] /\ buf[1] = p.buf[p.header + 1] /\ p.header + 0 = p.header
    BY <1>1, <1>2, <1>7
  <2>2. p.buf[p.header] + Base * p.buf[p.header + 1] = size
    BY DEF WellFormed, Size, size
  <2>3. Size(q) = size
    BY <1>8, <2>1, <2>2 DEF Size
  <2> QED
    BY <1>2, <1>8, <2>3 DEF WellFormed
<1>11. Content(q) = Content(p)
  <2>1. Content(q) = Segment(buf, 3, size) /\ Content(p) = Segment(p.buf, p.begin, p.end)
    BY <1>8 DEF Content
  <2>2. p.end - p.begin = size - 3 /\ p.begin \in Nat /\ size \in Nat
    BY <1>1, <1>2, CapType
  <2>3. \A i \in 1 .. (size - 3) : buf[3 + i - 1] = p.buf[p.begin + i - 1]
    <3>. SUFFICES ASSUME NEW i \in 1 .. (size - 3) PROVE buf[3 + i - 1] = p.buf[p.begin + i - 1]
      OBVIOUS
    <3>1. 3 + i - 1 \in Nat /\ 3 + i - 1 < size /\ p.header + (3 + i - 1) = p.begin + i - 1
      BY <1>1, <2>2
    <3> QED
      BY <1>7, <3>1
  <2> QED
    BY <2>1, <2>2, <2>3 DEF Segment
<1> QED
  BY <1>8, <1>9, <1>10, <1>11 DEF q, image, size

-----------------------------------------------------------------------------
(* Lists of any length: what the steps of a loop do is proved for one step   *)
(* more, and Induct makes it true of all of them.                            *)

\* A set of numbers that is not empty has a least one.
LEMMA Smallest ==
    ASSUME NEW T \in SUBSET Nat, T # {}
    PROVE  \E m \in T : \A k \in T : m <= k
  <1> DEFINE U == {0 .. n : n \in T}
  <1>1. U \subseteq FiniteSubsetsOf(Nat) /\ U # {}
    <2>1. \A n \in T : 0 .. n \subseteq Nat /\ IsFiniteSet(0 .. n)
      BY FS_Interval
    <2>. QED BY <2>1 DEF FiniteSubsetsOf
  <1>2. PICK x \in U : \A y \in U : <<y, x>> \notin StrictSubsetOrdering(Nat)
    <2> HIDE DEF U
    <2>. QED BY <1>1, FS_StrictSubsetOrderingWellFounded, WFMin
  <1>3. PICK m \in T : x = 0 .. m
    OBVIOUS
  <1>4. ASSUME NEW k \in T, ~(m <= k)
        PROVE  FALSE
    <2>1. 0 .. k \subseteq 0 .. m /\ m \in 0 .. m /\ m \notin 0 .. k
      BY <1>4
    <2>2. 0 .. k \in SUBSET Nat /\ 0 .. m \in SUBSET Nat
      OBVIOUS
    <2>3. <<0 .. k, 0 .. m>> \in StrictSubsetOrdering(Nat)
      BY <2>1, <2>2 DEF StrictSubsetOrdering
    <2>. QED BY <1>2, <1>3, <2>3
  <1>. QED BY <1>4

LEMMA Induct ==
    ASSUME NEW T \in SUBSET Nat, 0 \in T, \A n \in T : n + 1 \in T
    PROVE  T = Nat
<1>. SUFFICES ASSUME Nat \ T # {} PROVE FALSE
  OBVIOUS
<1>1. PICK m \in Nat \ T : \A k \in Nat \ T : m <= k
  BY Smallest
<1>2. m # 0 /\ m - 1 \in Nat /\ m = (m - 1) + 1
  OBVIOUS
<1>3. m - 1 \in T
  BY <1>1, <1>2
<1>. QED  BY <1>2, <1>3

LEMMA Regroup ==
    ASSUME NEW a \in Seq(Byte), NEW b \in Seq(Byte), NEW c \in Seq(Byte)
    PROVE  (a \o b) \o c = a \o (b \o c)
BY ConcatAssociative

LEMMA Together ==
    ASSUME NEW a \in Seq(Byte), NEW b \in Seq(Byte)
    PROVE  /\ a \o b \in Seq(Byte) /\ Len(a \o b) = Len(a) + Len(b)
           /\ Len(a) \in Nat /\ Len(b) \in Nat
           /\ \A i \in 1 .. Len(a) : (a \o b)[i] = a[i]
           /\ \A i \in 1 .. Len(b) : (a \o b)[Len(a) + i] = b[i]
OBVIOUS

\* The bytes are s[r + 1], s[r + 2] and so on, one after another.
Remains(s, r, bytes) ==
    \E g \in [r .. Len(s) -> Seq(Byte)] :
        /\ g[r] = bytes /\ g[Len(s)] = <<>>
        /\ \A k \in r .. (Len(s) - 1) : g[k] = s[k + 1] \o g[k + 1]

LEMMA RemainsNone ==
    ASSUME NEW s \in Seq(Seq(Byte)), NEW bytes
    PROVE  Remains(s, Len(s), bytes) <=> bytes = <<>>
<1>1. Len(s) \in Nat /\ <<>> \in Seq(Byte)
  OBVIOUS
<1>2. ASSUME bytes = <<>> PROVE Remains(s, Len(s), bytes)
  <2>. DEFINE g == [k \in Len(s) .. Len(s) |-> <<>>]
  <2>1. g \in [Len(s) .. Len(s) -> Seq(Byte)] /\ g[Len(s)] = <<>>
    BY <1>1
  <2>2. Len(s) .. (Len(s) - 1) = {}
    BY <1>1
  <2>. HIDE DEF g
  <2>. QED  BY <1>2, <2>1, <2>2 DEF Remains
<1>. QED  BY <1>2 DEF Remains

LEMMA RemainsType ==
    ASSUME NEW s \in Seq(Seq(Byte)), NEW r \in 0 .. Len(s), NEW bytes, Remains(s, r, bytes)
    PROVE  bytes \in Seq(Byte)
<1>1. r \in r .. Len(s)
  OBVIOUS
<1>. QED  BY <1>1 DEF Remains

LEMMA RemainsMore ==
    ASSUME NEW s \in Seq(Seq(Byte)), NEW r \in 0 .. Len(s), NEW bytes, Remains(s, r, bytes),
           NEW x \in Seq(Byte)
    PROVE  Remains(Append(s, x), r, bytes \o x)
<1>. DEFINE t == Append(s, x)
            n == Len(s)
<1>1. /\ n \in Nat /\ Len(t) = n + 1 /\ t[n + 1] = x /\ r \in r .. n
      /\ \A k \in 1 .. n : t[k] = s[k] /\ s[k] \in Seq(Byte)
  BY AppendProperties
<1>2. PICK g \in [r .. n -> Seq(Byte)] :
        /\ g[r] = bytes /\ g[n] = <<>>
        /\ \A k \in r .. (n - 1) : g[k] = s[k + 1] \o g[k + 1]
  BY DEF Remains
<1>. DEFINE h == [k \in r .. (n + 1) |-> IF k = n + 1 THEN <<>> ELSE g[k] \o x]
<1>. HIDE DEF t, n
<1>3. h \in [r .. (n + 1) -> Seq(Byte)]
  <2>1. ASSUME NEW k \in r .. (n + 1) PROVE (IF k = n + 1 THEN <<>> ELSE g[k] \o x) \in Seq(Byte)
    <3>1. CASE k = n + 1
      BY <3>1
    <3>2. CASE k # n + 1
      <4>1. k \in r .. n
        BY <1>1, <3>2
      <4>. QED  BY <1>2, <3>2, <4>1, ConcatProperties
    <3>. QED  BY <3>1, <3>2
  <2>. QED  BY <2>1
<1>4. h[r] = bytes \o x /\ h[n + 1] = <<>>
  <2>1. r \in r .. (n + 1) /\ n + 1 \in r .. (n + 1) /\ r # n + 1
    BY <1>1
  <2>. QED  BY <1>2, <2>1
<1>5. ASSUME NEW k \in r .. n PROVE h[k] = t[k + 1] \o h[k + 1]
  <2>1. k # n + 1 /\ k \in r .. (n + 1) /\ k + 1 \in r .. (n + 1) /\ h[k] = g[k] \o x
    BY <1>1
  <2>2. CASE k = n
    <3>1. h[k] = x /\ h[k + 1] = <<>>
      BY <1>2, <1>4, <2>1, <2>2, ConcatEmptySeq
    <3>. QED  BY <1>1, <2>2, <3>1, ConcatEmptySeq
  <2>3. CASE k # n
    <3>1. k \in r .. (n - 1) /\ k + 1 \in r .. n /\ k + 1 # n + 1 /\ k + 1 \in 1 .. n
      BY <1>1, <2>3
    <3>2. g[k] = s[k + 1] \o g[k + 1] /\ t[k + 1] = s[k + 1] /\ s[k + 1] \in Seq(Byte)
          /\ g[k + 1] \in Seq(Byte) /\ h[k + 1] = g[k + 1] \o x
      BY <1>1, <1>2, <2>1, <3>1
    <3>. HIDE DEF h
    <3>3. (s[k + 1] \o g[k + 1]) \o x = s[k + 1] \o (g[k + 1] \o x)
      <4>. DEFINE a == s[k + 1]
                  b == g[k + 1]
      <4>1. a \in Seq(Byte) /\ b \in Seq(Byte)
        BY <3>2
      <4>. HIDE DEF a, b
      <4>2. (a \o b) \o x = a \o (b \o x)
        BY <4>1, Regroup
      <4>. QED  BY <4>2 DEF a, b
    <3>. QED  BY <2>1, <3>2, <3>3
  <2>. QED  BY <2>2, <2>3
<1>. HIDE DEF h
<1>6. (n + 1) - 1 = n /\ Len(t) = n + 1
  BY <1>1
<1>7. Remains(t, r, bytes \o x)
  BY <1>3, <1>4, <1>5, <1>6 DEF Remains
<1>. QED  BY <1>7 DEF t

LEMMA RemainsTake ==
    ASSUME NEW s \in Seq(Seq(Byte)), NEW r \in 0 .. (Len(s) - 1), NEW bytes, Remains(s, r, bytes)
    PROVE  \E rest \in Seq(Byte) : bytes = s[r + 1] \o rest /\ Remains(s, r + 1, rest)
<1>1. PICK g \in [r .. Len(s) -> Seq(Byte)] :
        /\ g[r] = bytes /\ g[Len(s)] = <<>>
        /\ \A k \in r .. (Len(s) - 1) : g[k] = s[k + 1] \o g[k + 1]
  BY DEF Remains
<1>2. r \in r .. (Len(s) - 1) /\ r + 1 \in r .. Len(s) /\ Len(s) \in (r + 1) .. Len(s)
  OBVIOUS
<1>. DEFINE h == [k \in (r + 1) .. Len(s) |-> g[k]]
<1>3. /\ h \in [(r + 1) .. Len(s) -> Seq(Byte)]
      /\ \A k \in (r + 1) .. Len(s) : h[k] = g[k]
  OBVIOUS
<1>4. \A k \in (r + 1) .. (Len(s) - 1) :
        k \in r .. (Len(s) - 1) /\ k \in (r + 1) .. Len(s) /\ k + 1 \in (r + 1) .. Len(s)
  OBVIOUS
<1>. HIDE DEF h
<1>5. \A k \in (r + 1) .. (Len(s) - 1) : h[k] = s[k + 1] \o h[k + 1]
  BY <1>1, <1>3, <1>4
<1>6. /\ h[r + 1] = g[r + 1] /\ h[Len(s)] = <<>> /\ g[r + 1] \in Seq(Byte)
      /\ bytes = s[r + 1] \o g[r + 1]
  <2>1. r + 1 \in (r + 1) .. Len(s)
    BY <1>2
  <2>2. g[r] = s[r + 1] \o g[r + 1]
    BY <1>1, <1>2
  <2>3. h[r + 1] = g[r + 1] /\ h[Len(s)] = g[Len(s)] /\ g[r + 1] \in Seq(Byte)
    BY <1>1, <1>2, <1>3, <2>1
  <2>. QED  BY <1>1, <2>2, <2>3
<1>7. Remains(s, r + 1, g[r + 1])
  BY <1>3, <1>5, <1>6 DEF Remains
<1>. QED  BY <1>6, <1>7

LEMMA RemainsPut ==
    ASSUME NEW s \in Seq(Seq(Byte)), NEW r \in 0 .. (Len(s) - 1), NEW bytes,
           Remains(s, r + 1, bytes)
    PROVE  Remains(s, r, s[r + 1] \o bytes)
<1>1. PICK g \in [(r + 1) .. Len(s) -> Seq(Byte)] :
        /\ g[r + 1] = bytes /\ g[Len(s)] = <<>>
        /\ \A k \in (r + 1) .. (Len(s) - 1) : g[k] = s[k + 1] \o g[k + 1]
  BY DEF Remains
<1>. DEFINE h == [k \in r .. Len(s) |-> IF k = r THEN s[r + 1] \o bytes ELSE g[k]]
<1>2. r + 1 \in (r + 1) .. Len(s) /\ r + 1 \in 1 .. Len(s) /\ r + 1 # r /\ Len(s) # r
  OBVIOUS
<1>3. s[r + 1] \o bytes \in Seq(Byte)
  <2>1. s[r + 1] \in Seq(Byte) /\ bytes \in Seq(Byte)
    BY <1>1, <1>2
  <2>. QED  BY <2>1, ConcatProperties
<1>4. h \in [r .. Len(s) -> Seq(Byte)] /\ h[r] = s[r + 1] \o bytes
      /\ \A k \in (r + 1) .. Len(s) : h[k] = g[k]
  <2>1. \A k \in r .. Len(s) : k = r \/ k \in (r + 1) .. Len(s)
    OBVIOUS
  <2>. QED  BY <1>1, <1>3, <2>1
<1>. HIDE DEF h
<1>5. ASSUME NEW k \in r .. (Len(s) - 1) PROVE h[k] = s[k + 1] \o h[k + 1]
  <2>1. CASE k = r
    BY <1>1, <1>2, <1>4, <2>1
  <2>2. CASE k # r
    <3>1. k \in (r + 1) .. (Len(s) - 1) /\ k \in (r + 1) .. Len(s) /\ k + 1 \in (r + 1) .. Len(s)
      BY <2>2
    <3>. QED  BY <1>1, <1>4, <3>1
  <2>. QED  BY <2>1, <2>2
<1>6. h[Len(s)] = <<>>
  BY <1>1, <1>2, <1>4
<1>. QED  BY <1>4, <1>5, <1>6 DEF Remains

LEMMA RemainsHead ==
    ASSUME NEW s \in Seq(Seq(Byte)), s # <<>>, NEW bytes, Remains(s, 0, bytes)
    PROVE  \E rest \in Seq(Byte) : bytes = s[1] \o rest /\ Remains(s, 1, rest)
<1>. DEFINE r == 0
<1>1. r \in 0 .. (Len(s) - 1) /\ r + 1 = 1 /\ Remains(s, r, bytes)
  BY EmptySeq
<1>. HIDE DEF r
<1>2. \E rest \in Seq(Byte) : bytes = s[r + 1] \o rest /\ Remains(s, r + 1, rest)
  BY <1>1, RemainsTake
<1>. QED  BY <1>1, <1>2

LEMMA RemainsPutHead ==
    ASSUME NEW s \in Seq(Seq(Byte)), s # <<>>, NEW bytes, Remains(s, 1, bytes)
    PROVE  Remains(s, 0, s[1] \o bytes)
<1>. DEFINE r == 0
<1>1. r \in 0 .. (Len(s) - 1) /\ r + 1 = 1 /\ r = 0
  BY EmptySeq
<1>. HIDE DEF r
<1>2. Remains(s, r, s[r + 1] \o bytes)
  BY <1>1, RemainsPut
<1>. QED  BY <1>1, <1>2

\* Without its first part, what is left of a list is left one earlier.
LEMMA RemainsTail ==
    ASSUME NEW s \in Seq(Seq(Byte)), s # <<>>, NEW bytes
    PROVE  Remains(s, 1, bytes) <=> Remains(Tail(s), 0, bytes)
<1>. DEFINE t == Tail(s)
            n == Len(s)
<1>1. n \in Nat /\ n >= 1 /\ Len(t) = n - 1 /\ \A k \in 1 .. (n - 1) : t[k] = s[k + 1]
  BY HeadTailProperties
<1>. HIDE DEF t, n
<1>2. ASSUME Remains(s, 1, bytes) PROVE Remains(t, 0, bytes)
  <2>1. PICK g \in [1 .. n -> Seq(Byte)] :
          /\ g[1] = bytes /\ g[n] = <<>>
          /\ \A k \in 1 .. (n - 1) : g[k] = s[k + 1] \o g[k + 1]
    BY <1>2 DEF Remains, n
  <2>. DEFINE h == [k \in 0 .. (n - 1) |-> g[k + 1]]
  <2>2. h \in [0 .. (n - 1) -> Seq(Byte)] /\ h[0] = bytes /\ h[n - 1] = <<>>
    BY <1>1, <2>1
  <2>3. ASSUME NEW k \in 0 .. (n - 1) - 1 PROVE h[k] = t[k + 1] \o h[k + 1]
    <3>1. /\ k \in 0 .. (n - 1) /\ k + 1 \in 0 .. (n - 1) /\ k + 1 \in 1 .. (n - 1)
      BY <1>1
    <3>2. h[k] = g[k + 1] /\ h[k + 1] = g[(k + 1) + 1]
      BY <3>1
    <3>. HIDE DEF h
    <3>. QED  BY <1>1, <2>1, <3>1, <3>2
  <2>. HIDE DEF h
  <2>. QED  BY <1>1, <2>2, <2>3 DEF Remains
<1>3. ASSUME Remains(t, 0, bytes) PROVE Remains(s, 1, bytes)
  <2>1. PICK g \in [0 .. (n - 1) -> Seq(Byte)] :
          /\ g[0] = bytes /\ g[n - 1] = <<>>
          /\ \A k \in 0 .. ((n - 1) - 1) : g[k] = t[k + 1] \o g[k + 1]
    BY <1>1, <1>3 DEF Remains
  <2>. DEFINE h == [k \in 1 .. n |-> g[k - 1]]
  <2>2. h \in [1 .. n -> Seq(Byte)] /\ h[1] = bytes /\ h[n] = <<>>
    BY <1>1, <2>1
  <2>3. ASSUME NEW k \in 1 .. (n - 1) PROVE h[k] = s[k + 1] \o h[k + 1]
    <3>1. /\ k \in 1 .. n /\ k + 1 \in 1 .. n /\ k - 1 \in 0 .. ((n - 1) - 1)
          /\ (k - 1) + 1 = k /\ (k + 1) - 1 = k
      BY <1>1
    <3>2. h[k] = g[k - 1] /\ h[k + 1] = g[k]
      BY <3>1
    <3>. HIDE DEF h
    <3>3. g[k - 1] = t[k] \o g[k]
      BY <2>1, <3>1
    <3>. QED  BY <1>1, <3>2, <3>3
  <2>. HIDE DEF h
  <2>. QED  BY <1>1, <2>2, <2>3 DEF Remains, n
<1>. QED  BY <1>2, <1>3 DEF t

-----------------------------------------------------------------------------
(* Values.                                                                  *)

Kinds == {"b", "w", "s"}

LEMMA EncodedValue ==
    ASSUME NEW kind \in Kinds, NEW v \in Values(kind)
    PROVE  /\ Encoded(kind, v) \in Seq(Byte)
           /\ Decoded(kind, Encoded(kind, v)) = v
<1>1. CASE kind = "b"
  <2>1. Encoded(kind, v) = v /\ Decoded(kind, v) = v
    BY <1>1 DEF Encoded, Decoded
  <2>2. PICK n \in Byte : v = <<n>>
    BY <1>1 DEF Values
  <2>. QED  BY <2>1, <2>2
<1>2. CASE kind = "w"
  <2>1. PICK n \in 0 .. (Base * Base - 1) : v = <<n>>
    BY <1>2 DEF Values
  <2>2. n \in Nat /\ n < Base * Base
    <3>1. Base * Base \in Nat
      BY Bounds
    <3>. QED  BY <3>1
  <2>3. Word(n) \in Seq(Byte) /\ Word(n)[1] + Base * Word(n)[2] = n
    BY <2>2, WordValue
  <2>4. v[1] = n
    BY <2>1
  <2>5. Encoded(kind, v) = Word(n)
    BY <1>2, <2>4 DEF Encoded
  <2>6. Decoded(kind, Word(n)) = <<Word(n)[1] + Base * Word(n)[2]>>
    BY <1>2 DEF Decoded
  <2>. QED  BY <2>1, <2>3, <2>5, <2>6
<1>3. CASE kind = "s"
  <2>. DEFINE all == v \o <<0>>
  <2>1. v \in Seq(Byte) /\ <<0>> \in Seq(Byte) /\ Len(<<0>>) = 1
    <3>1. v \in Seq(Byte \ {0})
      BY <1>3 DEF Values
    <3>2. 0 \in Byte
      BY Bounds DEF Byte
    <3>. QED  BY <3>1, <3>2
  <2>2. /\ all \in Seq(Byte) /\ Len(all) = Len(v) + 1 /\ Len(v) \in Nat
        /\ \A i \in 1 .. Len(v) : all[i] = v[i]
    BY <2>1, ConcatProperties
  <2>3. Encoded(kind, v) = all /\ Decoded(kind, all) = SubSeq(all, 1, Len(all) - 1)
    BY <1>3 DEF Encoded, Decoded
  <2>. HIDE DEF all
  <2>4. SubSeq(all, 1, Len(v)) = v
    BY <2>1, <2>2
  <2>. QED  BY <2>2, <2>3, <2>4
<1>. QED  BY <1>1, <1>2, <1>3 DEF Kinds

LEMMA ContentBytes ==
    ASSUME NEW p, WellFormed(p)
    PROVE  /\ Content(p) \in Seq(Byte) /\ Len(Content(p)) = p.end - p.begin
           /\ \A j \in 1 .. (p.end - p.begin) : Content(p)[j] = p.buf[p.begin + j - 1]
<1>1. p.buf \in [Positions -> Byte] /\ p.begin \in 0 .. Cap /\ p.end \in p.begin .. Cap
  BY Fields, CapType
<1>. QED  BY <1>1, SegmentType DEF Content

\* pop knows how long the value in front is: strings end with the first zero.
LEMMA WidthOf ==
    ASSUME NEW p, WellFormed(p), NEW kind \in Kinds, NEW v \in Values(kind), NEW rest \in Seq(Byte),
           Content(p) = Encoded(kind, v) \o rest
    PROVE  Width(kind, p) = Len(Encoded(kind, v))
<1>1. CASE kind = "b"
  <2>1. PICK n \in Byte : v = <<n>>
    BY <1>1 DEF Values
  <2>2. Encoded(kind, v) = v /\ Width(kind, p) = 1
    BY <1>1 DEF Encoded, Width
  <2>. QED  BY <2>1, <2>2
<1>2. CASE kind = "w"
  <2>1. Encoded(kind, v) = Word(v[1]) /\ Width(kind, p) = 2
    BY <1>2 DEF Encoded, Width
  <2>. QED  BY <2>1 DEF Word
<1>3. CASE kind = "s"
  <2>. DEFINE n == Len(v)
              at == p.begin + n
              Zero(i) == p.buf[i] = 0 /\ \A j \in p.begin .. (i - 1) : p.buf[j] # 0
  <2>1. v \in Seq(Byte \ {0}) /\ n \in Nat /\ \A j \in 1 .. n : v[j] # 0
    BY <1>3 DEF Values
  <2>2. /\ Encoded(kind, v) = v \o <<0>>
        /\ Width(kind, p) = (CHOOSE i \in p.begin .. (Cap - 1) : Zero(i)) - p.begin + 1
    BY <1>3 DEF Encoded, Width
  <2>3. /\ Encoded(kind, v) \in Seq(Byte) /\ Len(Encoded(kind, v)) = n + 1
        /\ \A j \in 1 .. n : Encoded(kind, v)[j] = v[j]
        /\ Encoded(kind, v)[n + 1] = 0
    <3>1. v \in Seq(Byte) /\ <<0>> \in Seq(Byte) /\ Len(<<0>>) = 1 /\ <<0>>[1] = 0
      <4>1. 0 \in Byte
        BY Bounds DEF Byte
      <4>. QED  BY <2>1, <4>1
    <3>2. v \o <<0>> \in Seq(Byte) /\ Len(v \o <<0>>) = n + 1
      BY <3>1, ConcatProperties
    <3>3. \A j \in 1 .. n : (v \o <<0>>)[j] = v[j]
      BY <3>1
    <3>4. (v \o <<0>>)[n + 1] = 0
      BY <3>1, <2>1
    <3>. QED  BY <2>2, <3>2, <3>3, <3>4
  <2>. DEFINE e == Encoded(kind, v)
  <2>. HIDE DEF n, e
  <2>4. /\ e \in Seq(Byte) /\ Len(e) = n + 1 /\ e[n + 1] = 0
        /\ \A j \in 1 .. n : e[j] # 0
    BY <2>1, <2>3 DEF e
  <2>5. /\ Content(p) \in Seq(Byte) /\ Len(Content(p)) = p.end - p.begin
        /\ \A j \in 1 .. (p.end - p.begin) : Content(p)[j] = p.buf[p.begin + j - 1]
    BY ContentBytes
  <2>6. /\ p.begin \in Nat /\ p.end \in Nat /\ p.end <= Cap
        /\ n + 1 <= p.end - p.begin
        /\ \A j \in 1 .. (n + 1) : Content(p)[j] = e[j]
    <3>1. p.begin \in Nat /\ p.end \in Nat /\ p.end <= Cap
      BY Fields, CapType
    <3>2. Content(p) = e \o rest
      BY DEF e
    <3>3. Len(Content(p)) = Len(e) + Len(rest) /\ Len(rest) \in Nat
          /\ \A j \in 1 .. Len(e) : Content(p)[j] = e[j]
      <4>1. /\ Len(e \o rest) = Len(e) + Len(rest) /\ Len(rest) \in Nat
            /\ \A j \in 1 .. Len(e) : (e \o rest)[j] = e[j]
        BY <2>4, Together
      <4>. HIDE DEF Content
      <4>. QED  BY <3>2, <4>1
    <3>. QED  BY <2>1, <2>4, <2>5, <3>1, <3>3
  <2>7. \A j \in 1 .. (n + 1) : p.buf[p.begin + j - 1] = e[j]
    <3>1. \A j \in 1 .. (n + 1) : j \in 1 .. (p.end - p.begin)
      BY <2>1, <2>6
    <3>2. \A j \in 1 .. (n + 1) : Content(p)[j] = p.buf[p.begin + j - 1]
      BY <2>5, <3>1
    <3>. QED  BY <2>6, <3>2
  <2>8. at \in p.begin .. (Cap - 1) /\ Zero(at)
    <3>1. at \in p.begin .. (Cap - 1) /\ n + 1 \in 1 .. (n + 1) /\ at = p.begin + (n + 1) - 1
      <4>. DEFINE begin == p.begin
                  end == p.end
      <4>1. begin \in Nat /\ end \in Nat /\ n \in Nat /\ n + 1 <= end - begin /\ end <= Cap
        BY <2>1, <2>6
      <4>. HIDE DEF begin, end
      <4>2. /\ begin + n \in begin .. (Cap - 1) /\ n + 1 \in 1 .. (n + 1)
            /\ begin + n = begin + (n + 1) - 1
        BY <4>1, CapType
      <4>. QED  BY <4>2 DEF begin
    <3>2. p.buf[at] = 0
      BY <2>4, <2>7, <3>1
    <3>3. ASSUME NEW j \in p.begin .. (at - 1) PROVE p.buf[j] # 0
      <4>. DEFINE begin == p.begin
      <4>1. begin \in Nat /\ j \in begin .. (begin + n - 1) /\ n \in Nat
        BY <2>1, <2>6
      <4>. HIDE DEF begin
      <4>2. PICK i \in 1 .. n : i \in 1 .. (n + 1) /\ begin + i - 1 = j
        <5>1. j - begin + 1 \in 1 .. n /\ j - begin + 1 \in 1 .. (n + 1)
              /\ begin + (j - begin + 1) - 1 = j
          BY <4>1
        <5>. QED  BY <5>1
      <4>3. p.buf[begin + i - 1] = e[i] /\ e[i] # 0
        BY <2>4, <2>7, <4>2 DEF begin
      <4>. QED  BY <4>2, <4>3
    <3>. QED  BY <3>1, <3>2, <3>3
  <2>9. ASSUME NEW i \in p.begin .. (Cap - 1), Zero(i) PROVE i = at
    <3>1. CASE i < at
      <4>1. i \in p.begin .. (at - 1)
        BY <2>1, <2>6, <3>1
      <4>. QED  BY <2>8, <2>9, <4>1
    <3>2. CASE i > at
      <4>1. at \in p.begin .. (i - 1)
        BY <2>1, <2>6, <3>2
      <4>. QED  BY <2>8, <2>9, <4>1
    <3>3. i \in Nat /\ at \in Nat
      BY <2>1, <2>6
    <3>. QED  BY <3>1, <3>2, <3>3
  <2>. HIDE DEF Zero
  <2>10. (CHOOSE i \in p.begin .. (Cap - 1) : Zero(i)) = at
    BY <2>8, <2>9
  <2>11. at - p.begin + 1 = n + 1
    BY <2>1, <2>6
  <2>. HIDE DEF at
  <2>12. Width(kind, p) = n + 1
    BY <2>2, <2>10, <2>11
  <2>. QED  BY <2>4, <2>12 DEF e
<1>. QED  BY <1>1, <1>2, <1>3 DEF Kinds

LEMMA Split ==
    ASSUME NEW a \in Seq(Byte), NEW b \in Seq(Byte), NEW c \in Seq(Byte), NEW d \in Seq(Byte),
           a \o b = c \o d, Len(a) = Len(c)
    PROVE  a = c /\ b = d
<1>1. ASSUME NEW i \in 1 .. Len(a) PROVE a[i] = c[i]
  <2>1. (a \o b)[i] = a[i] /\ (c \o d)[i] = c[i]
    OBVIOUS
  <2>. QED  BY <2>1
<1>2. a = c
  BY <1>1, SeqEqual
<1>. QED  BY <1>2, ConcatSimplifications

\* pop of the value in front: it is answered and what follows it stays.
LEMMA PopValue ==
    ASSUME NEW p, WellFormed(p), NEW kind \in Kinds, NEW v \in Values(kind), NEW rest \in Seq(Byte),
           Content(p) = Encoded(kind, v) \o rest
    PROVE  LET n == Width(kind, p)
           IN  /\ WellFormed(Pop(p, n))
               /\ Decoded(kind, Popped(p, n)) = v
               /\ Content(Pop(p, n)) = rest
<1>. DEFINE n == Width(kind, p)
            e == Encoded(kind, v)
            q == Pop(p, n)
            head == Popped(p, n)
<1>1. n = Len(e)
  BY WidthOf
<1>2. e \in Seq(Byte) /\ Decoded(kind, e) = v
  BY EncodedValue
<1>3. Content(p) = e \o rest
  OBVIOUS
<1>. HIDE DEF e, n
<1>4. n \in Nat /\ n <= p.end - p.begin
  <2>1. Len(e \o rest) = Len(e) + Len(rest) /\ Len(rest) \in Nat
    BY <1>2, Together
  <2>2. Len(Content(p)) = p.end - p.begin
    BY ContentBytes
  <2>. QED  BY <1>1, <1>2, <1>3, <2>1, <2>2
<1>5. WellFormed(q) /\ head \o Content(q) = Content(p)
  BY <1>4, PopFits
<1>6. head \in Seq(Byte) /\ Len(head) = n
  <2>1. p.buf \in [Positions -> Byte] /\ p.begin \in 0 .. Cap /\ p.begin \in Nat /\ p.end \in Nat /\ p.end <= Cap
    BY Fields, CapType
  <2>2. p.begin + n \in p.begin .. Cap /\ (p.begin + n) - p.begin = n /\ ~(p.end - p.begin < n)
    BY <1>4, <2>1, CapType
  <2>3. head = Segment(p.buf, p.begin, p.begin + n)
    BY <2>2 DEF Popped
  <2>. HIDE DEF head
  <2>. QED  BY <2>1, <2>2, <2>3, SegmentType
<1>7. Content(q) \in Seq(Byte)
  BY <1>5, ContentBytes
<1>. HIDE DEF head, q
<1>8. head = e /\ Content(q) = rest
  BY <1>1, <1>2, <1>3, <1>5, <1>6, <1>7, Split
<1>9. WellFormed(q) /\ Decoded(kind, head) = v /\ Content(q) = rest
  BY <1>2, <1>5, <1>8
<1>. QED  BY <1>9 DEF head, q, n

-----------------------------------------------------------------------------
(* Lists of values, pushed one after another and popped again.              *)

Listed(kinds, values) ==
    /\ kinds \in Seq(Kinds) /\ values \in Seq(Seq(Nat)) /\ Len(values) = Len(kinds)
    /\ \A i \in 1 .. Len(kinds) : values[i] \in Values(kinds[i])

Encodings(kinds, values) == [i \in 1 .. Len(kinds) |-> Encoded(kinds[i], values[i])]

FirstOf(s, n) == [i \in 1 .. n |-> s[i]]

LEMMA EncodingsType ==
    ASSUME NEW kinds, NEW values, Listed(kinds, values)
    PROVE  /\ Encodings(kinds, values) \in Seq(Seq(Byte))
           /\ Len(Encodings(kinds, values)) = Len(kinds) /\ Len(kinds) \in Nat
           /\ \A i \in 1 .. Len(kinds) :
                /\ kinds[i] \in Kinds /\ values[i] \in Values(kinds[i])
                /\ Encodings(kinds, values)[i] = Encoded(kinds[i], values[i])
                /\ Encoded(kinds[i], values[i]) \in Seq(Byte)
<1>1. Len(kinds) \in Nat
  BY DEF Listed
<1>2. \A i \in 1 .. Len(kinds) : kinds[i] \in Kinds /\ values[i] \in Values(kinds[i])
  BY DEF Listed
<1>3. \A i \in 1 .. Len(kinds) : Encoded(kinds[i], values[i]) \in Seq(Byte)
  BY <1>2, EncodedValue
<1>. QED  BY <1>1, <1>2, <1>3 DEF Encodings

LEMMA FirstOfMore ==
    ASSUME NEW S, NEW s \in Seq(S), NEW n \in Nat, n < Len(s)
    PROVE  /\ FirstOf(s, n) \in Seq(S) /\ Len(FirstOf(s, n)) = n
           /\ FirstOf(s, n + 1) = Append(FirstOf(s, n), s[n + 1]) /\ s[n + 1] \in S
<1>1. n + 1 \in 1 .. Len(s) /\ \A i \in 1 .. (n + 1) : s[i] \in S
  OBVIOUS
<1>2. FirstOf(s, n) \in Seq(S) /\ Len(FirstOf(s, n)) = n /\ \A i \in 1 .. n : FirstOf(s, n)[i] = s[i]
  BY <1>1 DEF FirstOf
<1>3. /\ FirstOf(s, n + 1) \in Seq(S) /\ Len(FirstOf(s, n + 1)) = n + 1
      /\ \A i \in 1 .. (n + 1) : FirstOf(s, n + 1)[i] = s[i]
  BY <1>1 DEF FirstOf
<1>. DEFINE a == FirstOf(s, n)
            b == FirstOf(s, n + 1)
            c == Append(a, s[n + 1])
<1>. HIDE DEF a, b
<1>4. /\ a \in Seq(S) /\ Len(a) = n /\ \A i \in 1 .. n : a[i] = s[i]
      /\ b \in Seq(S) /\ Len(b) = n + 1 /\ \A i \in 1 .. (n + 1) : b[i] = s[i]
  BY <1>2, <1>3 DEF a, b
<1>5. /\ c \in Seq(S) /\ Len(c) = n + 1 /\ c[n + 1] = s[n + 1]
      /\ \A i \in 1 .. n : c[i] = s[i]
  BY <1>1, <1>4, AppendProperties
<1>. HIDE DEF c
<1>6. \A i \in 1 .. (n + 1) : b[i] = c[i]
  <2>1. \A i \in 1 .. (n + 1) : i \in 1 .. n \/ i = n + 1
    OBVIOUS
  <2>. QED  BY <1>4, <1>5, <2>1
<1>7. b = c
  BY <1>4, <1>5, <1>6, SeqEqual
<1>. QED  BY <1>1, <1>2, <1>7 DEF a, b, c

LEMMA FirstOfAll ==
    ASSUME NEW S, NEW s \in Seq(S)
    PROVE  FirstOf(s, Len(s)) = s /\ FirstOf(s, 0) = <<>>
  BY DEF FirstOf

LEMMA Grow ==
    ASSUME NEW n \in Nat, NEW f \in [0 .. n -> Nat], \A i \in 1 .. n : f[i - 1] <= f[i]
    PROVE  \A i, j \in 0 .. n : i <= j => f[i] <= f[j]
<1>. DEFINE T == {k \in Nat : \A i \in 0 .. n : i + k <= n => f[i] <= f[i + k]}
<1>1. 0 \in T
  OBVIOUS
<1>2. ASSUME NEW k \in T PROVE k + 1 \in T
  <2>. SUFFICES ASSUME NEW i \in 0 .. n, i + (k + 1) <= n PROVE f[i] <= f[i + (k + 1)]
    OBVIOUS
  <2>. DEFINE j == i + (k + 1)
  <2>1. j \in 1 .. n /\ j - 1 = i + k /\ i + k <= n /\ i + k \in 0 .. n /\ j \in 0 .. n
    OBVIOUS
  <2>2. f[i] <= f[i + k] /\ f[j - 1] <= f[j]
    BY <2>1
  <2>. HIDE DEF j
  <2>3. f[i] \in Nat /\ f[i + k] \in Nat /\ f[j] \in Nat
    BY <2>1
  <2>. QED  BY <2>1, <2>2, <2>3 DEF j
<1>3. T = Nat
  <2>. HIDE DEF T
  <2>. QED  BY <1>1, <1>2, Induct, T \in SUBSET Nat DEF T
<1>4. ASSUME NEW i \in 0 .. n, NEW j \in 0 .. n, i <= j PROVE f[i] <= f[j]
  <2>1. PICK k \in Nat : j = i + k
    <3>1. j - i \in Nat /\ j = i + (j - i)
      BY <1>4
    <3>. QED  BY <3>1
  <2>2. \A h \in 0 .. n : h + k <= n => f[h] <= f[h + k]
    BY <1>3
  <2>. QED  BY <2>1, <2>2
<1>. QED  BY <1>4

\* The function that PushAll is defined by.
PushesTo(step, n, p, kinds, values) ==
    step = [i \in 0 .. n |-> IF i = 0 THEN p
                             ELSE Push(step[i - 1], Encoded(kinds[i], values[i]))]

LEMMA PushesExist ==
    ASSUME NEW m \in Nat, NEW p, NEW kinds, NEW values
    PROVE  \E step : PushesTo(step, m, p, kinds, values)
<1>. DEFINE E(before, i) == Push(before, Encoded(kinds[i], values[i]))
            T == {n \in Nat : \E f : f = [i \in 0 .. n |-> IF i = 0 THEN p ELSE E(f[i - 1], i)]}
<1>. HIDE DEF E
<1>1. 0 \in T
  <2>. DEFINE f == [i \in 0 .. 0 |-> p]
  <2>1. f = [i \in 0 .. 0 |-> IF i = 0 THEN p ELSE E(f[i - 1], i)]
    OBVIOUS
  <2>. QED  BY <2>1
<1>2. ASSUME NEW n \in T PROVE n + 1 \in T
  <2>1. PICK f : f = [i \in 0 .. n |-> IF i = 0 THEN p ELSE E(f[i - 1], i)]
    OBVIOUS
  <2>. DEFINE g == [i \in 0 .. (n + 1) |-> IF i <= n THEN f[i] ELSE E(f[n], n + 1)]
  <2>2. ASSUME NEW i \in 0 .. (n + 1) PROVE g[i] = IF i = 0 THEN p ELSE E(g[i - 1], i)
    <3>1. CASE i = 0
      <4>1. f[0] = p /\ 0 <= n
        BY <2>1
      <4>. QED  BY <3>1, <4>1
    <3>2. CASE i # 0 /\ i <= n
      <4>1. i \in 0 .. n /\ i - 1 \in 0 .. (n + 1) /\ i - 1 <= n
        BY <3>2
      <4>2. f[i] = E(f[i - 1], i)
        BY <2>1, <3>2, <4>1
      <4>3. g[i] = f[i] /\ g[i - 1] = f[i - 1]
        BY <3>2, <4>1
      <4>. QED  BY <3>2, <4>2, <4>3
    <3>3. CASE i = n + 1
      <4>1. i # 0 /\ ~(i <= n) /\ i - 1 = n /\ n \in 0 .. (n + 1) /\ n <= n
        BY <3>3
      <4>2. g[i] = E(f[n], n + 1) /\ g[n] = f[n]
        BY <3>3, <4>1
      <4>. QED  BY <3>3, <4>1, <4>2
    <3>4. i = 0 \/ (i # 0 /\ i <= n) \/ i = n + 1
      OBVIOUS
    <3>. QED  BY <3>1, <3>2, <3>3, <3>4
  <2>3. g = [i \in 0 .. (n + 1) |-> g[i]]
    OBVIOUS
  <2>. HIDE DEF g
  <2>4. g = [i \in 0 .. (n + 1) |-> IF i = 0 THEN p ELSE E(g[i - 1], i)]
    BY <2>2, <2>3
  <2>. QED  BY <2>4
<1>3. T = Nat
  <2>. HIDE DEF T
  <2>. QED  BY <1>1, <1>2, Induct, T \in SUBSET Nat DEF T
<1>4. \E f : f = [i \in 0 .. m |-> IF i = 0 THEN p ELSE E(f[i - 1], i)]
  BY <1>3
<1>. QED  BY <1>4 DEF PushesTo, E

\* What is left to pop of q: that of p, and these values behind it.
Pushed(q, p, kinds, values, size) ==
    /\ WellFormed(q) /\ Type(q) = Type(p) /\ q.begin = p.begin /\ q.end = size
    /\ \E bytes : /\ Content(q) = Content(p) \o bytes
                  /\ Remains(Encodings(kinds, values), 0, bytes)

\* Where the packet ends after each of them.
SizesAre(len, first, kinds, values) ==
    /\ len \in [0 .. Len(kinds) -> Nat] /\ len[0] = first
    /\ \A i \in 1 .. Len(kinds) : len[i] = len[i - 1] + Len(Encoded(kinds[i], values[i]))

\* Pushed one after another, values that fit follow each other in the packet.
LEMMA PushAllHolds ==
    ASSUME NEW p, WellFormed(p), NEW kinds, NEW values, Listed(kinds, values), NEW len,
           SizesAre(len, p.end, kinds, values), len[Len(kinds)] <= Cap
    PROVE  Pushed(PushAll(p, kinds, values), p, kinds, values, len[Len(kinds)])
<1>. DEFINE n == Len(kinds)
            s == Encodings(kinds, values)
<1>1. /\ s \in Seq(Seq(Byte)) /\ Len(s) = n /\ n \in Nat
      /\ \A i \in 1 .. n : s[i] = Encoded(kinds[i], values[i]) /\ s[i] \in Seq(Byte)
  BY EncodingsType
<1>0. /\ len \in [0 .. n -> Nat] /\ len[0] = p.end /\ len[n] <= Cap
      /\ \A i \in 1 .. n : len[i] = len[i - 1] + Len(Encoded(kinds[i], values[i]))
  BY DEF SizesAre
<1>2. PushAll(p, kinds, values) = (CHOOSE step : PushesTo(step, n, p, kinds, values))[n]
  BY DEF PushAll, PushesTo
<1>3. PICK step : PushesTo(step, n, p, kinds, values) /\ PushAll(p, kinds, values) = step[n]
  BY <1>1, <1>2, PushesExist
<1>4. step[0] = p /\ \A i \in 1 .. n : step[i] = Push(step[i - 1], s[i])
  <2>1. step = [i \in 0 .. n |-> IF i = 0 THEN p ELSE Push(step[i - 1], Encoded(kinds[i], values[i]))]
    BY <1>3 DEF PushesTo
  <2>2. step[0] = p
    BY <1>1, <2>1
  <2>3. ASSUME NEW i \in 1 .. n PROVE step[i] = Push(step[i - 1], s[i])
    <3>1. i \in 0 .. n /\ i # 0
      BY <1>1
    <3>2. step[i] = Push(step[i - 1], Encoded(kinds[i], values[i]))
      BY <2>1, <3>1
    <3>. QED  BY <1>1, <3>2
  <2>. QED  BY <2>2, <2>3
<1>5. \A i \in 0 .. n : len[i] <= Cap
  <2>0. /\ len \in [0 .. n -> Nat] /\ len[n] <= Cap
        /\ \A i \in 1 .. n : len[i] = len[i - 1] + Len(s[i])
    BY <1>0, <1>1
  <2>. HIDE DEF n, s
  <2>1. ASSUME NEW i \in 1 .. n PROVE len[i - 1] <= len[i]
    <3>1. s[i] \in Seq(Byte) /\ i - 1 \in 0 .. n /\ i \in 0 .. n
      BY <1>1
    <3>2. Len(s[i]) \in Nat
      BY <3>1
    <3>3. len[i - 1] \in Nat /\ len[i] \in Nat
      BY <2>0, <3>1
    <3>4. len[i] = len[i - 1] + Len(s[i])
      BY <2>0
    <3>. QED  BY <3>2, <3>3, <3>4
  <2>2. \A i \in 0 .. n : len[i] <= len[n]
    <3>1. n \in 0 .. n /\ \A i \in 0 .. n : i <= n
      BY <1>1
    <3>2. \A i, j \in 0 .. n : i <= j => len[i] <= len[j]
      BY <1>1, <2>0, <2>1, Grow
    <3>. QED  BY <3>1, <3>2
  <2>3. \A i \in 0 .. n : len[i] \in Nat
    BY <2>0
  <2>4. n \in 0 .. n
    BY <1>1
  <2>. QED  BY <2>0, <2>2, <2>3, <2>4, CapType
<1>. DEFINE Holds(k, bytes) == Content(step[k]) = Content(p) \o bytes /\ Remains(FirstOf(s, k), 0, bytes)
            Good(k) == /\ WellFormed(step[k]) /\ Type(step[k]) = Type(p) /\ step[k].begin = p.begin
                       /\ step[k].end = len[k]
                       /\ \E bytes : Holds(k, bytes)
            T == {k \in Nat : k <= n => Good(k)}
<1>. HIDE DEF n, s
<1>6. Good(0)
  <2>1. FirstOf(s, 0) = <<>> /\ <<>> \in Seq(Seq(Byte)) /\ Len(<<>>) = 0
    BY <1>1, FirstOfAll
  <2>2. Remains(FirstOf(s, 0), 0, <<>>)
    BY <2>1, RemainsNone
  <2>3. Content(p) \o <<>> = Content(p)
    BY ContentBytes, ConcatEmptySeq
  <2>4. Holds(0, <<>>)
    BY <1>4, <2>2, <2>3
  <2>. HIDE DEF Holds
  <2>. QED  BY <1>0, <1>4, <2>4
<1>7. ASSUME NEW k \in Nat, k + 1 <= n, Good(k) PROVE Good(k + 1)
  <2>1. k + 1 \in 1 .. n /\ (k + 1) - 1 = k /\ k \in 0 .. n /\ k + 1 \in 0 .. n /\ k < Len(s)
    BY <1>1, <1>7
  <2>. DEFINE q == step[k]
              x == s[k + 1]
              t == FirstOf(s, k)
  <2>2. step[k + 1] = Push(q, x) /\ x \in Seq(Byte)
    BY <1>1, <1>4, <2>1
  <2>3. len[k + 1] = len[k] + Len(x) /\ len[k + 1] <= Cap
    BY <1>0, <1>1, <1>5, <2>1
  <2>4. /\ t \in Seq(Seq(Byte)) /\ Len(t) = k /\ FirstOf(s, k + 1) = Append(t, x)
    BY <1>1, <2>1, FirstOfMore
  <2>5. /\ WellFormed(q) /\ Type(q) = Type(p) /\ q.begin = p.begin /\ q.end = len[k]
    BY <1>7
  <2>6. PICK bytes : Content(q) = Content(p) \o bytes /\ Remains(t, 0, bytes)
    BY <1>7
  <2>. HIDE DEF q, x, t
  <2>7. q.end + Len(x) <= Cap
    BY <2>3, <2>5
  <2>8. /\ WellFormed(Push(q, x)) /\ Content(Push(q, x)) = Content(q) \o x
        /\ Type(Push(q, x)) = Type(q)
        /\ Push(q, x).begin = q.begin /\ Push(q, x).end = q.end + Len(x)
    BY <2>2, <2>5, <2>7, PushFits
  <2>9. bytes \in Seq(Byte) /\ Remains(Append(t, x), 0, bytes \o x)
    <3>1. 0 \in 0 .. Len(t)
      BY <2>4
    <3>. QED  BY <2>2, <2>4, <2>6, <3>1, RemainsType, RemainsMore
  <2>10. Content(Push(q, x)) = Content(p) \o (bytes \o x)
    <3>. DEFINE c == Content(p)
    <3>1. c \in Seq(Byte) /\ Content(Push(q, x)) = (c \o bytes) \o x
      BY <2>6, <2>8, ContentBytes
    <3>. HIDE DEF c
    <3>2. (c \o bytes) \o x = c \o (bytes \o x)
      BY <2>2, <2>9, <3>1, Regroup
    <3>. QED  BY <3>1, <3>2 DEF c
  <2>11. Holds(k + 1, bytes \o x)
    BY <2>2, <2>4, <2>9, <2>10
  <2>. HIDE DEF Holds
  <2>. QED  BY <2>2, <2>3, <2>5, <2>8, <2>11
<1>8. T = Nat
  <2>. HIDE DEF Good
  <2>1. 0 \in T
    BY <1>6
  <2>2. ASSUME NEW k \in T PROVE k + 1 \in T
    <3>1. k \in Nat /\ (k + 1 <= n => k <= n)
      BY <1>1
    <3>. QED  BY <1>7, <3>1
  <2>. HIDE DEF T
  <2>. QED  BY <2>1, <2>2, Induct, T \in SUBSET Nat DEF T
<1>9. Good(n)
  <2>. HIDE DEF Good
  <2>1. n \in T
    BY <1>1, <1>8
  <2>. QED  BY <1>1, <2>1
<1>10. FirstOf(s, n) = s
  BY <1>1, FirstOfAll
<1>. QED  BY <1>3, <1>9, <1>10 DEF n, s, Pushed

\* The function that PopAll is defined by.
NextPop(before, kind) ==
    [rest |-> Pop(before.rest, Width(kind, before.rest)),
     values |-> Append(before.values,
                       Decoded(kind, Popped(before.rest, Width(kind, before.rest))))]

PopsTo(step, n, p, kinds) ==
    step = [i \in 0 .. n |-> IF i = 0 THEN [rest |-> p, values |-> <<>>]
                             ELSE NextPop(step[i - 1], kinds[i])]

LEMMA PopsExist ==
    ASSUME NEW m \in Nat, NEW p, NEW kinds
    PROVE  \E step : PopsTo(step, m, p, kinds)
<1>. DEFINE E(before, i) == NextPop(before, kinds[i])
            start == [rest |-> p, values |-> <<>>]
            T == {n \in Nat : \E f : f = [i \in 0 .. n |-> IF i = 0 THEN start ELSE E(f[i - 1], i)]}
<1>. HIDE DEF E, start
<1>1. 0 \in T
  <2>. DEFINE f == [i \in 0 .. 0 |-> start]
  <2>1. f = [i \in 0 .. 0 |-> IF i = 0 THEN start ELSE E(f[i - 1], i)]
    OBVIOUS
  <2>. QED  BY <2>1
<1>2. ASSUME NEW n \in T PROVE n + 1 \in T
  <2>1. PICK f : f = [i \in 0 .. n |-> IF i = 0 THEN start ELSE E(f[i - 1], i)]
    OBVIOUS
  <2>. DEFINE g == [i \in 0 .. (n + 1) |-> IF i <= n THEN f[i] ELSE E(f[n], n + 1)]
  <2>2. ASSUME NEW i \in 0 .. (n + 1) PROVE g[i] = IF i = 0 THEN start ELSE E(g[i - 1], i)
    <3>1. CASE i = 0
      <4>1. f[0] = start /\ 0 <= n
        BY <2>1
      <4>. QED  BY <3>1, <4>1
    <3>2. CASE i # 0 /\ i <= n
      <4>1. i \in 0 .. n /\ i - 1 \in 0 .. (n + 1) /\ i - 1 <= n
        BY <3>2
      <4>2. f[i] = E(f[i - 1], i)
        BY <2>1, <3>2, <4>1
      <4>3. g[i] = f[i] /\ g[i - 1] = f[i - 1]
        BY <3>2, <4>1
      <4>. QED  BY <3>2, <4>2, <4>3
    <3>3. CASE i = n + 1
      <4>1. i # 0 /\ ~(i <= n) /\ i - 1 = n /\ n \in 0 .. (n + 1) /\ n <= n
        BY <3>3
      <4>2. g[i] = E(f[n], n + 1) /\ g[n] = f[n]
        BY <3>3, <4>1
      <4>. QED  BY <3>3, <4>1, <4>2
    <3>4. i = 0 \/ (i # 0 /\ i <= n) \/ i = n + 1
      OBVIOUS
    <3>. QED  BY <3>1, <3>2, <3>3, <3>4
  <2>3. g = [i \in 0 .. (n + 1) |-> g[i]]
    OBVIOUS
  <2>. HIDE DEF g
  <2>4. g = [i \in 0 .. (n + 1) |-> IF i = 0 THEN start ELSE E(g[i - 1], i)]
    BY <2>2, <2>3
  <2>. QED  BY <2>4
<1>3. T = Nat
  <2>. HIDE DEF T
  <2>. QED  BY <1>1, <1>2, Induct, T \in SUBSET Nat DEF T
<1>4. \E f : f = [i \in 0 .. m |-> IF i = 0 THEN start ELSE E(f[i - 1], i)]
  BY <1>3
<1>. QED  BY <1>4 DEF PopsTo, E, start

\* Popped one after another, the values come back.
LEMMA PopAllHolds ==
    ASSUME NEW p, WellFormed(p), NEW kinds, NEW values, Listed(kinds, values),
           Remains(Encodings(kinds, values), 0, Content(p))
    PROVE  PopAll(p, kinds) = values
<1>. DEFINE n == Len(kinds)
            s == Encodings(kinds, values)
<1>1. /\ s \in Seq(Seq(Byte)) /\ Len(s) = n /\ n \in Nat
      /\ \A i \in 1 .. n : kinds[i] \in Kinds /\ values[i] \in Values(kinds[i])
                           /\ s[i] = Encoded(kinds[i], values[i])
  BY EncodingsType
<1>2. PopAll(p, kinds) = (CHOOSE step : PopsTo(step, n, p, kinds))[n].values
  BY DEF PopAll, PopsTo, NextPop
<1>3. PICK step : PopsTo(step, n, p, kinds) /\ PopAll(p, kinds) = step[n].values
  BY <1>1, <1>2, PopsExist
<1>4. /\ step[0] = [rest |-> p, values |-> <<>>]
      /\ \A i \in 1 .. n : step[i] = NextPop(step[i - 1], kinds[i])
  <2>1. step = [i \in 0 .. n |-> IF i = 0 THEN [rest |-> p, values |-> <<>>]
                                 ELSE NextPop(step[i - 1], kinds[i])]
    BY <1>3 DEF PopsTo
  <2>2. step[0] = [rest |-> p, values |-> <<>>]
    BY <1>1, <2>1
  <2>3. ASSUME NEW i \in 1 .. n PROVE step[i] = NextPop(step[i - 1], kinds[i])
    <3>1. i \in 0 .. n /\ i # 0
      BY <1>1
    <3>. QED  BY <2>1, <3>1
  <2>. QED  BY <2>2, <2>3
<1>. DEFINE Good(k) == /\ WellFormed(step[k].rest) /\ Remains(s, k, Content(step[k].rest))
                       /\ step[k].values = FirstOf(values, k)
            T == {k \in Nat : k <= n => Good(k)}
<1>5. values \in Seq(Seq(Nat)) /\ Len(values) = n
  BY DEF Listed
<1>6. Remains(s, 0, Content(p))
  OBVIOUS
<1>. HIDE DEF n, s
<1>7. Good(0)
  <2>1. FirstOf(values, 0) = <<>>
    BY <1>5, FirstOfAll
  <2>2. step[0].rest = p /\ step[0].values = <<>>
    BY <1>4
  <2>. QED  BY <1>6, <2>1, <2>2
<1>8. ASSUME NEW k \in Nat, k + 1 <= n, Good(k) PROVE Good(k + 1)
  <2>. DEFINE q == step[k].rest
              kind == kinds[k + 1]
              v == values[k + 1]
              w == Width(kind, q)
  <2>1. k + 1 \in 1 .. n /\ (k + 1) - 1 = k /\ k \in 0 .. (Len(s) - 1) /\ k < Len(values)
    BY <1>1, <1>5, <1>8
  <2>2. kind \in Kinds /\ v \in Values(kind) /\ s[k + 1] = Encoded(kind, v)
    BY <1>1, <2>1
  <2>3. step[k + 1] = NextPop(step[k], kind)
    BY <1>4, <2>1
  <2>4. /\ step[k + 1].rest = Pop(q, w)
        /\ step[k + 1].values = Append(step[k].values, Decoded(kind, Popped(q, w)))
    BY <2>3 DEF NextPop
  <2>5. WellFormed(q) /\ Remains(s, k, Content(q)) /\ step[k].values = FirstOf(values, k)
    BY <1>8
  <2>6. FirstOf(values, k + 1) = Append(FirstOf(values, k), v)
    BY <1>5, <2>1, FirstOfMore
  <2>. HIDE DEF q, kind, v
  <2>7. PICK rest \in Seq(Byte) : Content(q) = s[k + 1] \o rest /\ Remains(s, k + 1, rest)
    BY <1>1, <2>1, <2>5, RemainsTake
  <2>8. WellFormed(Pop(q, w)) /\ Decoded(kind, Popped(q, w)) = v /\ Content(Pop(q, w)) = rest
    <3>1. Content(q) = Encoded(kind, v) \o rest
      BY <2>2, <2>7
    <3>2. /\ WellFormed(Pop(q, Width(kind, q)))
          /\ Decoded(kind, Popped(q, Width(kind, q))) = v
          /\ Content(Pop(q, Width(kind, q))) = rest
      BY <2>2, <2>5, <3>1, PopValue
    <3>. QED  BY <3>2
  <2>. HIDE DEF w
  <2>. QED  BY <2>4, <2>5, <2>6, <2>7, <2>8
<1>9. T = Nat
  <2>. HIDE DEF Good
  <2>1. 0 \in T
    BY <1>7
  <2>2. ASSUME NEW k \in T PROVE k + 1 \in T
    <3>1. k \in Nat /\ (k + 1 <= n => k <= n)
      BY <1>1
    <3>. QED  BY <1>8, <3>1
  <2>. HIDE DEF T
  <2>. QED  BY <2>1, <2>2, Induct, T \in SUBSET Nat DEF T
<1>10. Good(n)
  <2>. HIDE DEF Good
  <2>1. n \in T
    BY <1>1, <1>9
  <2>. QED  BY <1>1, <2>1
<1>11. FirstOf(values, n) = values
  BY <1>5, FirstOfAll
<1>. QED  BY <1>3, <1>10, <1>11

\* The function that Length is defined by.
SumsTo(sum, n, kinds, values) ==
    sum = [i \in 0 .. n |-> IF i = 0 THEN 0
                            ELSE sum[i - 1] + Len(Encoded(kinds[i], values[i]))]

LEMMA SumsExist ==
    ASSUME NEW m \in Nat, NEW kinds, NEW values
    PROVE  \E sum : SumsTo(sum, m, kinds, values)
<1>. DEFINE E(before, i) == before + Len(Encoded(kinds[i], values[i]))
            T == {n \in Nat : \E f : f = [i \in 0 .. n |-> IF i = 0 THEN 0 ELSE E(f[i - 1], i)]}
<1>. HIDE DEF E
<1>1. 0 \in T
  <2>. DEFINE f == [i \in 0 .. 0 |-> 0]
  <2>1. f = [i \in 0 .. 0 |-> IF i = 0 THEN 0 ELSE E(f[i - 1], i)]
    OBVIOUS
  <2>. QED  BY <2>1
<1>2. ASSUME NEW n \in T PROVE n + 1 \in T
  <2>1. PICK f : f = [i \in 0 .. n |-> IF i = 0 THEN 0 ELSE E(f[i - 1], i)]
    OBVIOUS
  <2>. DEFINE g == [i \in 0 .. (n + 1) |-> IF i <= n THEN f[i] ELSE E(f[n], n + 1)]
  <2>2. ASSUME NEW i \in 0 .. (n + 1) PROVE g[i] = IF i = 0 THEN 0 ELSE E(g[i - 1], i)
    <3>1. CASE i = 0
      <4>1. f[0] = 0 /\ 0 <= n
        BY <2>1
      <4>. QED  BY <3>1, <4>1
    <3>2. CASE i # 0 /\ i <= n
      <4>1. i \in 0 .. n /\ i - 1 \in 0 .. (n + 1) /\ i - 1 <= n
        BY <3>2
      <4>2. f[i] = E(f[i - 1], i)
        BY <2>1, <3>2, <4>1
      <4>3. g[i] = f[i] /\ g[i - 1] = f[i - 1]
        BY <3>2, <4>1
      <4>. QED  BY <3>2, <4>2, <4>3
    <3>3. CASE i = n + 1
      <4>1. i # 0 /\ ~(i <= n) /\ i - 1 = n /\ n \in 0 .. (n + 1) /\ n <= n
        BY <3>3
      <4>2. g[i] = E(f[n], n + 1) /\ g[n] = f[n]
        BY <3>3, <4>1
      <4>. QED  BY <3>3, <4>1, <4>2
    <3>4. i = 0 \/ (i # 0 /\ i <= n) \/ i = n + 1
      OBVIOUS
    <3>. QED  BY <3>1, <3>2, <3>3, <3>4
  <2>3. g = [i \in 0 .. (n + 1) |-> g[i]]
    OBVIOUS
  <2>. HIDE DEF g
  <2>4. g = [i \in 0 .. (n + 1) |-> IF i = 0 THEN 0 ELSE E(g[i - 1], i)]
    BY <2>2, <2>3
  <2>. QED  BY <2>4
<1>3. T = Nat
  <2>. HIDE DEF T
  <2>. QED  BY <1>1, <1>2, Induct, T \in SUBSET Nat DEF T
<1>4. \E f : f = [i \in 0 .. m |-> IF i = 0 THEN 0 ELSE E(f[i - 1], i)]
  BY <1>3
<1>. QED  BY <1>4 DEF SumsTo, E

LEMMA LengthIs ==
    ASSUME NEW kinds, NEW values, Listed(kinds, values)
    PROVE  \E sum \in [0 .. Len(kinds) -> Nat] :
              /\ sum[0] = 0 /\ Length(kinds, values) = sum[Len(kinds)]
              /\ \A i \in 1 .. Len(kinds) :
                    sum[i] = sum[i - 1] + Len(Encoded(kinds[i], values[i]))
<1>. DEFINE n == Len(kinds)
<1>1. n \in Nat /\ \A i \in 1 .. n : Len(Encoded(kinds[i], values[i])) \in Nat
  BY EncodingsType
<1>2. Length(kinds, values) = (CHOOSE sum : SumsTo(sum, n, kinds, values))[n]
  BY DEF Length, SumsTo
<1>3. PICK sum : SumsTo(sum, n, kinds, values) /\ Length(kinds, values) = sum[n]
  BY <1>1, <1>2, SumsExist
<1>. HIDE DEF n
<1>4. sum = [i \in 0 .. n |-> IF i = 0 THEN 0 ELSE sum[i - 1] + Len(Encoded(kinds[i], values[i]))]
  BY <1>3 DEF SumsTo
<1>5. /\ sum[0] = 0 /\ sum = [i \in 0 .. n |-> sum[i]]
      /\ \A i \in 1 .. n : sum[i] = sum[i - 1] + Len(Encoded(kinds[i], values[i]))
  <2>1. \A i \in 1 .. n : i \in 0 .. n /\ i # 0
    BY <1>1
  <2>2. \A i \in 0 .. n : sum[i] = IF i = 0 THEN 0 ELSE sum[i - 1] + Len(Encoded(kinds[i], values[i]))
    <3>. DEFINE E(i) == IF i = 0 THEN 0 ELSE sum[i - 1] + Len(Encoded(kinds[i], values[i]))
    <3>1. sum = [i \in 0 .. n |-> E(i)]
      BY <1>4
    <3>. HIDE DEF E
    <3>2. \A i \in 0 .. n : sum[i] = E(i)
      BY <3>1
    <3>. QED  BY <3>2 DEF E
  <2>3. DOMAIN sum = 0 .. n /\ sum = [i \in DOMAIN sum |-> sum[i]]
    BY <1>4
  <2>4. sum[0] = 0
    <3>1. 0 \in 0 .. n
      BY <1>1
    <3>. QED  BY <2>2, <3>1
  <2>5. ASSUME NEW i \in 1 .. n
        PROVE  sum[i] = sum[i - 1] + Len(Encoded(kinds[i], values[i]))
    BY <2>1, <2>2
  <2>6. sum = [i \in 0 .. n |-> sum[i]]
    BY <2>3
  <2>. QED  BY <2>4, <2>5, <2>6
<1>. DEFINE T == {k \in Nat : k <= n => sum[k] \in Nat}
<1>6. T = Nat
  <2>1. 0 \in T
    BY <1>5
  <2>2. ASSUME NEW k \in T PROVE k + 1 \in T
    <3>. SUFFICES ASSUME k + 1 <= n PROVE sum[k + 1] \in Nat
      OBVIOUS
    <3>1. k + 1 \in 1 .. n /\ (k + 1) - 1 = k /\ sum[k] \in Nat
      BY <1>1
    <3>. QED  BY <1>1, <1>5, <3>1
  <2>. HIDE DEF T
  <2>. QED  BY <2>1, <2>2, Induct, T \in SUBSET Nat DEF T
<1>7. \A k \in 0 .. n : sum[k] \in Nat
  BY <1>1, <1>6
<1>8. sum \in [0 .. n -> Nat]
  BY <1>5, <1>7
<1>. QED  BY <1>3, <1>5, <1>8 DEF n

LEMMA LengthNat ==
    ASSUME NEW kinds, NEW values, Listed(kinds, values)
    PROVE  Length(kinds, values) \in Nat
<1>1. PICK sum \in [0 .. Len(kinds) -> Nat] : Length(kinds, values) = sum[Len(kinds)]
  BY LengthIs
<1>2. Len(kinds) \in 0 .. Len(kinds)
  BY EncodingsType
<1>. QED  BY <1>1, <1>2

-----------------------------------------------------------------------------
(* One packet, from the sender to the client.                               *)

Message == UNION {{[type |-> t, values |-> v] : v \in Contents[t]} : t \in Types}

In(m) == Image(Packed(m.type, m.values))

Handled(p) ==
    ChangeType(IF Relays[Type(p)] = "append" THEN Push(p, Word(Uid))
               ELSE Pop(p, Width(Head(Format[Type(p)]), p)),
               NewType[Type(p)])

Out(m) == Image(Handled(FromBytes(In(m))))

\* Bytes that say in front how many they are.
Frame(x) == x \in Seq(Byte) /\ Len(x) \in 3 .. Cap /\ x[1] + Base * x[2] = Len(x)

LEMMA ImageFrame ==
    ASSUME NEW p, WellFormed(p)
    PROVE  Frame(Image(p))
<1>1. /\ p.buf \in [Positions -> Byte] /\ p.header \in 0 .. Cap /\ p.end \in p.header .. Cap
      /\ p.header \in Nat /\ p.end - p.header \in 3 .. Cap
  BY Fields, CapType
<1>2. /\ Image(p) \in Seq(Byte) /\ Len(Image(p)) = p.end - p.header
      /\ \A i \in 1 .. (p.end - p.header) : Image(p)[i] = p.buf[p.header + i - 1]
  BY <1>1, SegmentType DEF Image
<1>3. Image(p)[1] = p.buf[p.header] /\ Image(p)[2] = p.buf[p.header + 1]
  <2>1. 1 \in 1 .. (p.end - p.header) /\ 2 \in 1 .. (p.end - p.header)
        /\ p.header + 1 - 1 = p.header /\ p.header + 2 - 1 = p.header + 1
    BY <1>1
  <2>. QED  BY <1>2, <2>1
<1>4. p.buf[p.header] + Base * p.buf[p.header + 1] = p.end - p.header
  BY DEF WellFormed, Size
<1>. QED  BY <1>1, <1>2, <1>3, <1>4 DEF Frame

LEMMA ChangeTypeKeeps ==
    ASSUME NEW p, WellFormed(p), NEW type \in Byte
    PROVE  LET q == ChangeType(p, type)
           IN  WellFormed(q) /\ Content(q) = Content(p) /\ Type(q) = type
<1>. DEFINE at == p.header + 2
            buf == Copied(p.buf, at, <<type>>)
            q == ChangeType(p, type)
<1>1. /\ p.buf \in [Positions -> Byte] /\ p \in PacketType
      /\ p.header \in Nat /\ p.begin \in 3 .. Cap /\ p.end \in p.begin .. Cap
      /\ p.begin = p.header + 3 /\ at < Cap /\ at \in Nat /\ at \in Positions
      /\ p.header \in Positions /\ p.header + 1 \in Positions
  <2>1. /\ p.buf \in [Positions -> Byte] /\ p \in PacketType
        /\ p.header \in Nat /\ p.begin \in 3 .. Cap /\ p.end \in p.begin .. Cap
        /\ p.header = p.begin - 3 /\ p.header + 2 < Cap
    BY Fields
  <2>2. p.begin = p.header + 3
    BY <2>1, CapType
  <2>3. at \in Nat /\ at \in Positions /\ p.header \in Positions /\ p.header + 1 \in Positions
    BY <2>1, CapType DEF Positions
  <2>. QED  BY <2>1, <2>2, <2>3
<1>2. /\ buf \in [Positions -> Byte]
      /\ \A i \in Positions : buf[i] = IF i = at THEN type ELSE p.buf[i]
  BY <1>1, CopiedByte, SMTT(30)
<1>3. q = [p EXCEPT !.buf = buf]
  BY DEF ChangeType
<1>. HIDE DEF buf
<1>4. /\ q.buf = buf /\ q.header = p.header /\ q.begin = p.begin /\ q.end = p.end
      /\ q \in PacketType
  BY <1>1, <1>2, <1>3 DEF PacketType
<1>. HIDE DEF q
<1>5. Type(q) = type
  BY <1>1, <1>2, <1>4 DEF Type
<1>6. Size(q) = Size(p)
  <2>1. p.header # at /\ p.header + 1 # at
    BY <1>1
  <2>2. buf[p.header] = p.buf[p.header] /\ buf[p.header + 1] = p.buf[p.header + 1]
    BY <1>1, <1>2, <2>1
  <2>. QED  BY <1>4, <2>2 DEF Size
<1>7. WellFormed(q)
  BY <1>4, <1>6 DEF WellFormed
<1>8. Content(q) = Content(p)
  <2>1. ASSUME NEW i \in 1 .. (p.end - p.begin)
        PROVE  p.begin + i - 1 \in Positions /\ p.begin + i - 1 # at
    <3>. DEFINE begin == p.begin
                n == p.end - p.begin
    <3>1. begin \in Nat /\ n \in Nat /\ begin + n <= Cap /\ i \in 1 .. n /\ at < begin /\ at \in Nat
      BY <1>1, CapType
    <3>. HIDE DEF begin, n, at
    <3>2. begin + i - 1 \in Positions /\ begin + i - 1 >= begin
      BY <3>1, Within
    <3>3. begin + i - 1 # at
      BY <3>1
    <3>. QED  BY <3>2, <3>3 DEF begin
  <2>2. \A i \in 1 .. (p.end - p.begin) : buf[p.begin + i - 1] = p.buf[p.begin + i - 1]
    BY <1>2, <2>1
  <2>. QED  BY <1>4, <2>2 DEF Content, Segment
<1>. QED  BY <1>5, <1>7, <1>8 DEF q

LEMMA MessageType ==
    ASSUME NEW m \in Message
    PROVE  /\ m.type \in Types /\ m.type \in Byte /\ NewType[m.type] \in Byte
           /\ Listed(Format[m.type], m.values)
           /\ Format[m.type] # <<>> /\ m.values # <<>>
           /\ Format[m.type] \in Seq(Kinds) /\ m.values \in Seq(Seq(Nat))
           /\ Len(m.values) = Len(Format[m.type])
           /\ Length(Format[m.type], m.values)
                + (IF Relays[m.type] = "append" THEN 5 ELSE 3) <= Cap
           /\ Relays[m.type] \in {"append", "pop"}
<1>0. PICK t \in Types : m \in {[type |-> t, values |-> v] : v \in Contents[t]}
  BY DEF Message
<1>1. PICK v \in Contents[t] : m = [type |-> t, values |-> v]
  BY <1>0
<1>2. m.type = t /\ m.values = v
  BY <1>1
<1>3. /\ v \in Seq(Seq(Nat)) /\ Len(v) = Len(Format[t])
      /\ \A i \in 1 .. Len(v) : v[i] \in Values(Format[t][i])
      /\ Length(Format[t], v) + (IF Relays[t] = "append" THEN 5 ELSE 3) <= Cap
  BY ContentsAssumption
<1>4. Format[t] \in Seq(Kinds) /\ Format[t] # <<>>
  BY FormatAssumption DEF Kinds
<1>5. v # <<>>
  <2>1. Len(Format[t]) # 0
    BY <1>4, EmptySeq
  <2>. QED  BY <1>3, <2>1
<1>6. Listed(Format[t], v)
  BY <1>3, <1>4 DEF Listed
<1>7. t \in Byte /\ NewType[t] \in Byte /\ Relays[t] \in {"append", "pop"}
  BY TypesAssumption
<1>. QED  BY <1>2, <1>3, <1>4, <1>5, <1>6, <1>7

LEMMA ListedTail ==
    ASSUME NEW kinds, NEW values, Listed(kinds, values), kinds # <<>>
    PROVE  /\ Listed(Tail(kinds), Tail(values))
           /\ Encodings(Tail(kinds), Tail(values)) = Tail(Encodings(kinds, values))
           /\ Head(kinds) = kinds[1] /\ Head(values) = values[1]
           /\ Len(Tail(kinds)) = Len(kinds) - 1 /\ Len(kinds) \in Nat \ {0}
           /\ \A i \in 1 .. (Len(kinds) - 1) : Tail(kinds)[i] = kinds[i + 1] /\ Tail(values)[i] = values[i + 1]
<1>. DEFINE n == Len(kinds)
<1>1. /\ kinds \in Seq(Kinds) /\ values \in Seq(Seq(Nat)) /\ Len(values) = n
      /\ \A i \in 1 .. n : values[i] \in Values(kinds[i])
  BY DEF Listed
<1>2. n \in Nat \ {0} /\ values # <<>>
  BY <1>1, EmptySeq
<1>3. /\ Tail(kinds) \in Seq(Kinds) /\ Len(Tail(kinds)) = n - 1
      /\ \A i \in 1 .. (n - 1) : Tail(kinds)[i] = kinds[i + 1]
  BY <1>1, HeadTailProperties
<1>4. /\ Tail(values) \in Seq(Seq(Nat)) /\ Len(Tail(values)) = n - 1
      /\ \A i \in 1 .. (n - 1) : Tail(values)[i] = values[i + 1]
  BY <1>1, <1>2, HeadTailProperties
<1>5. \A i \in 1 .. (n - 1) : i + 1 \in 1 .. n
  BY <1>2
<1>6. Listed(Tail(kinds), Tail(values))
  BY <1>1, <1>3, <1>4, <1>5 DEF Listed
<1>7. Encodings(Tail(kinds), Tail(values)) = Tail(Encodings(kinds, values))
  <2>. DEFINE s == Encodings(kinds, values)
              t == Encodings(Tail(kinds), Tail(values))
  <2>1. /\ s \in Seq(Seq(Byte)) /\ Len(s) = n
        /\ \A i \in 1 .. n : s[i] = Encoded(kinds[i], values[i])
    BY EncodingsType
  <2>2. /\ t \in Seq(Seq(Byte)) /\ Len(t) = n - 1
        /\ \A i \in 1 .. (n - 1) : t[i] = Encoded(Tail(kinds)[i], Tail(values)[i])
    <3>. DEFINE ks == Tail(kinds)
                vs == Tail(values)
    <3>1. Listed(ks, vs) /\ Len(ks) = n - 1
      BY <1>3, <1>6
    <3>. HIDE DEF ks, vs, n
    <3>2. /\ Encodings(ks, vs) \in Seq(Seq(Byte)) /\ Len(Encodings(ks, vs)) = n - 1
          /\ \A i \in 1 .. (n - 1) : Encodings(ks, vs)[i] = Encoded(ks[i], vs[i])
      BY <3>1, EncodingsType
    <3>. QED  BY <3>2 DEF ks, vs
  <2>. HIDE DEF s, t
  <2>3. s # <<>>
    BY <1>2, <2>1
  <2>4. /\ Tail(s) \in Seq(Seq(Byte)) /\ Len(Tail(s)) = n - 1
        /\ \A i \in 1 .. (n - 1) : Tail(s)[i] = s[i + 1]
    BY <2>1, <2>3, HeadTailProperties
  <2>5. \A i \in 1 .. (n - 1) : t[i] = Tail(s)[i]
    BY <1>3, <1>4, <1>5, <2>1, <2>2, <2>4
  <2>6. t = Tail(s)
    BY <2>2, <2>4, <2>5, SeqEqual
  <2>. QED  BY <2>6 DEF s, t
<1>8. Head(kinds) = kinds[1] /\ Head(values) = values[1]
  BY <1>1
<1>. QED  BY <1>2, <1>3, <1>4, <1>6, <1>7, <1>8

LEMMA EmptyContent ==
    ASSUME NEW type \in Byte
    PROVE  /\ WellFormed(New(type)) /\ Type(New(type)) = type /\ Content(New(type)) = <<>>
           /\ New(type).begin = 3 /\ New(type).end = 3
<1>1. New(type).begin = 3 /\ New(type).end = 3
  BY DEF New
<1>2. Content(New(type)) \in Seq(Byte) /\ Len(Content(New(type))) = 0
  BY <1>1, NewIsEmpty, ContentBytes
<1>. QED  BY <1>1, <1>2, NewIsEmpty

\* A packet of one value.
LEMMA PushOne ==
    ASSUME NEW type \in Byte, NEW kind \in Kinds, NEW v \in Seq(Nat), v \in Values(kind),
           3 + Len(Encoded(kind, v)) <= Cap
    PROVE  LET q == PushAll(New(type), <<kind>>, <<v>>)
           IN  /\ WellFormed(q) /\ Type(q) = type /\ q.begin = 3
               /\ q.end = 3 + Len(Encoded(kind, v)) /\ Content(q) = Encoded(kind, v)
<1>. DEFINE kinds == <<kind>>
            values == <<v>>
            e == Encoded(kind, v)
            s == Encodings(kinds, values)
            p == New(type)
            q == PushAll(p, kinds, values)
            len == [i \in 0 .. 1 |-> IF i = 0 THEN 3 ELSE 3 + Len(e)]
<1>1. e \in Seq(Byte) /\ Len(e) \in Nat
  BY EncodedValue
<1>2. Listed(kinds, values) /\ Len(kinds) = 1 /\ kinds[1] = kind /\ values[1] = v
  BY DEF Listed
<1>3. s \in Seq(Seq(Byte)) /\ Len(s) = 1 /\ s[1] = e
  <2>. HIDE DEF kinds, values
  <2>. QED  BY <1>2, EncodingsType
<1>4. /\ WellFormed(p) /\ Type(p) = type /\ Content(p) = <<>> /\ p.begin = 3 /\ p.end = 3
  BY EmptyContent
<1>5. /\ len \in [0 .. 1 -> Nat] /\ len[0] = 3 /\ len[1] = 3 + Len(e) /\ len[1] <= Cap
      /\ \A i \in 1 .. 1 : len[i] = len[i - 1] + Len(Encoded(kinds[i], values[i]))
  <2>. HIDE DEF e
  <2>1. len \in [0 .. 1 -> Nat] /\ len[0] = 3 /\ len[1] = 3 + Len(e)
    BY <1>1
  <2>2. len[1] <= Cap
    BY <2>1 DEF e
  <2>3. \A i \in 1 .. 1 : i = 1 /\ i - 1 = 0
    OBVIOUS
  <2>. HIDE DEF len, kinds, values
  <2>. QED  BY <1>2, <2>1, <2>2, <2>3 DEF e
<1>. HIDE DEF kinds, values, e, p, len, s, q
<1>6. /\ WellFormed(q) /\ Type(q) = Type(p) /\ q.begin = p.begin /\ q.end = len[1]
      /\ \E bytes : Content(q) = Content(p) \o bytes /\ Remains(s, 0, bytes)
  <2>1. /\ len \in [0 .. Len(kinds) -> Nat] /\ len[0] = p.end /\ len[Len(kinds)] <= Cap
        /\ \A i \in 1 .. Len(kinds) : len[i] = len[i - 1] + Len(Encoded(kinds[i], values[i]))
    BY <1>2, <1>4, <1>5
  <2>2. SizesAre(len, p.end, kinds, values)
    BY <2>1 DEF SizesAre
  <2>3. Pushed(q, p, kinds, values, len[Len(kinds)])
    BY <1>2, <1>4, <2>1, <2>2, PushAllHolds DEF q
  <2>. QED  BY <1>2, <2>3 DEF Pushed, s
<1>7. PICK bytes : Content(q) = Content(p) \o bytes /\ Remains(s, 0, bytes)
  BY <1>6
<1>8. s # <<>>
  <2>1. ASSUME s = <<>> PROVE Len(s) = 0
    BY <2>1
  <2>. QED  BY <1>3, <2>1
<1>9. PICK rest \in Seq(Byte) : bytes = s[1] \o rest /\ Remains(s, 1, rest)
  BY <1>3, <1>7, <1>8, RemainsHead
<1>10. rest = <<>>
  BY <1>3, <1>9, RemainsNone
<1>11. Content(q) = e
  BY <1>1, <1>3, <1>4, <1>7, <1>9, <1>10, ConcatEmptySeq
<1>12. /\ WellFormed(q) /\ Type(q) = type /\ q.begin = 3 /\ q.end = 3 + Len(e) /\ Content(q) = e
  BY <1>4, <1>5, <1>6, <1>11
<1>. QED  BY <1>12 DEF kinds, values, e, p, q

\* What a sender makes of a list of values.
LEMMA PackedHolds ==
    ASSUME NEW m \in Message
    PROVE  LET q == Packed(m.type, m.values)
           IN  /\ WellFormed(q) /\ Type(q) = m.type /\ q.begin = 3
               /\ q.end = 3 + Length(Format[m.type], m.values)
               /\ Remains(Encodings(Format[m.type], m.values), 0, Content(q))
<1>. DEFINE kinds == Format[m.type]
            values == m.values
            n == Len(kinds)
            s == Encodings(kinds, values)
            e == Encoded(kinds[1], values[1])
            a == PushAll(New(m.type), <<Head(kinds)>>, <<Head(values)>>)
            b == PushAll(New(0), Tail(kinds), Tail(values))
            q == Merge(a, b)
<1>1. /\ m.type \in Byte /\ Listed(kinds, values) /\ kinds # <<>>
      /\ Length(kinds, values) + 3 <= Cap
  <2>1. PICK x \in {3, 5} : Length(kinds, values) + x <= Cap
    BY MessageType
  <2>2. Length(kinds, values) \in Nat
    BY MessageType, LengthNat
  <2>3. Length(kinds, values) + 3 <= Cap
    BY <2>1, <2>2, CapType
  <2>. QED  BY <2>3, MessageType
<1>. HIDE DEF kinds, values
<1>2. /\ Listed(Tail(kinds), Tail(values)) /\ Encodings(Tail(kinds), Tail(values)) = Tail(s)
      /\ Head(kinds) = kinds[1] /\ Head(values) = values[1]
      /\ Len(Tail(kinds)) = n - 1 /\ n \in Nat \ {0}
      /\ \A i \in 1 .. (n - 1) : Tail(kinds)[i] = kinds[i + 1] /\ Tail(values)[i] = values[i + 1]
  BY <1>1, ListedTail
<1>3. /\ s \in Seq(Seq(Byte)) /\ Len(s) = n /\ 1 \in 1 .. n
      /\ \A i \in 1 .. n : /\ kinds[i] \in Kinds /\ values[i] \in Values(kinds[i])
                           /\ s[i] = Encoded(kinds[i], values[i]) /\ s[i] \in Seq(Byte)
  BY <1>1, <1>2, EncodingsType
<1>4. values[1] \in Seq(Nat)
  BY <1>1, <1>3 DEF Listed
<1>5. PICK sum \in [0 .. n -> Nat] :
        /\ sum[0] = 0 /\ Length(kinds, values) = sum[n]
        /\ \A i \in 1 .. n : sum[i] = sum[i - 1] + Len(Encoded(kinds[i], values[i]))
  BY <1>1, LengthIs
<1>. HIDE DEF n, s
<1>6. \A i, j \in 0 .. n : i <= j => sum[i] <= sum[j]
  <2>1. ASSUME NEW i \in 1 .. n PROVE sum[i - 1] <= sum[i]
    <3>0. s[i] = Encoded(kinds[i], values[i]) /\ s[i] \in Seq(Byte)
      BY <1>3
    <3>1. Encoded(kinds[i], values[i]) \in Seq(Byte) /\ i - 1 \in 0 .. n /\ i \in 0 .. n
      BY <1>2, <3>0
    <3>2. Len(Encoded(kinds[i], values[i])) \in Nat /\ sum[i - 1] \in Nat /\ sum[i] \in Nat
      BY <3>1
    <3>3. sum[i] = sum[i - 1] + Len(Encoded(kinds[i], values[i]))
      BY <1>5
    <3>. QED  BY <3>2, <3>3
  <2>2. n \in Nat
    BY <1>2
  <2>. QED  BY <2>1, <2>2, Grow
<1>7. /\ sum[1] = Len(e) /\ sum[1] \in Nat /\ sum[n] \in Nat /\ sum[1] <= sum[n] /\ 3 + sum[n] <= Cap
  <2>1. 1 - 1 = 0 /\ 1 \in 0 .. n /\ n \in 0 .. n /\ 1 <= n
    BY <1>2
  <2>2. sum[1] = Len(e)
    <3>1. Len(e) \in Nat /\ sum[1] = sum[0] + Len(e)
      BY <1>3, <1>5, <2>1
    <3>. QED  BY <1>5, <3>1
  <2>3. sum[1] \in Nat /\ sum[n] \in Nat /\ sum[1] <= sum[n]
    BY <1>5, <1>6, <2>1
  <2>4. 3 + sum[n] <= Cap
    BY <1>1, <1>5, <2>3, CapType
  <2>. QED  BY <2>2, <2>3, <2>4
<1>8. /\ WellFormed(a) /\ Type(a) = m.type /\ a.begin = 3 /\ a.end = 3 + Len(e) /\ Content(a) = e
  <2>1. 3 + Len(e) <= Cap
    BY <1>7, CapType
  <2>2. kinds[1] \in Kinds /\ values[1] \in Values(kinds[1])
    BY <1>3
  <2>. QED  BY <1>1, <1>2, <1>4, <2>1, <2>2, PushOne
<1>9. /\ WellFormed(b) /\ b.begin = 3 /\ b.end = 3 + (sum[n] - sum[1])
      /\ Remains(Tail(s), 0, Content(b))
  <2>. DEFINE len == [i \in 0 .. (n - 1) |-> 3 + (sum[i + 1] - sum[1])]
              p == New(0)
  <2>1. /\ WellFormed(p) /\ Content(p) = <<>> /\ p.begin = 3 /\ p.end = 3
    <3>1. 0 \in Byte
      BY Bounds DEF Byte
    <3>. QED  BY <3>1, EmptyContent
  <2>2. len \in [0 .. (n - 1) -> Nat]
    <3>1. ASSUME NEW i \in 0 .. (n - 1) PROVE 3 + (sum[i + 1] - sum[1]) \in Nat
      <4>1. i + 1 \in 0 .. n /\ 1 \in 0 .. n /\ 1 <= i + 1
        BY <1>2
      <4>2. sum[1] <= sum[i + 1] /\ sum[i + 1] \in Nat
        BY <1>5, <1>6, <4>1
      <4>. QED  BY <1>7, <4>2
    <3>. QED  BY <3>1
  <2>3. len[0] = 3 /\ len[n - 1] = 3 + (sum[n] - sum[1]) /\ len[n - 1] <= Cap
    <3>1. 0 \in 0 .. (n - 1) /\ n - 1 \in 0 .. (n - 1) /\ 0 + 1 = 1 /\ (n - 1) + 1 = n
      BY <1>2
    <3>2. len[0] = 3 + (sum[1] - sum[1]) /\ len[n - 1] = 3 + (sum[n] - sum[1])
      BY <3>1
    <3>. HIDE DEF len
    <3>. QED  BY <1>7, <3>2, CapType
  <2>4. ASSUME NEW i \in 1 .. (n - 1)
        PROVE  len[i] = len[i - 1] + Len(Encoded(Tail(kinds)[i], Tail(values)[i]))
    <3>1. /\ i \in 0 .. (n - 1) /\ i - 1 \in 0 .. (n - 1) /\ (i - 1) + 1 = i /\ i + 1 \in 1 .. n
          /\ (i + 1) - 1 = i /\ i \in 0 .. n
      BY <1>2
    <3>2. len[i] = 3 + (sum[i + 1] - sum[1]) /\ len[i - 1] = 3 + (sum[i] - sum[1])
      BY <3>1
    <3>. HIDE DEF len
    <3>3. sum[i + 1] = sum[i] + Len(Encoded(kinds[i + 1], values[i + 1]))
      BY <1>5, <3>1
    <3>. DEFINE x == Encoded(kinds[i + 1], values[i + 1])
    <3>4. x \in Seq(Byte) /\ sum[i] \in Nat
      BY <1>3, <3>1
    <3>5. Tail(kinds)[i] = kinds[i + 1] /\ Tail(values)[i] = values[i + 1]
      BY <1>2
    <3>6. Encoded(Tail(kinds)[i], Tail(values)[i]) = x /\ sum[i + 1] = sum[i] + Len(x)
      BY <3>3, <3>5
    <3>. HIDE DEF x
    <3>7. Len(x) \in Nat
      BY <3>4
    <3>8. len[i] = len[i - 1] + Len(x)
      BY <1>7, <3>2, <3>4, <3>6, <3>7
    <3>. QED  BY <3>6, <3>8
  <2>. DEFINE ks == Tail(kinds)
              vs == Tail(values)
              c == PushAll(p, ks, vs)
  <2>. HIDE DEF len, p
  <2>5. /\ WellFormed(b) /\ b.begin = p.begin /\ b.end = len[n - 1]
        /\ \E bytes : Content(b) = Content(p) \o bytes /\ Remains(Tail(s), 0, bytes)
    <3>1. /\ Listed(ks, vs) /\ Len(ks) = n - 1 /\ Encodings(ks, vs) = Tail(s)
      BY <1>2
    <3>2. \A i \in 1 .. (n - 1) : len[i] = len[i - 1] + Len(Encoded(ks[i], vs[i]))
      BY <2>4
    <3>3. b = c
      BY DEF p
    <3>. HIDE DEF ks, vs
    <3>4. /\ len \in [0 .. Len(ks) -> Nat] /\ len[0] = p.end /\ len[Len(ks)] <= Cap
          /\ \A i \in 1 .. Len(ks) : len[i] = len[i - 1] + Len(Encoded(ks[i], vs[i]))
      BY <2>1, <2>2, <2>3, <3>1, <3>2
    <3>5. /\ WellFormed(c) /\ Type(c) = Type(p) /\ c.begin = p.begin /\ c.end = len[Len(ks)]
          /\ \E bytes : Content(c) = Content(p) \o bytes /\ Remains(Encodings(ks, vs), 0, bytes)
      <4>1. SizesAre(len, p.end, ks, vs)
        BY <3>4 DEF SizesAre
      <4>2. Pushed(c, p, ks, vs, len[Len(ks)])
        BY <2>1, <3>1, <3>4, <4>1, PushAllHolds
      <4>. HIDE DEF b, c
      <4>. QED  BY <4>2 DEF Pushed
    <3>. HIDE DEF b, c
    <3>. QED  BY <3>1, <3>3, <3>5
  <2>. HIDE DEF c, ks, vs
  <2>6. PICK bytes : Content(b) = Content(p) \o bytes /\ Remains(Tail(s), 0, bytes)
    BY <2>5
  <2>7. bytes \in Seq(Byte)
    <3>1. Tail(s) \in Seq(Seq(Byte)) /\ Len(Tail(s)) \in Nat
      BY <1>2, <1>3
    <3>2. 0 \in 0 .. Len(Tail(s))
      BY <3>1
    <3>. QED  BY <2>6, <3>1, <3>2, RemainsType
  <2>8. Content(b) = bytes
    BY <2>1, <2>6, <2>7, ConcatEmptySeq
  <2>. QED  BY <2>1, <2>3, <2>5, <2>6, <2>8
<1>10. Packed(m.type, m.values) = q
  BY DEF Packed, kinds, values
<1>. HIDE DEF a, b, e
<1>11. a.end + (b.end - b.begin) = 3 + sum[n] /\ a.end + (b.end - b.begin) <= Cap
  BY <1>7, <1>8, <1>9
<1>12. /\ WellFormed(q) /\ Content(q) = e \o Content(b) /\ Type(q) = m.type
       /\ q.begin = 3 /\ q.end = 3 + sum[n]
  BY <1>8, <1>9, <1>11, MergeFits
<1>. HIDE DEF q
<1>13. Remains(s, 0, e \o Content(b))
  <2>1. s # <<>> /\ s[1] = e
    BY <1>2, <1>3 DEF e
  <2>2. Remains(s, 1, Content(b))
    BY <1>3, <1>9, <2>1, RemainsTail
  <2>. QED  BY <1>3, <2>1, <2>2, RemainsPutHead
<1>14. /\ WellFormed(q) /\ Type(q) = m.type /\ q.begin = 3
       /\ q.end = 3 + Length(kinds, values) /\ Remains(s, 0, Content(q))
  BY <1>5, <1>12, <1>13
<1>. QED  BY <1>10, <1>14 DEF kinds, values, s

\* The packet that server::execute makes of the bytes.
LEMMA ArrivedHolds ==
    ASSUME NEW m \in Message
    PROVE  LET p == FromBytes(In(m))
           IN  /\ WellFormed(p) /\ Type(p) = m.type /\ p.begin = 3
               /\ p.end = 3 + Length(Format[m.type], m.values)
               /\ Remains(Encodings(Format[m.type], m.values), 0, Content(p))
               /\ Frame(In(m))
<1>. DEFINE q == Packed(m.type, m.values)
<1>1. /\ WellFormed(q) /\ Type(q) = m.type /\ q.begin = 3
      /\ q.end = 3 + Length(Format[m.type], m.values)
      /\ Remains(Encodings(Format[m.type], m.values), 0, Content(q))
  BY PackedHolds
<1>2. In(m) = Image(q)
  BY DEF In
<1>. HIDE DEF q
<1>3. q.header = 0 /\ q.end \in Nat
  BY <1>1, Fields, CapType
<1>4. /\ WellFormed(FromBytes(Image(q))) /\ Content(FromBytes(Image(q))) = Content(q)
      /\ Type(FromBytes(Image(q))) = Type(q)
      /\ FromBytes(Image(q)).begin = 3 /\ FromBytes(Image(q)).end = q.end - q.header
  BY <1>1, WireKeeps
<1>5. q.end - q.header = q.end
  BY <1>3
<1>6. Frame(Image(q))
  BY <1>1, ImageFrame
<1>. QED  BY <1>1, <1>2, <1>4, <1>5, <1>6

\* The packet that its handler makes of it and writes to the client.
LEMMA HandledHolds ==
    ASSUME NEW m \in Message
    PROVE  LET h == Handled(FromBytes(In(m)))
               kinds == NewFormat(m.type)
               values == Relayed(m).values
           IN  /\ WellFormed(h) /\ Type(h) = NewType[m.type]
               /\ Listed(kinds, values) /\ Remains(Encodings(kinds, values), 0, Content(h))
<1>. DEFINE p == FromBytes(In(m))
            kinds == Format[m.type]
            values == m.values
            s == Encodings(kinds, values)
            Made(q, ks, vs) == /\ WellFormed(q) /\ Listed(ks, vs)
                               /\ Remains(Encodings(ks, vs), 0, Content(q))
<1>1. /\ WellFormed(p) /\ Type(p) = m.type /\ p.begin = 3 /\ p.end = 3 + Length(kinds, values)
      /\ Remains(s, 0, Content(p))
  BY ArrivedHolds
<1>2. /\ Listed(kinds, values) /\ kinds # <<>> /\ NewType[m.type] \in Byte
      /\ kinds \in Seq(Kinds) /\ values \in Seq(Seq(Nat)) /\ Len(values) = Len(kinds)
      /\ Length(kinds, values) + (IF Relays[m.type] = "append" THEN 5 ELSE 3) <= Cap
  BY MessageType
<1>3. /\ s \in Seq(Seq(Byte)) /\ Len(s) = Len(kinds) /\ Len(kinds) \in Nat \ {0}
      /\ \A i \in 1 .. Len(kinds) : /\ kinds[i] \in Kinds /\ values[i] \in Values(kinds[i])
                                    /\ s[i] = Encoded(kinds[i], values[i]) /\ s[i] \in Seq(Byte)
  <2>1. Len(kinds) \in Nat \ {0}
    BY <1>2, ListedTail
  <2>2. /\ s \in Seq(Seq(Byte)) /\ Len(s) = Len(kinds)
        /\ \A i \in 1 .. Len(kinds) : /\ kinds[i] \in Kinds /\ values[i] \in Values(kinds[i])
                                      /\ s[i] = Encoded(kinds[i], values[i])
                                      /\ Encoded(kinds[i], values[i]) \in Seq(Byte)
    <3>. HIDE DEF kinds, values
    <3>. QED  BY <1>2, EncodingsType
  <2>. HIDE DEF kinds, values, s
  <2>. QED  BY <2>1, <2>2
<1>. HIDE DEF p, s, kinds, values
<1>4. CASE Relays[m.type] = "append"
  <2>. DEFINE q == Push(p, Word(Uid))
              ks == Append(kinds, "w")
              vs == Append(values, <<Uid>>)
              n == Len(kinds)
  <2>1. NewFormat(m.type) = ks /\ Relayed(m).values = vs
    BY <1>4 DEF NewFormat, Relayed, kinds, values
  <2>2. Uid \in Nat /\ Uid < Base * Base
    <3>1. Base * Base \in Nat /\ Uid \in 0 .. (Base * Base - 1)
      BY Bounds, TypesAssumption
    <3>. QED  BY <3>1
  <2>3. Word(Uid) \in Seq(Byte) /\ Len(Word(Uid)) = 2
    BY <2>2, WordValue
  <2>4. p.end + Len(Word(Uid)) <= Cap
    <3>1. Length(kinds, values) + 5 <= Cap
      BY <1>2, <1>4
    <3>2. p.end \in Nat
      BY <1>1, Fields, CapType
    <3>3. Length(kinds, values) \in Nat
      BY <1>2, LengthNat
    <3>. QED  BY <1>1, <2>3, <3>1, <3>3, CapType
  <2>5. WellFormed(q) /\ Content(q) = Content(p) \o Word(Uid)
    BY <1>1, <2>3, <2>4, PushFits
  <2>6. /\ ks \in Seq(Kinds) /\ Len(ks) = n + 1 /\ ks[n + 1] = "w"
        /\ \A i \in 1 .. n : ks[i] = kinds[i]
    BY <1>2, AppendProperties DEF Kinds
  <2>7. /\ vs \in Seq(Seq(Nat)) /\ Len(vs) = n + 1 /\ vs[n + 1] = <<Uid>>
        /\ \A i \in 1 .. n : vs[i] = values[i]
    <3>1. <<Uid>> \in Seq(Nat)
      BY <2>2
    <3>. QED  BY <1>2, <3>1, AppendProperties
  <2>8. <<Uid>> \in Values("w") /\ Encoded("w", <<Uid>>) = Word(Uid)
    BY TypesAssumption DEF Values, Encoded
  <2>9. \A i \in 1 .. (n + 1) : i \in 1 .. n \/ i = n + 1
    BY <1>3
  <2>. HIDE DEF ks, vs, n
  <2>10. Listed(ks, vs)
    <3>1. \A i \in 1 .. n : vs[i] \in Values(ks[i])
      BY <1>3, <2>6, <2>7 DEF n
    <3>2. vs[n + 1] \in Values(ks[n + 1])
      BY <2>6, <2>7, <2>8
    <3>3. \A i \in 1 .. Len(ks) : vs[i] \in Values(ks[i])
      BY <2>6, <2>9, <3>1, <3>2
    <3>. QED  BY <2>6, <2>7, <3>3 DEF Listed
  <2>11. Encodings(ks, vs) = Append(s, Word(Uid))
    <3>. DEFINE a == Encodings(ks, vs)
                b == Append(s, Word(Uid))
    <3>1. /\ a \in Seq(Seq(Byte)) /\ Len(a) = n + 1
          /\ \A i \in 1 .. (n + 1) : a[i] = Encoded(ks[i], vs[i])
      BY <2>6, <2>10, EncodingsType
    <3>2. /\ b \in Seq(Seq(Byte)) /\ Len(b) = n + 1 /\ b[n + 1] = Word(Uid)
          /\ \A i \in 1 .. n : b[i] = s[i]
      BY <1>3, <2>3, AppendProperties DEF n
    <3>. HIDE DEF a, b
    <3>3. \A i \in 1 .. n : a[i] = b[i]
      <4>1. \A i \in 1 .. n : i \in 1 .. (n + 1)
        BY <1>3 DEF n
      <4>. QED  BY <1>3, <2>6, <2>7, <3>1, <3>2, <4>1 DEF n
    <3>4. a[n + 1] = b[n + 1]
      <4>1. n + 1 \in 1 .. (n + 1)
        BY <1>3 DEF n
      <4>. QED  BY <2>6, <2>7, <2>8, <3>1, <3>2, <4>1
    <3>5. \A i \in 1 .. (n + 1) : a[i] = b[i]
      BY <2>9, <3>3, <3>4
    <3>6. a = b
      BY <3>1, <3>2, <3>5, SeqEqual
    <3>. QED  BY <3>6 DEF a, b
  <2>12. Remains(Append(s, Word(Uid)), 0, Content(p) \o Word(Uid))
    <3>1. 0 \in 0 .. Len(s)
      BY <1>3
    <3>. QED  BY <1>1, <1>3, <2>3, <3>1, RemainsMore
  <2>13. Made(q, ks, vs)
    BY <2>5, <2>10, <2>11, <2>12
  <2>14. Handled(p) = ChangeType(q, NewType[m.type])
    BY <1>1, <1>4 DEF Handled
  <2>. HIDE DEF q
  <2>15. LET h == Handled(p)
         IN  WellFormed(h) /\ Content(h) = Content(q) /\ Type(h) = NewType[m.type]
    BY <1>2, <2>13, <2>14, ChangeTypeKeeps
  <2>. QED  BY <2>1, <2>13, <2>15 DEF p
<1>5. CASE Relays[m.type] # "append"
  <2>. DEFINE kind == kinds[1]
              v == values[1]
              q == Pop(p, Width(kind, p))
              ks == Tail(kinds)
              vs == Tail(values)
  <2>1. NewFormat(m.type) = ks /\ Relayed(m).values = vs
    BY <1>5 DEF NewFormat, Relayed, kinds, values
  <2>2. Listed(ks, vs) /\ Encodings(ks, vs) = Tail(s) /\ Head(kinds) = kind
    BY <1>2, ListedTail DEF s
  <2>3. /\ s # <<>> /\ kind \in Kinds /\ v \in Values(kind)
        /\ s[1] = Encoded(kind, v)
    BY <1>3
  <2>4. PICK rest \in Seq(Byte) : Content(p) = s[1] \o rest /\ Remains(s, 1, rest)
    BY <1>1, <1>3, <2>3, RemainsHead
  <2>. HIDE DEF kind, v
  <2>5. WellFormed(q) /\ Content(q) = rest
    BY <1>1, <2>3, <2>4, PopValue
  <2>6. Remains(Tail(s), 0, rest)
    BY <1>3, <2>3, <2>4, RemainsTail
  <2>. HIDE DEF ks, vs
  <2>7. Made(q, ks, vs)
    BY <2>2, <2>5, <2>6
  <2>8. Handled(p) = ChangeType(q, NewType[m.type])
    BY <1>1, <1>5, <2>2 DEF Handled, kinds
  <2>. HIDE DEF q
  <2>9. LET h == Handled(p)
        IN  WellFormed(h) /\ Content(h) = Content(q) /\ Type(h) = NewType[m.type]
    BY <1>2, <2>7, <2>8, ChangeTypeKeeps
  <2>. QED  BY <2>1, <2>7, <2>9 DEF p
<1>. QED  BY <1>4, <1>5

\* A list that is packed, relayed with the UID behind it or without its first value, and
\* made a packet again in client::execute is popped value for value as it was packed.
THEOREM ComesBack ==
    ASSUME NEW m \in Message
    PROVE  LET q == FromBytes(Out(m))
           IN  /\ Frame(Out(m)) /\ Type(q) = NewType[m.type] /\ Type(q) \in Range(NewType)
               /\ PopAll(q, NewFormat(Source(Type(q)))) = Relayed(m).values
<1>. DEFINE h == Handled(FromBytes(In(m)))
            kinds == NewFormat(m.type)
            values == Relayed(m).values
            q == FromBytes(Image(h))
<1>1. /\ WellFormed(h) /\ Type(h) = NewType[m.type]
      /\ Listed(kinds, values) /\ Remains(Encodings(kinds, values), 0, Content(h))
  BY HandledHolds
<1>2. Out(m) = Image(h)
  BY DEF Out
<1>. HIDE DEF h, kinds, values
<1>3. WellFormed(q) /\ Content(q) = Content(h) /\ Type(q) = Type(h) /\ Frame(Image(h))
  BY <1>1, WireKeeps, ImageFrame
<1>. HIDE DEF q
<1>4. PopAll(q, kinds) = values
  BY <1>1, <1>3, PopAllHolds
<1>5. m.type \in Types
  BY MessageType
<1>6. NewFormat(Source(NewType[m.type])) = kinds
  <2>1. Source(NewType[m.type]) \in Types /\ NewType[Source(NewType[m.type])] = NewType[m.type]
    BY <1>5 DEF Source
  <2>. QED  BY <1>5, <2>1, FormatAssumption DEF kinds
<1>7. NewType[m.type] \in Range(NewType)
  BY <1>5, TypesAssumption DEF Range
<1>. QED  BY <1>1, <1>2, <1>3, <1>4, <1>6, <1>7 DEF q, kinds, values

-----------------------------------------------------------------------------
(* The two streams: what has been written and not been cut off yet is, one   *)
(* after another, the packets that have not been handled yet.               *)

\* The packets of the messages s as they are written, and those that the relay makes
\* of the first n of them, and what the client should get of these.
InsOf(s) == [i \in 1 .. Len(s) |-> In(s[i])]
OutsOf(s, n) == [i \in 1 .. n |-> Out(s[i])]
GotOf(s, n) == [i \in 1 .. n |-> Relayed(s[i])]

LEMMA InOutType ==
    ASSUME NEW m \in Message
    PROVE  /\ Frame(In(m)) /\ In(m) \in Seq(Byte) /\ Len(In(m)) \in 3 .. Cap
           /\ Frame(Out(m)) /\ Out(m) \in Seq(Byte) /\ Len(Out(m)) \in 3 .. Cap
<1>1. Frame(In(m)) /\ Frame(Out(m))
  BY ArrivedHolds, ComesBack
<1>. QED  BY <1>1 DEF Frame

LEMMA InsOfType ==
    ASSUME NEW s \in Seq(Message)
    PROVE  /\ InsOf(s) \in Seq(Seq(Byte)) /\ Len(InsOf(s)) = Len(s)
           /\ \A i \in 1 .. Len(s) : s[i] \in Message /\ InsOf(s)[i] = In(s[i])
<1>1. \A i \in 1 .. Len(s) : s[i] \in Message
  OBVIOUS
<1>2. \A i \in 1 .. Len(s) : In(s[i]) \in Seq(Byte)
  BY <1>1, InOutType
<1>. QED  BY <1>1, <1>2 DEF InsOf

LEMMA OutsOfType ==
    ASSUME NEW s \in Seq(Message), NEW n \in 0 .. Len(s)
    PROVE  /\ OutsOf(s, n) \in Seq(Seq(Byte)) /\ Len(OutsOf(s, n)) = n
           /\ \A i \in 1 .. n : OutsOf(s, n)[i] = Out(s[i])
<1>1. \A i \in 1 .. n : s[i] \in Message
  OBVIOUS
<1>2. \A i \in 1 .. n : Out(s[i]) \in Seq(Byte)
  BY <1>1, InOutType
<1>. QED  BY <1>1, <1>2 DEF OutsOf

LEMMA InsOfMore ==
    ASSUME NEW s \in Seq(Message), NEW m \in Message
    PROVE  InsOf(Append(s, m)) = Append(InsOf(s), In(m))
<1>. DEFINE t == Append(s, m)
            a == InsOf(t)
            b == Append(InsOf(s), In(m))
            n == Len(s)
<1>1. /\ t \in Seq(Message) /\ Len(t) = n + 1 /\ t[n + 1] = m /\ n \in Nat
      /\ \A i \in 1 .. n : t[i] = s[i]
  BY AppendProperties
<1>. HIDE DEF t, n
<1>2. /\ a \in Seq(Seq(Byte)) /\ Len(a) = n + 1
      /\ \A i \in 1 .. (n + 1) : a[i] = In(t[i])
  BY <1>1, InsOfType
<1>3. /\ InsOf(s) \in Seq(Seq(Byte)) /\ Len(InsOf(s)) = n /\ In(m) \in Seq(Byte)
      /\ \A i \in 1 .. n : InsOf(s)[i] = In(s[i])
  BY InsOfType, InOutType DEF n
<1>4. /\ b \in Seq(Seq(Byte)) /\ Len(b) = n + 1 /\ b[n + 1] = In(m)
      /\ \A i \in 1 .. n : b[i] = In(s[i])
  BY <1>3, AppendProperties
<1>. HIDE DEF a, b
<1>5. \A i \in 1 .. (n + 1) : i = n + 1 \/ i \in 1 .. n
  BY <1>1
<1>6. \A i \in 1 .. (n + 1) : a[i] = b[i]
  BY <1>1, <1>2, <1>4, <1>5
<1>7. a = b
  BY <1>2, <1>4, <1>6, SeqEqual
<1>. QED  BY <1>7 DEF a, b, t

LEMMA OutsOfMore ==
    ASSUME NEW s \in Seq(Message), NEW n \in 0 .. (Len(s) - 1)
    PROVE  OutsOf(s, n + 1) = Append(OutsOf(s, n), Out(s[n + 1]))
<1>. DEFINE a == OutsOf(s, n + 1)
            b == Append(OutsOf(s, n), Out(s[n + 1]))
<1>1. n \in 0 .. Len(s) /\ n + 1 \in 0 .. Len(s) /\ n \in Nat /\ s[n + 1] \in Message
  OBVIOUS
<1>2. /\ a \in Seq(Seq(Byte)) /\ Len(a) = n + 1
      /\ \A i \in 1 .. (n + 1) : a[i] = Out(s[i])
  BY <1>1, OutsOfType
<1>3. /\ OutsOf(s, n) \in Seq(Seq(Byte)) /\ Len(OutsOf(s, n)) = n /\ Out(s[n + 1]) \in Seq(Byte)
      /\ \A i \in 1 .. n : OutsOf(s, n)[i] = Out(s[i])
  BY <1>1, OutsOfType, InOutType
<1>4. /\ b \in Seq(Seq(Byte)) /\ Len(b) = n + 1 /\ b[n + 1] = Out(s[n + 1])
      /\ \A i \in 1 .. n : b[i] = Out(s[i])
  BY <1>3, AppendProperties
<1>. HIDE DEF a, b
<1>5. \A i \in 1 .. (n + 1) : i = n + 1 \/ i \in 1 .. n
  BY <1>1
<1>6. \A i \in 1 .. (n + 1) : a[i] = b[i]
  BY <1>2, <1>4, <1>5
<1>7. a = b
  BY <1>2, <1>4, <1>6, SeqEqual
<1>. QED  BY <1>7 DEF a, b

LEMMA GotOfMore ==
    ASSUME NEW s, NEW n \in Nat
    PROVE  GotOf(s, n + 1) = Append(GotOf(s, n), Relayed(s[n + 1]))
BY DEF GotOf

\* A message more says nothing about those before.
LEMMA EarlierStay ==
    ASSUME NEW s \in Seq(Message), NEW m \in Message, NEW n \in 0 .. Len(s)
    PROVE  /\ OutsOf(Append(s, m), n) = OutsOf(s, n)
           /\ GotOf(Append(s, m), n) = GotOf(s, n)
<1>1. \A i \in 1 .. n : Append(s, m)[i] = s[i]
  OBVIOUS
<1>. QED  BY <1>1 DEF OutsOf, GotOf

-----------------------------------------------------------------------------
(* Reads, and packets cut off.                                              *)

LEMMA Parts ==
    ASSUME NEW a \in Seq(Byte), NEW n \in 0 .. Len(a)
    PROVE  /\ SubSeq(a, 1, n) \in Seq(Byte) /\ Len(SubSeq(a, 1, n)) = n
           /\ SubSeq(a, n + 1, Len(a)) \in Seq(Byte)
           /\ Len(SubSeq(a, n + 1, Len(a))) = Len(a) - n
           /\ a = SubSeq(a, 1, n) \o SubSeq(a, n + 1, Len(a))
<1>. DEFINE x == SubSeq(a, 1, n)
            y == SubSeq(a, n + 1, Len(a))
<1>1. n \in Nat /\ Len(a) \in Nat /\ n <= Len(a)
  OBVIOUS
<1>2. x \in Seq(Byte) /\ Len(x) = n /\ \A i \in 1 .. n : x[i] = a[i]
  BY <1>1
<1>3. /\ y \in Seq(Byte) /\ Len(y) = Len(a) - n
      /\ \A i \in 1 .. (Len(a) - n) : y[i] = a[n + i]
  BY <1>1
<1>. HIDE DEF x, y
<1>4. Len(a) = Len(x) + Len(y)
  BY <1>1, <1>2, <1>3
<1>5. \A i \in 1 .. Len(x) : a[i] = x[i]
  BY <1>2
<1>6. \A i \in 1 .. Len(y) : a[Len(x) + i] = y[i]
  BY <1>2, <1>3
<1>7. a = x \o y
  BY <1>2, <1>3, <1>4, <1>5, <1>6, Joined
<1>. QED  BY <1>2, <1>3, <1>7 DEF x, y

\* Bytes that are read go from the front of the one to the end of the other.
LEMMA Moved ==
    ASSUME NEW a \in Seq(Byte), NEW b \in Seq(Byte), NEW n \in 1 .. Len(b)
    PROVE  /\ SubSeq(b, n + 1, Len(b)) \in Seq(Byte) /\ a \o SubSeq(b, 1, n) \in Seq(Byte)
           /\ (a \o SubSeq(b, 1, n)) \o SubSeq(b, n + 1, Len(b)) = a \o b
<1>. DEFINE x == SubSeq(b, 1, n)
            y == SubSeq(b, n + 1, Len(b))
<1>1. n \in 0 .. Len(b)
  OBVIOUS
<1>2. x \in Seq(Byte) /\ y \in Seq(Byte) /\ b = x \o y
  BY <1>1, Parts
<1>. HIDE DEF x, y
<1>3. a \o x \in Seq(Byte) /\ (a \o x) \o y = a \o b
  BY <1>2, Regroup, Together
<1>. QED  BY <1>2, <1>3 DEF x, y

LEMMA SomethingLeft ==
    ASSUME NEW s \in Seq(Seq(Byte)), NEW r \in 0 .. Len(s), NEW a \in Seq(Byte),
           NEW b \in Seq(Byte), Remains(s, r, a \o b), a # <<>>
    PROVE  r \in 0 .. (Len(s) - 1)
<1>1. CASE r = Len(s)
  <2>1. a \o b = <<>>
    BY <1>1, RemainsNone
  <2>2. Len(a \o b) = Len(a) + Len(b) /\ Len(a) # 0 /\ Len(a) \in Nat /\ Len(b) \in Nat
    BY ConcatProperties, EmptySeq
  <2>3. Len(a \o b) = 0
    BY <2>1
  <2>. QED  BY <2>2, <2>3
<1>2. CASE r # Len(s)
  BY <1>2
<1>. QED  BY <1>1, <1>2

LEMMA SizeTold ==
    ASSUME NEW s \in Seq(Seq(Byte)), NEW r \in 0 .. (Len(s) - 1), NEW a \in Seq(Byte),
           NEW b \in Seq(Byte), Remains(s, r, a \o b), Frame(s[r + 1])
    PROVE  /\ Len(a) >= 1 => a[1] = s[r + 1][1]
           /\ Len(a) >= 2 => a[1] + Base * a[2] = Len(s[r + 1])
<1>. DEFINE x == s[r + 1]
<1>1. PICK rest \in Seq(Byte) : a \o b = x \o rest /\ Remains(s, r + 1, rest)
  BY RemainsTake
<1>2. x \in Seq(Byte) /\ Len(x) >= 3 /\ x[1] + Base * x[2] = Len(x) /\ Len(x) \in Nat
  BY CapType DEF Frame
<1>. HIDE DEF x
<1>3. (x \o rest)[1] = x[1] /\ (x \o rest)[2] = x[2]
  BY <1>2
<1>4. Len(a) >= 1 => (a \o b)[1] = a[1]
  OBVIOUS
<1>5. Len(a) >= 2 => (a \o b)[2] = a[2] /\ Len(a) >= 1
  OBVIOUS
<1>6. /\ Len(a) >= 1 => a[1] = x[1]
      /\ Len(a) >= 2 => a[1] + Base * a[2] = Len(x)
  BY <1>1, <1>2, <1>3, <1>4, <1>5
<1>. QED  BY <1>6 DEF x

LEMMA CutParts ==
    ASSUME NEW a \in Seq(Byte), NEW b \in Seq(Byte), NEW x \in Seq(Byte), NEW rest \in Seq(Byte),
           a \o b = x \o rest, Len(x) <= Len(a)
    PROVE  /\ SubSeq(a, 1, Len(x)) = x /\ SubSeq(a, Len(x) + 1, Len(a)) \in Seq(Byte)
           /\ SubSeq(a, Len(x) + 1, Len(a)) \o b = rest
<1>1. Len(x) \in 0 .. Len(a)
  OBVIOUS
<1>2. PICK f \in Seq(Byte) : f = SubSeq(a, 1, Len(x))
  BY <1>1, Parts
<1>3. PICK g \in Seq(Byte) : g = SubSeq(a, Len(x) + 1, Len(a))
  BY <1>1, Parts
<1>4. Len(f) = Len(x) /\ a = f \o g
  BY <1>1, <1>2, <1>3, Parts
<1>5. PICK d \in Seq(Byte) : d = g \o b
  BY Together
<1>6. (f \o g) \o b = f \o d
  <2>1. (f \o g) \o b = f \o (g \o b)
    BY Regroup, ZenonT(60)
  <2>. QED  BY <1>5, <2>1
<1>7. f \o d = x \o rest
  BY <1>4, <1>6
<1>8. Len(f) = Len(x)
  BY <1>4
<1>9. f = x /\ d = rest
  BY <1>7, <1>8, Split
<1>. QED  BY <1>2, <1>3, <1>5, <1>9

LEMMA Cut ==
    ASSUME NEW s \in Seq(Seq(Byte)), NEW r \in 0 .. (Len(s) - 1), NEW a \in Seq(Byte),
           NEW b \in Seq(Byte), Remains(s, r, a \o b), Len(s[r + 1]) <= Len(a)
    PROVE  LET n == Len(s[r + 1])
               back == SubSeq(a, n + 1, Len(a))
           IN  /\ SubSeq(a, 1, n) = s[r + 1] /\ back \in Seq(Byte)
               /\ Remains(s, r + 1, back \o b)
<1>1. PICK rest \in Seq(Byte) : a \o b = s[r + 1] \o rest /\ Remains(s, r + 1, rest)
  BY RemainsTake
<1>2. PICK x \in Seq(Byte) : x = s[r + 1]
  OBVIOUS
<1>3. a \o b = x \o rest /\ Len(x) <= Len(a)
  BY <1>1, <1>2
<1>4. /\ SubSeq(a, 1, Len(x)) = x /\ SubSeq(a, Len(x) + 1, Len(a)) \in Seq(Byte)
      /\ SubSeq(a, Len(x) + 1, Len(a)) \o b = rest
  BY <1>3, CutParts, ZenonT(60)
<1>. QED  BY <1>1, <1>2, <1>4

LEMMA NothingLeft ==
    ASSUME NEW s \in Seq(Seq(Byte)), NEW r \in 0 .. Len(s), NEW a \in Seq(Byte),
           Remains(s, r, a), r < Len(s) => Len(a) < Len(s[r + 1])
    PROVE  r = Len(s) /\ a = <<>>
<1>1. CASE r = Len(s)
  BY <1>1, RemainsNone
<1>2. CASE r # Len(s)
  <2>1. r \in 0 .. (Len(s) - 1) /\ r < Len(s) /\ s[r + 1] \in Seq(Byte)
    BY <1>2
  <2>2. PICK rest \in Seq(Byte) : a = s[r + 1] \o rest
    BY <2>1, RemainsTake
  <2>3. Len(a) = Len(s[r + 1]) + Len(rest) /\ Len(rest) \in Nat /\ Len(s[r + 1]) \in Nat
    BY <2>1, <2>2, ConcatProperties
  <2>. QED  BY <2>1, <2>3
<1>. QED  BY <1>1, <1>2

-----------------------------------------------------------------------------
(* The invariant: the server has handled r packets and the client k of them.  *)
(* What is behind them is on its way, held by a session or on the wire, and a *)
(* side that waits for the next read has less than a whole packet.           *)

StreamsType ==
    /\ sent \in Seq(Message) /\ wire \in Seq(Byte) /\ wire2 \in Seq(Byte)
    /\ kept \in Seq(Byte) /\ work \in Seq(Byte) /\ kept2 \in Seq(Byte)
    /\ reading \in BOOLEAN /\ reading2 \in BOOLEAN

Held == IF reading THEN work ELSE kept

Relaying(r) ==
    /\ Remains(InsOf(sent), r, Held \o wire)
    /\ reading => kept = <<>>
    /\ ~reading => work = <<>>
    /\ ~reading /\ r < Len(sent) => Len(kept) < Len(In(sent[r + 1]))

Delivering(r, k) ==
    /\ Remains(OutsOf(sent, r), k, kept2 \o wire2)
    /\ ~reading2 /\ k < r => Len(kept2) < Len(Out(sent[k + 1]))
    /\ got = GotOf(sent, k)

StreamsInv ==
    /\ StreamsType
    /\ \E r \in 0 .. Len(sent) : \E k \in 0 .. r : Relaying(r) /\ Delivering(r, k)

LEMMA StreamsInit == Init => StreamsInv
<1>. SUFFICES ASSUME Init PROVE StreamsInv
  OBVIOUS
<1>1. /\ sent = <<>> /\ got = <<>> /\ wire = <<>> /\ wire2 = <<>> /\ kept = <<>> /\ kept2 = <<>>
      /\ work = <<>> /\ reading = FALSE /\ reading2 = FALSE
  BY DEF Init
<1>2. StreamsType
  <2>1. <<>> \in Seq(Message) /\ <<>> \in Seq(Byte)
    OBVIOUS
  <2>2. reading \in BOOLEAN /\ reading2 \in BOOLEAN
    BY <1>1
  <2>. QED  BY <1>1, <2>1, <2>2 DEF StreamsType
<1>3. <<>> \in Seq(Message) /\ Len(<<>>) = 0 /\ 0 \in 0 .. 0
  OBVIOUS
<1>4. Remains(InsOf(<<>>), 0, <<>>) /\ Remains(OutsOf(<<>>, 0), 0, <<>>)
  <2>1. InsOf(<<>>) \in Seq(Seq(Byte)) /\ Len(InsOf(<<>>)) = 0
    BY <1>3, InsOfType
  <2>2. OutsOf(<<>>, 0) \in Seq(Seq(Byte)) /\ Len(OutsOf(<<>>, 0)) = 0
    BY <1>3, OutsOfType
  <2>. QED  BY <2>1, <2>2, RemainsNone
<1>5. <<>> \o <<>> = <<>>
  OBVIOUS
<1>6. Relaying(0)
  BY <1>1, <1>3, <1>4, <1>5 DEF Relaying, Held
<1>7. GotOf(<<>>, 0) = <<>>
  BY DEF GotOf
<1>8. Delivering(0, 0)
  BY <1>1, <1>3, <1>4, <1>5, <1>7 DEF Delivering
<1>. QED  BY <1>1, <1>2, <1>3, <1>6, <1>8 DEF StreamsInv

\* The sender's packet is the last on the wire.
LEMMA WriteKeeps ==
    ASSUME StreamsInv, NEW type \in Types, NEW values \in Contents[type], Write(type, values)
    PROVE  StreamsInv'
<1>. DEFINE m == [type |-> type, values |-> values]
            x == Image(Packed(type, values))
<1>1. m \in Message /\ x = In(m)
  BY DEF Message, In
<1>2. /\ sent' = Append(sent, m) /\ wire' = wire \o x
      /\ kept' = kept /\ work' = work /\ reading' = reading
      /\ wire2' = wire2 /\ kept2' = kept2 /\ reading2' = reading2 /\ got' = got
  BY DEF Write
<1>. HIDE DEF m, x
<1>3. x \in Seq(Byte) /\ Len(x) >= 3
  BY <1>1, InOutType, CapType
<1>4. StreamsType
  BY DEF StreamsInv
<1>5. PICK r \in 0 .. Len(sent) : \E k \in 0 .. r : Relaying(r) /\ Delivering(r, k)
  BY DEF StreamsInv
<1>6. PICK k \in 0 .. r : Relaying(r) /\ Delivering(r, k)
  BY <1>5
<1>7. /\ sent \in Seq(Message) /\ wire \in Seq(Byte) /\ Held \in Seq(Byte) /\ Len(sent) \in Nat
      /\ sent' \in Seq(Message) /\ Len(sent') = Len(sent) + 1 /\ sent'[Len(sent) + 1] = m
      /\ \A i \in 1 .. Len(sent) : sent'[i] = sent[i]
  BY <1>1, <1>2, <1>4, AppendProperties DEF StreamsType, Held
<1>8. StreamsType'
  <2>1. wire' \in Seq(Byte)
    BY <1>2, <1>3, <1>7, ConcatProperties
  <2>. QED  BY <1>2, <1>4, <1>7, <2>1 DEF StreamsType
<1>9. Held' = Held
  BY <1>2 DEF Held
<1>10. Remains(InsOf(sent'), r, Held \o wire')
  <2>1. InsOf(sent') = Append(InsOf(sent), x)
    BY <1>1, <1>2, <1>7, InsOfMore
  <2>2. InsOf(sent) \in Seq(Seq(Byte)) /\ Len(InsOf(sent)) = Len(sent)
    BY <1>7, InsOfType
  <2>3. Remains(InsOf(sent), r, Held \o wire)
    BY <1>6 DEF Relaying
  <2>4. Remains(Append(InsOf(sent), x), r, (Held \o wire) \o x)
    BY <1>3, <2>2, <2>3, RemainsMore
  <2>5. (Held \o wire) \o x = Held \o (wire \o x)
    BY <1>3, <1>7, Regroup
  <2>. QED  BY <1>2, <2>1, <2>4, <2>5
<1>11. ASSUME ~reading, r < Len(sent') PROVE Len(kept) < Len(In(sent'[r + 1]))
  <2>1. CASE r < Len(sent)
    <3>1. r + 1 \in 1 .. Len(sent)
      BY <1>7, <2>1
    <3>. QED  BY <1>6, <1>7, <1>11, <2>1, <3>1 DEF Relaying
  <2>2. CASE r = Len(sent)
    <3>1. kept \in Seq(Byte) /\ Held = kept
      BY <1>4, <1>11 DEF StreamsType, Held
    <3>2. Remains(InsOf(sent), r, kept \o wire)
      BY <1>6, <3>1 DEF Relaying
    <3>3. InsOf(sent) \in Seq(Seq(Byte)) /\ Len(InsOf(sent)) = Len(sent) /\ r \in 0 .. Len(InsOf(sent))
      BY <1>7, InsOfType
    <3>4. kept = <<>>
      <4>1. ASSUME kept # <<>> PROVE FALSE
        <5>1. r \in 0 .. (Len(InsOf(sent)) - 1)
          BY <1>7, <3>1, <3>2, <3>3, <4>1, SomethingLeft
        <5>. QED  BY <1>7, <2>2, <3>3, <5>1
      <4>. QED  BY <4>1
    <3>5. sent'[r + 1] = m /\ Len(kept) = 0
      BY <1>7, <2>2, <3>4
    <3>. QED  BY <1>1, <1>3, <3>5
  <2>. QED  BY <1>7, <2>1, <2>2
<1>12. Relaying(r)'
  <2>1. (reading => kept = <<>>) /\ (~reading => work = <<>>)
    BY <1>6 DEF Relaying
  <2>. QED  BY <1>2, <1>9, <1>10, <1>11, <2>1 DEF Relaying
<1>13. Delivering(r, k)'
  <2>1. /\ Remains(OutsOf(sent, r), k, kept2 \o wire2) /\ got = GotOf(sent, k)
        /\ ~reading2 /\ k < r => Len(kept2) < Len(Out(sent[k + 1]))
    BY <1>6 DEF Delivering
  <2>2. k \in 0 .. Len(sent) /\ (k < r => k + 1 \in 1 .. Len(sent))
    BY <1>7
  <2>3. OutsOf(sent', r) = OutsOf(sent, r) /\ GotOf(sent', k) = GotOf(sent, k)
    BY <1>1, <1>2, <1>7, <2>2, EarlierStay
  <2>4. k < r => sent'[k + 1] = sent[k + 1]
    BY <1>7, <2>2
  <2>. QED  BY <1>2, <2>1, <2>3, <2>4 DEF Delivering
<1>14. r \in 0 .. Len(sent')
  BY <1>7
<1>. QED  BY <1>8, <1>12, <1>13, <1>14 DEF StreamsInv

\* A read brings what is next on the wire behind what is held.
LEMMA ReadKeeps ==
    ASSUME StreamsInv, NEW n \in 1 .. Len(wire), Read(n)
    PROVE  StreamsInv'
<1>1. /\ ~reading /\ work' = kept \o SubSeq(wire, 1, n) /\ kept' = <<>>
      /\ wire' = SubSeq(wire, n + 1, Len(wire)) /\ reading' = TRUE
      /\ sent' = sent /\ wire2' = wire2 /\ kept2' = kept2 /\ reading2' = reading2 /\ got' = got
  BY DEF Read
<1>2. StreamsType
  BY DEF StreamsInv
<1>3. PICK r \in 0 .. Len(sent) : \E k \in 0 .. r : Relaying(r) /\ Delivering(r, k)
  BY DEF StreamsInv
<1>4. PICK k \in 0 .. r : Relaying(r) /\ Delivering(r, k)
  BY <1>3
<1>5. kept \in Seq(Byte) /\ wire \in Seq(Byte)
  BY <1>2 DEF StreamsType
<1>6. wire' \in Seq(Byte) /\ work' \in Seq(Byte) /\ work' \o wire' = kept \o wire
  BY <1>1, <1>5, Moved
<1>7. StreamsType'
  BY <1>1, <1>2, <1>6 DEF StreamsType
<1>8. Relaying(r)'
  <2>1. Remains(InsOf(sent), r, kept \o wire)
    BY <1>1, <1>4 DEF Relaying, Held
  <2>2. Held' = work'
    BY <1>1 DEF Held
  <2>. QED  BY <1>1, <1>6, <2>1, <2>2 DEF Relaying
<1>9. Delivering(r, k)'
  BY <1>1, <1>4 DEF Delivering
<1>10. r \in 0 .. Len(sent')
  BY <1>1
<1>. QED  BY <1>7, <1>8, <1>9, <1>10 DEF StreamsInv

\* What is in front of the buffer of the server's loop: a packet whose size it sees, as
\* soon as there are two bytes of it.
LEMMA InFront ==
    ASSUME StreamsInv, reading, work # <<>>,
           NEW r \in 0 .. Len(sent), Relaying(r)
    PROVE  /\ r \in 0 .. (Len(sent) - 1) /\ sent[r + 1] \in Message
           /\ InsOf(sent)[r + 1] = In(sent[r + 1])
           /\ Remains(InsOf(sent), r, work \o wire)
           /\ \A size \in SizesInFront : Len(work) # 1 => size = Len(In(sent[r + 1]))
<1>. DEFINE s == InsOf(sent)
<1>1. /\ sent \in Seq(Message) /\ work \in Seq(Byte) /\ wire \in Seq(Byte) /\ Len(sent) \in Nat
  BY DEF StreamsInv, StreamsType
<1>2. Remains(s, r, work \o wire)
  BY DEF Relaying, Held
<1>3. /\ s \in Seq(Seq(Byte)) /\ Len(s) = Len(sent)
      /\ \A i \in 1 .. Len(sent) : sent[i] \in Message /\ s[i] = In(sent[i])
  BY <1>1, InsOfType
<1>. HIDE DEF s
<1>4. r \in 0 .. (Len(sent) - 1)
  <2>1. r \in 0 .. Len(s)
    BY <1>3
  <2>2. r \in 0 .. (Len(s) - 1)
    BY <1>1, <1>2, <1>3, <2>1, SomethingLeft
  <2>. QED  BY <1>3, <2>2
<1>5. r + 1 \in 1 .. Len(sent) /\ r \in 0 .. (Len(s) - 1)
  BY <1>1, <1>3, <1>4
<1>6. sent[r + 1] \in Message /\ s[r + 1] = In(sent[r + 1])
  BY <1>3, <1>5
<1>7. Frame(s[r + 1])
  BY <1>6, InOutType
<1>8. /\ Len(work) >= 1 => work[1] = s[r + 1][1]
      /\ Len(work) >= 2 => work[1] + Base * work[2] = Len(s[r + 1])
  BY <1>1, <1>2, <1>3, <1>5, <1>7, SizeTold
<1>9. Len(work) \in Nat /\ Len(work) # 0
  BY <1>1, EmptySeq
<1>10. ASSUME NEW size \in SizesInFront, Len(work) # 1
       PROVE  size = Len(In(sent[r + 1]))
  <2>1. size = work[1] + Base * work[2]
    BY <1>9, <1>10 DEF SizesInFront
  <2>2. Len(work) \in Nat /\ Len(work) # 0 /\ Len(work) # 1
    BY <1>9, <1>10
  <2>3. \A l \in Nat : l # 0 /\ l # 1 => l >= 2
    OBVIOUS
  <2>4. Len(work) >= 2
    BY <2>2, <2>3, Zenon
  <2>. QED  BY <1>6, <1>8, <2>1, <2>4
<1>. QED  BY <1>2, <1>4, <1>6, <1>10 DEF s

\* server::execute cuts the next packet off, whole, and writes what the relay makes of it,
\* unless it has guessed the size.
LEMMA ExecuteKeeps ==
    ASSUME StreamsInv, NEW size \in SizesInFront, Execute(size), ~guessed'
    PROVE  StreamsInv'
<1>1. /\ reading /\ size <= Len(work) /\ work' = SubSeq(work, size + 1, Len(work))
      /\ sent' = sent /\ wire' = wire /\ kept' = kept /\ reading' = reading
      /\ kept2' = kept2 /\ reading2' = reading2 /\ got' = got
  BY DEF Execute
<1>2. StreamsType
  BY DEF StreamsInv
<1>3. PICK r \in 0 .. Len(sent) : \E k \in 0 .. r : Relaying(r) /\ Delivering(r, k)
  BY DEF StreamsInv
<1>4. PICK k \in 0 .. r : Relaying(r) /\ Delivering(r, k)
  BY <1>3
<1>5. /\ sent \in Seq(Message) /\ work \in Seq(Byte) /\ wire \in Seq(Byte) /\ Len(sent) \in Nat
      /\ wire2 \in Seq(Byte) /\ kept2 \in Seq(Byte)
  BY <1>2 DEF StreamsType
<1>6. work # <<>>
  BY DEF SizesInFront
<1>. DEFINE m == sent[r + 1]
            s == InsOf(sent)
<1>7. /\ r \in 0 .. (Len(sent) - 1) /\ m \in Message /\ s[r + 1] = In(m)
      /\ Remains(s, r, work \o wire) /\ size = Len(In(m))
  <2>1. Len(work) # 1
    BY DEF Execute
  <2>. QED  BY <1>1, <1>4, <1>6, <2>1, InFront
<1>8. s \in Seq(Seq(Byte)) /\ Len(s) = Len(sent)
  BY <1>5, InsOfType
<1>. HIDE DEF m, s
<1>9. /\ SubSeq(work, 1, size) = In(m) /\ work' \in Seq(Byte)
      /\ Remains(s, r + 1, work' \o wire)
  BY <1>1, <1>5, <1>7, <1>8, Cut
<1>10. wire2' = wire2 \o Out(m)
  <2>. DEFINE p == FromBytes(In(m))
  <2>1. Type(p) = m.type /\ m.type \in Types
    BY <1>7, ArrivedHolds, MessageType
  <2>2. wire2' = wire2 \o Image(Handled(p))
    BY <1>9, <2>1 DEF Execute, Handled
  <2>. QED  BY <2>2 DEF Out
<1>11. Out(m) \in Seq(Byte)
  BY <1>7, InOutType
<1>12. StreamsType'
  <2>1. wire2' \in Seq(Byte)
    BY <1>5, <1>10, <1>11, ConcatProperties
  <2>. QED  BY <1>1, <1>2, <1>9, <2>1 DEF StreamsType
<1>13. Relaying(r + 1)'
  <2>1. Held' = work' /\ (reading => kept = <<>>)
    BY <1>1, <1>4 DEF Held, Relaying
  <2>. QED  BY <1>1, <1>9, <2>1 DEF Relaying, s
<1>14. Delivering(r + 1, k)'
  <2>1. /\ Remains(OutsOf(sent, r), k, kept2 \o wire2) /\ got = GotOf(sent, k)
        /\ ~reading2 /\ k < r => Len(kept2) < Len(Out(sent[k + 1]))
    BY <1>4 DEF Delivering
  <2>2. /\ OutsOf(sent, r) \in Seq(Seq(Byte)) /\ Len(OutsOf(sent, r)) = r
    BY <1>5, OutsOfType
  <2>3. OutsOf(sent, r + 1) = Append(OutsOf(sent, r), Out(m))
    BY <1>5, <1>7, OutsOfMore DEF m
  <2>4. Remains(OutsOf(sent, r + 1), k, (kept2 \o wire2) \o Out(m))
    BY <1>11, <2>1, <2>2, <2>3, RemainsMore
  <2>5. (kept2 \o wire2) \o Out(m) = kept2' \o wire2'
    BY <1>1, <1>5, <1>10, <1>11, Regroup
  <2>6. ASSUME ~reading2, k < r + 1 PROVE Len(kept2) < Len(Out(sent[k + 1]))
    <3>1. CASE k < r
      BY <2>1, <2>6, <3>1
    <3>2. CASE k = r
      <4>1. kept2 = <<>>
        <5>1. kept2 \o wire2 = <<>>
          BY <2>1, <2>2, <3>2, RemainsNone
        <5>2. Len(kept2 \o wire2) = Len(kept2) + Len(wire2) /\ Len(kept2) \in Nat /\ Len(wire2) \in Nat
          BY <1>5, ConcatProperties
        <5>3. Len(kept2) = 0
          BY <5>1, <5>2
        <5>. QED  BY <1>5, <5>3, EmptySeq
      <4>2. Len(Out(m)) >= 3 /\ Len(Out(m)) \in Nat
        BY <1>7, InOutType, CapType
      <4>3. Len(kept2) = 0
        BY <4>1
      <4>. QED  BY <3>2, <4>2, <4>3 DEF m
    <3>. QED  BY <2>6, <3>1, <3>2
  <2>. QED  BY <1>1, <2>1, <2>4, <2>5, <2>6 DEF Delivering
<1>15. r + 1 \in 0 .. Len(sent') /\ k \in 0 .. (r + 1)
  BY <1>1, <1>5, <1>7
<1>. QED  BY <1>12, <1>13, <1>14, <1>15 DEF StreamsInv

\* The loop ends only when less than a packet is left.
LEMMA KeepRestKeeps ==
    ASSUME StreamsInv, KeepRest
    PROVE  StreamsInv'
<1>1. /\ reading /\ (work = <<>> \/ \E size \in SizesInFront : size > Len(work))
      /\ kept' = work /\ work' = <<>> /\ reading' = FALSE
      /\ sent' = sent /\ wire' = wire /\ wire2' = wire2
      /\ kept2' = kept2 /\ reading2' = reading2 /\ got' = got
  BY DEF KeepRest
<1>2. StreamsType
  BY DEF StreamsInv
<1>3. PICK r \in 0 .. Len(sent) : \E k \in 0 .. r : Relaying(r) /\ Delivering(r, k)
  BY DEF StreamsInv
<1>4. PICK k \in 0 .. r : Relaying(r) /\ Delivering(r, k)
  BY <1>3
<1>5. sent \in Seq(Message) /\ work \in Seq(Byte) /\ Len(sent) \in Nat
  BY <1>2 DEF StreamsType
<1>6. StreamsType'
  <2>1. reading' \in BOOLEAN
    BY <1>1
  <2>2. <<>> \in Seq(Byte)
    OBVIOUS
  <2>3. work' \in Seq(Byte)
    BY <1>1, <2>2
  <2>. QED  BY <1>1, <1>2, <2>1, <2>3 DEF StreamsType
<1>7. ASSUME r < Len(sent) PROVE Len(work) < Len(In(sent[r + 1]))
  <2>1. sent[r + 1] \in Message
    BY <1>5, <1>7
  <2>2. Len(In(sent[r + 1])) >= 3 /\ Len(In(sent[r + 1])) \in Nat
    BY <2>1, InOutType, CapType
  <2>3. CASE work = <<>>
    <3>1. Len(work) = 0
      BY <2>3
    <3>. QED  BY <2>2, <3>1
  <2>4. CASE work # <<>>
    <3>1. PICK size \in SizesInFront : size > Len(work)
      BY <1>1, <2>4
    <3>2. \A any \in SizesInFront : Len(work) # 1 => any = Len(In(sent[r + 1]))
      BY <1>1, <1>4, <2>4, InFront
    <3>3. Len(work) = 1 \/ size = Len(In(sent[r + 1]))
      BY <3>1, <3>2
    <3>4. Len(work) \in Nat
      BY <1>5
    <3>5. CASE Len(work) = 1
      BY <2>2, <3>5
    <3>6. CASE size = Len(In(sent[r + 1]))
      <4>1. Len(In(sent[r + 1])) > Len(work)
        BY <3>1, <3>6
      <4>. QED  BY <2>2, <3>4, <4>1
    <3>. QED  BY <3>3, <3>5, <3>6
  <2>. QED  BY <2>3, <2>4
<1>8. Relaying(r)'
  <2>1. Held = work /\ Held' = work
    BY <1>1 DEF Held
  <2>2. Remains(InsOf(sent), r, work \o wire)
    BY <1>4, <2>1 DEF Relaying
  <2>. QED  BY <1>1, <1>7, <2>1, <2>2 DEF Relaying
<1>9. Delivering(r, k)'
  BY <1>1, <1>4 DEF Delivering
<1>10. r \in 0 .. Len(sent')
  BY <1>1
<1>. QED  BY <1>6, <1>8, <1>9, <1>10 DEF StreamsInv

LEMMA ClientReadKeeps ==
    ASSUME StreamsInv, NEW n \in 1 .. Len(wire2), ClientRead(n)
    PROVE  StreamsInv'
<1>1. /\ kept2' = kept2 \o SubSeq(wire2, 1, n)
      /\ wire2' = SubSeq(wire2, n + 1, Len(wire2)) /\ reading2' = TRUE
      /\ sent' = sent /\ wire' = wire /\ kept' = kept /\ work' = work /\ reading' = reading
      /\ got' = got
  BY DEF ClientRead
<1>2. StreamsType
  BY DEF StreamsInv
<1>3. PICK r \in 0 .. Len(sent) : \E k \in 0 .. r : Relaying(r) /\ Delivering(r, k)
  BY DEF StreamsInv
<1>4. PICK k \in 0 .. r : Relaying(r) /\ Delivering(r, k)
  BY <1>3
<1>5. kept2 \in Seq(Byte) /\ wire2 \in Seq(Byte)
  BY <1>2 DEF StreamsType
<1>6. wire2' \in Seq(Byte) /\ kept2' \in Seq(Byte) /\ kept2' \o wire2' = kept2 \o wire2
  BY <1>1, <1>5, Moved
<1>7. StreamsType'
  BY <1>1, <1>2, <1>6 DEF StreamsType
<1>8. Relaying(r)'
  <2>1. Held' = Held
    BY <1>1 DEF Held
  <2>. QED  BY <1>1, <1>4, <2>1 DEF Relaying
<1>9. Delivering(r, k)'
  BY <1>1, <1>4, <1>6 DEF Delivering
<1>10. r \in 0 .. Len(sent')
  BY <1>1
<1>. QED  BY <1>7, <1>8, <1>9, <1>10 DEF StreamsInv

\* The same for the client, which waits for three bytes before it looks at the size.
LEMMA InFrontOfClient ==
    ASSUME StreamsInv, Len(kept2) >= 3,
           NEW r \in 0 .. Len(sent), NEW k \in 0 .. r, Delivering(r, k)
    PROVE  /\ k \in 0 .. (r - 1) /\ sent[k + 1] \in Message
           /\ OutsOf(sent, r)[k + 1] = Out(sent[k + 1])
           /\ ClientSize = Len(Out(sent[k + 1])) /\ ClientSize >= 3 /\ ClientSize \in Nat
<1>. DEFINE s == OutsOf(sent, r)
<1>1. /\ sent \in Seq(Message) /\ kept2 \in Seq(Byte) /\ wire2 \in Seq(Byte) /\ Len(sent) \in Nat
  BY DEF StreamsInv, StreamsType
<1>2. Remains(s, k, kept2 \o wire2)
  BY DEF Delivering
<1>3. /\ s \in Seq(Seq(Byte)) /\ Len(s) = r /\ \A i \in 1 .. r : s[i] = Out(sent[i])
  BY <1>1, OutsOfType
<1>. HIDE DEF s
<1>4. kept2 # <<>>
  <2>1. Len(kept2) # 0
    BY <1>1
  <2>. QED  BY <2>1
<1>5. k \in 0 .. (r - 1)
  <2>1. k \in 0 .. Len(s)
    BY <1>3
  <2>2. k \in 0 .. (Len(s) - 1)
    BY <1>1, <1>2, <1>3, <1>4, <2>1, SomethingLeft
  <2>. QED  BY <1>3, <2>2
<1>6. k + 1 \in 1 .. r /\ k + 1 \in 1 .. Len(sent) /\ k \in 0 .. (Len(s) - 1)
  BY <1>1, <1>3, <1>5
<1>7. sent[k + 1] \in Message /\ s[k + 1] = Out(sent[k + 1])
  BY <1>1, <1>3, <1>6
<1>8. Frame(s[k + 1]) /\ Len(s[k + 1]) \in 3 .. Cap
  BY <1>7, InOutType
<1>9. Len(kept2) >= 2
  BY <1>1
<1>10. kept2[1] + Base * kept2[2] = Len(s[k + 1])
  BY <1>1, <1>2, <1>3, <1>6, <1>8, <1>9, SizeTold
<1>11. ClientSize = Len(s[k + 1]) /\ ClientSize >= 3 /\ ClientSize \in Nat
  BY <1>8, <1>10, CapType DEF ClientSize
<1>. QED  BY <1>5, <1>7, <1>11 DEF s

\* client::execute pops the values of the next packet.
LEMMA ClientExecuteKeeps ==
    ASSUME StreamsInv, ClientExecute
    PROVE  StreamsInv'
<1>1. /\ Len(kept2) >= 3 /\ ClientSize <= Len(kept2)
      /\ reading2' = (kept2' # <<>>)
      /\ sent' = sent /\ wire' = wire /\ kept' = kept /\ work' = work /\ reading' = reading
      /\ wire2' = wire2
  BY DEF ClientExecute, Enough
<1>2. StreamsType
  BY DEF StreamsInv
<1>3. PICK r \in 0 .. Len(sent) : \E k \in 0 .. r : Relaying(r) /\ Delivering(r, k)
  BY DEF StreamsInv
<1>4. PICK k \in 0 .. r : Relaying(r) /\ Delivering(r, k)
  BY <1>3
<1>5. /\ sent \in Seq(Message) /\ Len(sent) \in Nat /\ wire2 \in Seq(Byte) /\ kept2 \in Seq(Byte)
  BY <1>2 DEF StreamsType
<1>. DEFINE m == sent[k + 1]
            s == OutsOf(sent, r)
            size == ClientSize
            p == FromBytes(SubSeq(kept2, 1, size))
<1>6. /\ k \in 0 .. (r - 1) /\ m \in Message /\ s[k + 1] = Out(m)
      /\ size = Len(Out(m)) /\ size >= 3 /\ size \in Nat
  BY <1>1, <1>4, InFrontOfClient
<1>7. s \in Seq(Seq(Byte)) /\ Len(s) = r
  BY <1>5, OutsOfType
<1>8. Remains(s, k, kept2 \o wire2) /\ got = GotOf(sent, k)
  BY <1>4 DEF Delivering
<1>9. ~(size < 3)
  BY <1>6
<1>10. /\ got' = IF Type(p) \notin Range(NewType) THEN got
                 ELSE Append(got, [type |-> Type(p),
                                   values |-> PopAll(p, NewFormat(Source(Type(p))))])
       /\ kept2' = SubSeq(kept2, size + 1, Len(kept2))
  BY <1>9 DEF ClientExecute
<1>11. size <= Len(kept2)
  BY <1>1
<1>. HIDE DEF m, s, size
<1>12. /\ SubSeq(kept2, 1, size) = Out(m) /\ kept2' \in Seq(Byte)
       /\ Remains(s, k + 1, kept2' \o wire2)
  BY <1>5, <1>6, <1>7, <1>8, <1>10, <1>11, Cut
<1>13. /\ Type(p) = NewType[m.type] /\ Type(p) \in Range(NewType)
       /\ PopAll(p, NewFormat(Source(Type(p)))) = Relayed(m).values
  BY <1>6, <1>12, ComesBack
<1>. HIDE DEF p
<1>14. got' = GotOf(sent, k + 1)
  <2>. DEFINE values == PopAll(p, NewFormat(Source(Type(p))))
              type == Type(p)
  <2>1. Relayed(m) = [type |-> NewType[m.type], values |-> Relayed(m).values]
    BY DEF Relayed
  <2>2. got' = IF type \notin Range(NewType) THEN got
               ELSE Append(got, [type |-> type, values |-> values])
    BY <1>10
  <2>3. type = NewType[m.type] /\ type \in Range(NewType) /\ values = Relayed(m).values
    BY <1>13
  <2>. HIDE DEF values, type
  <2>4. [type |-> type, values |-> values] = Relayed(m)
    BY <2>1, <2>3
  <2>5. got' = Append(got, Relayed(m))
    BY <2>2, <2>3, <2>4
  <2>6. k \in Nat
    BY <1>5
  <2>. QED  BY <1>8, <2>5, <2>6, GotOfMore DEF m
<1>15. StreamsType'
  <2>1. reading2' \in BOOLEAN
    BY <1>1
  <2>. QED  BY <1>1, <1>2, <1>12, <2>1 DEF StreamsType
<1>16. Relaying(r)'
  <2>1. Held' = Held
    BY <1>1 DEF Held
  <2>. QED  BY <1>1, <1>4, <2>1 DEF Relaying
<1>17. Delivering(r, k + 1)'
  <2>1. ASSUME ~reading2', k + 1 < r PROVE Len(kept2') < Len(Out(sent[(k + 1) + 1]))
    <3>1. kept2' = <<>>
      BY <1>1, <2>1
    <3>2. Len(kept2') = 0
      BY <3>1
    <3>3. sent[(k + 1) + 1] \in Message
      BY <1>5, <2>1
    <3>4. Len(Out(sent[(k + 1) + 1])) >= 3
      BY <3>3, InOutType, CapType
    <3>. QED  BY <3>2, <3>4
  <2>. QED  BY <1>1, <1>12, <1>14, <2>1 DEF Delivering, s
<1>18. r \in 0 .. Len(sent') /\ k + 1 \in 0 .. r
  BY <1>1, <1>6
<1>. QED  BY <1>15, <1>16, <1>17, <1>18 DEF StreamsInv

\* It waits for more only when it has less than a packet.
LEMMA ClientWaitsKeeps ==
    ASSUME StreamsInv, ClientWaits
    PROVE  StreamsInv'
<1>1. /\ ~Enough /\ reading2' = FALSE
      /\ sent' = sent /\ wire' = wire /\ kept' = kept /\ work' = work /\ reading' = reading
      /\ wire2' = wire2 /\ kept2' = kept2 /\ got' = got
  BY DEF ClientWaits
<1>2. StreamsType
  BY DEF StreamsInv
<1>3. PICK r \in 0 .. Len(sent) : \E k \in 0 .. r : Relaying(r) /\ Delivering(r, k)
  BY DEF StreamsInv
<1>4. PICK k \in 0 .. r : Relaying(r) /\ Delivering(r, k)
  BY <1>3
<1>5. sent \in Seq(Message) /\ Len(sent) \in Nat /\ kept2 \in Seq(Byte) /\ Len(kept2) \in Nat
  BY <1>2 DEF StreamsType
<1>6. StreamsType'
  BY <1>1, <1>2 DEF StreamsType
<1>7. Relaying(r)'
  <2>1. Held' = Held
    BY <1>1 DEF Held
  <2>. QED  BY <1>1, <1>4, <2>1 DEF Relaying
<1>8. ASSUME k < r PROVE Len(kept2) < Len(Out(sent[k + 1]))
  <2>1. sent[k + 1] \in Message
    BY <1>5, <1>8
  <2>2. Len(Out(sent[k + 1])) >= 3 /\ Len(Out(sent[k + 1])) \in Nat
    BY <2>1, InOutType, CapType
  <2>3. CASE Len(kept2) >= 3
    <3>1. ClientSize = Len(Out(sent[k + 1]))
      BY <1>4, <2>3, InFrontOfClient
    <3>2. ~(ClientSize <= Len(kept2))
      BY <1>1, <2>3 DEF Enough
    <3>. QED  BY <1>5, <2>2, <3>1, <3>2
  <2>4. CASE ~(Len(kept2) >= 3)
    BY <1>5, <2>2, <2>4
  <2>. QED  BY <2>3, <2>4
<1>9. Delivering(r, k)'
  BY <1>1, <1>4, <1>8 DEF Delivering
<1>10. r \in 0 .. Len(sent')
  BY <1>1
<1>. QED  BY <1>6, <1>7, <1>9, <1>10 DEF StreamsInv

LEMMA StreamsStep ==
    ASSUME StreamsInv, [Next]_vars, ~guessed'
    PROVE  StreamsInv'
<1>1. CASE Next
  <2>1. ASSUME NEW type \in Types, NEW values \in Contents[type], Write(type, values)
        PROVE  StreamsInv'
    BY <2>1, WriteKeeps
  <2>2. ASSUME NEW n \in 1 .. Len(wire), Read(n) PROVE StreamsInv'
    BY <2>2, ReadKeeps
  <2>3. ASSUME NEW size \in SizesInFront, Execute(size) PROVE StreamsInv'
    BY <2>3, ExecuteKeeps
  <2>4. CASE KeepRest
    BY <2>4, KeepRestKeeps
  <2>5. ASSUME NEW n \in 1 .. Len(wire2), ClientRead(n) PROVE StreamsInv'
    BY <2>5, ClientReadKeeps
  <2>6. CASE ClientExecute
    BY <2>6, ClientExecuteKeeps
  <2>7. CASE ClientWaits
    BY <2>7, ClientWaitsKeeps
  <2>. QED  BY <1>1, <2>1, <2>2, <2>3, <2>4, <2>5, <2>6, <2>7 DEF Next
<1>2. CASE UNCHANGED vars
  BY <1>2 DEF vars, StreamsInv, StreamsType, Relaying, Delivering, Held
<1>. QED  BY <1>1, <1>2

\* What is guessed once stays so.
LEMMA GuessedStays ==
    ASSUME [Next]_vars, guessed \in BOOLEAN
    PROVE  guessed' \in BOOLEAN /\ (guessed => guessed')
<1>1. (\E size \in SizesInFront : Execute(size)) => guessed' = (guessed \/ Len(work) = 1)
  BY DEF Execute
<1>2. guessed' = guessed \/ \E size \in SizesInFront : Execute(size)
  <2>1. CASE UNCHANGED vars
    BY <2>1 DEF vars
  <2>2. CASE Next
    <3>1. \A type \in Types : \A values \in Contents[type] :
             Write(type, values) => guessed' = guessed
      BY DEF Write
    <3>2. \A n \in 1 .. Len(wire) : Read(n) => guessed' = guessed
      BY DEF Read
    <3>3. \A n \in 1 .. Len(wire2) : ClientRead(n) => guessed' = guessed
      BY DEF ClientRead
    <3>4. KeepRest \/ ClientExecute \/ ClientWaits => guessed' = guessed
      BY DEF KeepRest, ClientExecute, ClientWaits
    <3>. QED  BY <2>2, <3>1, <3>2, <3>3, <3>4 DEF Next
  <2>. QED  BY <2>1, <2>2
<1>. QED  BY <1>1, <1>2

StreamsOrGuess == guessed \in BOOLEAN /\ (~guessed => StreamsInv)

LEMMA StreamsHold == Spec => []StreamsOrGuess
<1>1. Init => StreamsOrGuess
  BY StreamsInit DEF StreamsOrGuess, Init
<1>2. StreamsOrGuess /\ [Next]_vars => StreamsOrGuess'
  BY StreamsStep, GuessedStays DEF StreamsOrGuess
<1>. QED  BY <1>1, <1>2, PTL DEF Spec

\* What the client's handlers pop is what was written and what the relay made of it, value
\* for value and in the order of the packets, for every way to cut the two streams into
\* reads, every format of the packets, sizes of any low byte and any number of packets, until
\* the server handles a packet of which only one byte has arrived (server.h:109).
THEOREM ValuesInOrder == Spec => []InOrder
<1>1. StreamsOrGuess => InOrder
  <2>. SUFFICES ASSUME StreamsInv PROVE IsPrefix(got, [i \in 1 .. Len(sent) |-> Relayed(sent[i])])
    BY DEF StreamsOrGuess, InOrder
  <2>1. PICK r \in 0 .. Len(sent) : \E k \in 0 .. r : Relaying(r) /\ Delivering(r, k)
    BY DEF StreamsInv
  <2>2. PICK k \in 0 .. r : Delivering(r, k)
    BY <2>1
  <2>3. sent \in Seq(Message) /\ Len(sent) \in Nat
    BY DEF StreamsInv, StreamsType
  <2>. DEFINE all == [i \in 1 .. Len(sent) |-> Relayed(sent[i])]
  <2>4. got = [i \in 1 .. k |-> Relayed(sent[i])]
    BY <2>2 DEF Delivering, GotOf
  <2>5. k \in Nat /\ k <= Len(sent)
    BY <2>3
  <2>6. Len(got) = k /\ Len(all) = Len(sent)
    BY <2>3, <2>4, <2>5
  <2>7. SubSeq(got, 1, k) = SubSeq(all, 1, k)
    <3>1. SubSeq(got, 1, k) = [i \in 1 .. k |-> got[i]] /\ SubSeq(all, 1, k) = [i \in 1 .. k |-> all[i]]
      BY <2>5
    <3>2. \A i \in 1 .. k : got[i] = all[i]
      BY <2>3, <2>4, <2>5
    <3>. HIDE DEF all
    <3>. QED  BY <3>1, <3>2
  <2>. QED  BY <2>5, <2>6, <2>7 DEF IsPrefix
<1>2. Spec => []StreamsOrGuess
  BY StreamsHold
<1>. QED  BY <1>1, <1>2, PTL

\* When every byte has arrived and both loops have ended, every packet has been handled on
\* both sides and no byte of any is kept, unless the server has guessed a size.
THEOREM NothingWaits == Spec => []NothingKeptBack
<1>1. StreamsOrGuess => NothingKeptBack
  <2>. SUFFICES ASSUME StreamsInv, wire = <<>>, wire2 = <<>>, ~reading, ~reading2
                PROVE  Len(got) = Len(sent) /\ kept = <<>> /\ kept2 = <<>>
    BY DEF StreamsOrGuess, NothingKeptBack
  <2>1. PICK r \in 0 .. Len(sent) : \E k \in 0 .. r : Relaying(r) /\ Delivering(r, k)
    BY DEF StreamsInv
  <2>2. PICK k \in 0 .. r : Relaying(r) /\ Delivering(r, k)
    BY <2>1
  <2>3. /\ sent \in Seq(Message) /\ Len(sent) \in Nat /\ kept \in Seq(Byte) /\ kept2 \in Seq(Byte)
    BY DEF StreamsInv, StreamsType
  <2>4. kept \o wire = kept /\ kept2 \o wire2 = kept2
    BY <2>3, ConcatEmptySeq
  <2>5. r = Len(sent) /\ kept = <<>>
    <3>. DEFINE s == InsOf(sent)
    <3>1. s \in Seq(Seq(Byte)) /\ Len(s) = Len(sent) /\ \A i \in 1 .. Len(sent) : s[i] = In(sent[i])
      BY <2>3, InsOfType
    <3>2. Remains(s, r, kept)
      BY <2>2, <2>4 DEF Relaying, Held
    <3>3. r < Len(sent) => Len(kept) < Len(In(sent[r + 1]))
      BY <2>2 DEF Relaying
    <3>. HIDE DEF s
    <3>4. r < Len(s) => Len(kept) < Len(s[r + 1])
      <4>1. r < Len(s) => r + 1 \in 1 .. Len(sent)
        BY <2>3, <3>1
      <4>. QED  BY <3>1, <3>3, <4>1
    <3>5. r \in 0 .. Len(s)
      BY <3>1
    <3>6. r = Len(s) /\ kept = <<>>
      BY <2>3, <3>1, <3>2, <3>4, <3>5, NothingLeft
    <3>. QED  BY <3>1, <3>6
  <2>6. k = r /\ kept2 = <<>>
    <3>. DEFINE s == OutsOf(sent, r)
    <3>1. s \in Seq(Seq(Byte)) /\ Len(s) = r /\ \A i \in 1 .. r : s[i] = Out(sent[i])
      BY <2>3, OutsOfType
    <3>2. Remains(s, k, kept2) /\ (k < r => Len(kept2) < Len(Out(sent[k + 1])))
      BY <2>2, <2>4 DEF Delivering
    <3>. HIDE DEF s
    <3>3. k < Len(s) => Len(kept2) < Len(s[k + 1])
      <4>1. k < r => k + 1 \in 1 .. r
        BY <2>3
      <4>. QED  BY <3>1, <3>2, <4>1
    <3>4. k \in 0 .. Len(s)
      BY <3>1
    <3>5. k = Len(s) /\ kept2 = <<>>
      BY <2>3, <3>1, <3>2, <3>3, <3>4, NothingLeft
    <3>. QED  BY <3>1, <3>5
  <2>7. Len(got) = k
    <3>1. got = [i \in 1 .. k |-> Relayed(sent[i])] /\ k \in Nat
      BY <2>2 DEF Delivering, GotOf
    <3>. QED  BY <3>1
  <2>. QED  BY <2>5, <2>6, <2>7
<1>2. Spec => []StreamsOrGuess
  BY StreamsHold
<1>. QED  BY <1>1, <1>2, PTL

-----------------------------------------------------------------------------
(***************************************************************************)
(* The lists of a file.                                                    *)
(***************************************************************************)

WholeLabels == {"sign", "zero", "octal", "hexa", "digit"}
FractionLabels == {"dot", "dot_digit", "exp", "exp_sign", "exp_digit"}
SymbolLabels == {"string"} \cup WholeLabels \cup FractionLabels
Labels == {"start", "comment"} \cup Quotes \cup SymbolLabels

\* Elements of the stack are lists of any elements.
IsSequence(s) == \E S : s \in Seq(S)

Pending(t) == CASE t = "OPEN" -> 1 [] t = "CLOSE" -> 0 - 1 [] OTHER -> 0

StackInv ==
    mode = "ParseList" /\ status = "running" =>
        /\ IsSequence(stack)
        /\ depth \in Int
        /\ depth = Len(stack) + Pending(token)

IInv == label \in Labels /\ StackInv

-----------------------------------------------------------------------------
(* Sequences. *)

LEMMA PushFront ==
    ASSUME NEW s, NEW x, IsSequence(s)
    PROVE  IsSequence(<<x>> \o s) /\ Len(<<x>> \o s) = Len(s) + 1
<1>1. PICK S : s \in Seq(S)
  BY DEF IsSequence
<1>. DEFINE T == S \cup {x}
<1>2. s \in Seq(T) /\ <<x>> \in Seq(T)
  BY <1>1
<1>3. <<x>> \o s \in Seq(T) /\ Len(<<x>> \o s) = Len(s) + 1
  BY <1>2
<1> QED
  BY <1>3 DEF IsSequence

LEMMA PopFront ==
    ASSUME NEW s, IsSequence(s), s # <<>>
    PROVE  IsSequence(Tail(s)) /\ Len(Tail(s)) = Len(s) - 1
<1>1. PICK S : s \in Seq(S)
  BY DEF IsSequence
<1>2. Tail(s) \in Seq(S) /\ Len(Tail(s)) = Len(s) - 1
  BY <1>1
<1> QED
  BY <1>2 DEF IsSequence

-----------------------------------------------------------------------------
(* Labels of GetToken. *)

LEMMA TargetsAmong ==
    ASSUME NEW moves, NEW ch, NEW S, \A m \in moves : m[2] \in S
    PROVE  Targets(moves, ch) \subseteq S
BY DEF Targets

LEMMA StartTargets ==
    ASSUME NEW ch PROVE Targets(Starts, ch) \subseteq SymbolLabels
<1>1. \A a, b, c, d, e :
        \A m \in {<<a, "sign">>, <<b, "zero">>, <<c, "dot">>, <<d, "digit">>, <<e, "string">>} :
            m[2] \in SymbolLabels
  BY DEF SymbolLabels, WholeLabels, FractionLabels
<1>2. \A m \in Starts : m[2] \in SymbolLabels
  BY ONLY <1>1 DEF Starts
<1> QED
  BY <1>2, TargetsAmong

LEMMA JumpTargets ==
    ASSUME NEW from \in SymbolLabels, NEW ch
    PROVE  Targets(Jumps(from), ch) \subseteq SymbolLabels
<1>1. CASE from = "string"
  <2>1. Jumps(from) = Words["string"]
    BY <1>1 DEF Jumps, Words
  <2>2. \A a : \A m \in {<<a, "string">>} : m[2] \in SymbolLabels
    BY DEF SymbolLabels
  <2>3. \A m \in Words["string"] : m[2] \in SymbolLabels
    BY <2>2 DEF Words
  <2> QED
    BY <2>1, <2>3, TargetsAmong
<1>2. CASE from \in WholeLabels
  <2>1. Jumps(from) = Whole[from]
    BY <1>2 DEF Jumps, Words, Whole, WholeLabels
  <2>2. \A m \in Whole[from] : m[2] \in SymbolLabels
    BY <1>2 DEF Whole, WholeLabels, FractionLabels, SymbolLabels
  <2> QED
    BY <2>1, <2>2, TargetsAmong
<1>3. CASE from \in FractionLabels
  <2>1. Jumps(from) = Fraction[from]
    BY <1>3 DEF Jumps, Words, Whole, FractionLabels
  <2>2. \A m \in Fraction[from] : m[2] \in SymbolLabels
    BY <1>3 DEF Fraction, FractionLabels, SymbolLabels
  <2> QED
    BY <2>1, <2>2, TargetsAmong
<1> QED
  BY <1>1, <1>2, <1>3 DEF SymbolLabels

LEMMA SymbolsAnswer ==
    ASSUME NEW from \in SymbolLabels
    PROVE  Ended(from) \in {"STRING", "INTEGER", "FLOAT", "ERROR"}
BY DEF Ended, SymbolLabels, WholeLabels, FractionLabels

-----------------------------------------------------------------------------

\* A step that leaves the stack alone and changes depth as much as it announces.
LEMMA QuietStep ==
    ASSUME StackInv, mode' = mode, status' = status, stack' = stack,
           depth \in Int => depth' = depth + Pending(token') - Pending(token)
    PROVE  StackInv'
<1>1. SUFFICES ASSUME mode = "ParseList", status = "running"
               PROVE  IsSequence(stack) /\ depth' \in Int /\ depth' = Len(stack) + Pending(token')
  BY DEF StackInv
<1>2. IsSequence(stack) /\ depth \in Int /\ depth = Len(stack) + Pending(token)
  BY <1>1 DEF StackInv
<1>3. Len(stack) \in Nat /\ Pending(token) \in Int /\ Pending(token') \in Int
  BY <1>2 DEF IsSequence, Pending
<1> QED
  BY <1>2, <1>3

LEMMA TokenStep ==
    ASSUME IInv, GetToken
    PROVE  IInv'
<1>. USE DEF IInv
<1>0. Pending("none") = 0 /\ Pending("END") = 0 /\ Pending("ERROR") = 0
      /\ Pending("STRING") = 0 /\ Pending("INTEGER") = 0 /\ Pending("FLOAT") = 0
      /\ Pending("OPEN") = 1 /\ Pending("CLOSE") = 0 - 1
  BY DEF Pending
<1>1. token = "none" /\ mode' = mode /\ status' = status /\ stack' = stack
  BY DEF GetToken, End, Skip, Comment, Bracket, Quote, Quoted, Begin, Unknown, Continue,
         Outside, lists, Scanning
<1>2. CASE Bracket
  <2>1. label' \in Labels
    BY <1>2 DEF Bracket, Answer, Labels
  <2>2. depth \in Int => depth' = depth + Pending(token') - Pending(token)
    BY <1>0, <1>1, <1>2 DEF Bracket, Answer
  <2> QED
    BY <1>0, <1>1, <2>1, <2>2, QuietStep
<1>3. CASE ~Bracket
  <2>1. depth' = depth
    BY <1>3 DEF GetToken, End, Skip, Comment, Quote, Quoted, Begin, Unknown, Continue
  <2>2. label' \in Labels /\ Pending(token') = 0
    <3>1. CASE End \/ Skip \/ Comment \/ Unknown
      BY <1>0, <1>1, <3>1 DEF End, Skip, Comment, Unknown, Answer, GoTo, Labels
    <3>2. CASE Quote
      BY <1>0, <1>1, <3>2 DEF Quote, GoTo, Labels
    <3>3. CASE Quoted
      BY <1>0, <1>1, <3>3 DEF Quoted, Answer, GoTo, Labels
    <3>4. CASE Begin
      BY <1>0, <1>1, <3>4, StartTargets DEF Begin, GoTo, Labels
    <3>5. CASE Continue
      <4>1. label \in SymbolLabels
        BY <3>5 DEF Continue, Labels
      <4>2. Pending(Ended(label)) = 0
        BY <1>0, <4>1, SymbolsAnswer
      <4>3. Targets(Jumps(label), Char) \subseteq SymbolLabels
        BY <4>1, JumpTargets
      <4>4. CASE token' = token
        BY <1>0, <1>1, <3>5, <4>3, <4>4 DEF Continue, GoTo, Answer, Labels
      <4>5. CASE token' # token
        BY <1>0, <1>1, <3>5, <4>2, <4>5 DEF Continue, GoTo, Answer, Labels
      <4> QED
        BY <4>4, <4>5
    <3> QED
      BY <1>3, <3>1, <3>2, <3>3, <3>4, <3>5 DEF GetToken
  <2> QED
    BY <1>0, <1>1, <2>1, <2>2, QuietStep
<1> QED
  BY <1>2, <1>3

LEMMA ParseStep ==
    ASSUME IInv, ParseList
    PROVE  IInv'
<1>. USE DEF IInv
<1>0. Pending("none") = 0 /\ Pending("OPEN") = 1 /\ Pending("CLOSE") = 0 - 1
      /\ \A t \in Atoms : Pending(t) = 0
  BY DEF Pending, Atoms
<1>1. /\ mode = "ParseList" /\ status = "running"
      /\ mode' = mode /\ label' = label /\ token' = "none"
  BY DEF ParseList, ParseAtom, ParseOpen, ParseClose, ParseEnd, Got, Inside, lexer
<1>2. IsSequence(stack) /\ depth \in Int /\ depth = Len(stack) + Pending(token)
  BY <1>1 DEF StackInv
<1>3. Len(stack) \in Nat
  BY <1>2 DEF IsSequence
<1>4. CASE ParseAtom
  BY <1>0, <1>1, <1>4, QuietStep DEF ParseAtom, Got
<1>5. CASE ParseOpen
  <2>1. IsSequence(stack') /\ Len(stack') = Len(stack) + 1
    BY <1>2, <1>5, PushFront DEF ParseOpen
  <2> QED
    BY <1>0, <1>1, <1>2, <1>3, <1>5, <2>1 DEF ParseOpen, Got, StackInv
<1>6. CASE ParseClose
  <2>1. CASE stack # <<>>
    <3>1. IsSequence(stack') /\ Len(stack') = Len(stack) - 1
      BY <1>2, <1>6, <2>1, PopFront DEF ParseClose
    <3> QED
      BY <1>0, <1>1, <1>2, <1>3, <1>6, <2>1, <3>1 DEF ParseClose, Got, StackInv
  <2>2. CASE stack = <<>>
    BY <1>1, <1>6, <2>2 DEF ParseClose, StackInv
  <2> QED
    BY <2>1, <2>2
<1>7. CASE ParseEnd
  BY <1>1, <1>7 DEF ParseEnd, StackInv
<1> QED
  BY <1>4, <1>5, <1>6, <1>7 DEF ParseList

-----------------------------------------------------------------------------

LEMMA Start == ParserInit => IInv
<1>1. IsSequence(<<>>) /\ Len(<<>>) = 0
  <2>1. <<>> \in Seq({})
    OBVIOUS
  <2> QED
    BY <2>1 DEF IsSequence
<1> QED
  BY <1>1 DEF ParserInit, IInv, StackInv, Labels, Pending

LEMMA Step == IInv /\ [ParserNext]_parserVars => IInv'
<1>. SUFFICES ASSUME IInv, [ParserNext]_parserVars PROVE IInv'
  OBVIOUS
<1>1. CASE GetToken
  BY <1>1, TokenStep
<1>2. CASE ParseList
  BY <1>2, ParseStep
<1>3. CASE Load \/ LoadRow
  BY <1>3 DEF IInv, StackInv, Load, LoadAtom, LoadOpen, LoadReturn, LoadError, LoadRow, Got,
              Inside, lexer, lists
<1>4. CASE UNCHANGED parserVars
  BY <1>4 DEF IInv, StackInv, parserVars, lexer, lists
<1> QED
  BY <1>1, <1>2, <1>3, <1>4 DEF ParserNext

\* The invariant, for every file and filter.
LEMMA Inductive == ParserSpec => []IInv
BY Start, Step, PTL DEF ParserSpec

\* The depth of GetToken is the number of lists on the stack of ParseList, in every file.
THEOREM DepthCountsStack == ParserSpec => []DepthIsStack
<1>1. IInv => DepthIsStack
  BY DEF IInv, StackInv, DepthIsStack, Pending
<1> QED
  BY <1>1, Inductive, PTL

\* ASSERT(stack.null()) of parser.cpp:425 holds whenever the end of a file is reached
\* with every bracket matched.
THEOREM AssertionHolds ==
    ParserSpec => [](Got("ParseList", {"END"}) /\ depth = 0 => stack = <<>>)
<1>1. IInv => (Got("ParseList", {"END"}) /\ depth = 0 => stack = <<>>)
  <2>. SUFFICES ASSUME IInv, Got("ParseList", {"END"}), depth = 0 PROVE stack = <<>>
    OBVIOUS
  <2>1. IsSequence(stack) /\ Len(stack) + Pending("END") = 0
    BY DEF IInv, StackInv, Got
  <2> QED
    BY <2>1 DEF IsSequence, Pending
<1> QED
  BY <1>1, Inductive, PTL

-----------------------------------------------------------------------------
(* db_object::load. *)

DbInv ==
    /\ rows \in Nat
    /\ status = "running" => rows = 0 /\ DOMAIN db = {}
    /\ \A i \in DOMAIN db : db[i] \in 1 .. rows
    /\ FirstRowStays

\* Until the list is complete there is nothing to disturb.
LEMMA ReadingStep ==
    ASSUME DbInv, status = "running", rows' = rows, db' = db
    PROVE  DbInv'
BY DEF DbInv, FirstRowStays

LEMMA RowStep ==
    ASSUME DbInv, LoadRow
    PROVE  DbInv'
<1>. DEFINE row == top[rows']
            index == Index(row)
<1>1. /\ rows \in Nat /\ rows' = rows + 1 /\ top' = top
      /\ status = "done" /\ status' = "done"
  BY DEF LoadRow, DbInv, lists
<1>2. \A i \in DOMAIN db : db[i] \in 1 .. rows
  BY DEF DbInv
<1>3. CASE ~Wanted(row)
  <2>1. db' = db
    BY <1>3 DEF LoadRow
  <2>2. FirstRowStays'
    BY <1>1, <1>3, <2>1 DEF DbInv, FirstRowStays
  <2> QED
    BY <1>1, <1>2, <2>1, <2>2 DEF DbInv
<1>4. CASE Wanted(row) /\ index \in DOMAIN db
  <2>1. db' = db
    BY <1>4 DEF LoadRow
  <2>2. FirstRowStays'
    BY <1>1, <1>2, <1>4, <2>1 DEF DbInv, FirstRowStays
  <2> QED
    BY <1>1, <1>2, <2>1, <2>2 DEF DbInv
<1>5. CASE Wanted(row) /\ index \notin DOMAIN db
  <2>1. db' = [i \in DOMAIN db \cup {index} |-> IF i = index THEN rows' ELSE db[i]]
    BY <1>5 DEF LoadRow
  <2>2. /\ DOMAIN db' = DOMAIN db \cup {index}
        /\ db'[index] = rows'
        /\ \A i \in DOMAIN db : db'[i] = db[i]
    BY <1>5, <2>1
  <2>3. \A r \in 1 .. rows : Wanted(top[r]) => Index(top[r]) # index
    BY <1>5 DEF DbInv, FirstRowStays
  <2>. HIDE DEF row, index
  <2>4. \A r \in 1 .. rows' : r = rows' \/ r \in 1 .. rows
    BY <1>1
  <2>5. row = top[rows'] /\ index = Index(row)
    BY DEF row, index
  <2>6. FirstRowStays'
    BY <1>1, <1>2, <1>5, <2>2, <2>3, <2>4, <2>5 DEF DbInv, FirstRowStays
  <2> QED
    BY <1>1, <1>2, <2>2, <2>6 DEF DbInv
<1> QED
  BY <1>3, <1>4, <1>5

LEMMA DbStart == ParserInit => DbInv
BY DEF ParserInit, DbInv, FirstRowStays

LEMMA DbStep == DbInv /\ [ParserNext]_parserVars => DbInv'
<1>. SUFFICES ASSUME DbInv, [ParserNext]_parserVars PROVE DbInv'
  OBVIOUS
<1>1. CASE GetToken
  BY <1>1, ReadingStep DEF GetToken, End, Skip, Comment, Bracket, Quote, Quoted, Begin, Unknown,
                           Continue, Scanning, Outside
<1>2. CASE Load \/ ParseList
  BY <1>2, ReadingStep DEF Load, LoadAtom, LoadOpen, LoadReturn, LoadError, ParseList, ParseAtom,
                           ParseOpen, ParseClose, ParseEnd, Got, Inside
<1>3. CASE LoadRow
  BY <1>3, RowStep
<1>4. CASE UNCHANGED parserVars
  BY <1>4 DEF parserVars, lists, DbInv, FirstRowStays
<1> QED
  BY <1>1, <1>2, <1>3, <1>4 DEF ParserNext

\* Find answers the first wanted row of an index and finds one for each, in every file
\* and with every filter.
THEOREM FirstRowFound == ParserSpec => []FirstRowStays
<1>1. DbInv => FirstRowStays
  BY DEF DbInv
<1> QED
  BY <1>1, DbStart, DbStep, PTL DEF ParserSpec

-----------------------------------------------------------------------------
(* Matching brackets.                                                       *)

LEMMA PushBack ==
    ASSUME NEW s, NEW x, IsSequence(s)
    PROVE  /\ IsSequence(Append(s, x))
           /\ Len(s) \in Nat /\ Len(Append(s, x)) = Len(s) + 1
           /\ \A i \in 1 .. Len(s) : Append(s, x)[i] = s[i]
           /\ Append(s, x)[Len(s) + 1] = x
           /\ Last(Append(s, x)) = x
<1>1. PICK S : s \in Seq(S)
  BY DEF IsSequence
<1>. DEFINE T == S \cup {x}
<1>2. s \in Seq(T) /\ x \in T
  BY <1>1
<1>3. Append(s, x) \in Seq(T) /\ Len(s) \in Nat /\ Len(Append(s, x)) = Len(s) + 1
  BY <1>2
<1>4. \A i \in 1 .. Len(s) : Append(s, x)[i] = s[i]
  BY <1>2
<1>5. Append(s, x)[Len(s) + 1] = x
  BY <1>2
<1> QED
  BY <1>3, <1>4, <1>5 DEF IsSequence, Last

Count(s, t, n) == Cardinality({i \in 1 .. n : s[i] = t})

\* One more token adds one to the number of those like it.
LEMMA CountNext ==
    ASSUME NEW s, NEW n \in Nat, NEW t
    PROVE  /\ Count(s, t, n) \in Nat
           /\ Count(s, t, n + 1) = Count(s, t, n) + (IF s[n + 1] = t THEN 1 ELSE 0)
<1>. DEFINE now == {i \in 1 .. n : s[i] = t}
            next == {i \in 1 .. n + 1 : s[i] = t}
<1>1. IsFiniteSet(now)
  <2>1. IsFiniteSet(1 .. n)
    BY FS_Interval
  <2> QED
    BY <2>1, FS_Subset
<1>2. Cardinality(now) \in Nat
  BY <1>1, FS_CardinalityType
<1>3. CASE s[n + 1] = t
  <2>1. next = now \cup {n + 1} /\ n + 1 \notin now
    BY <1>3
  <2> QED
    BY <1>1, <1>2, <1>3, <2>1, FS_AddElement DEF Count
<1>4. CASE s[n + 1] # t
  <2>1. next = now
    BY <1>4
  <2> QED
    BY <1>2, <1>4, <2>1 DEF Count
<1> QED
  BY <1>2, <1>3, <1>4 DEF Count

LEMMA BalanceNext ==
    ASSUME NEW s, NEW n \in Nat
    PROVE  /\ Balance(s, n) \in Int
           /\ Balance(s, n + 1) = Balance(s, n) + Pending(s[n + 1])
<1>1. \A t : /\ Count(s, t, n) \in Nat
             /\ Count(s, t, n + 1) = Count(s, t, n) + (IF s[n + 1] = t THEN 1 ELSE 0)
  BY CountNext
<1>2. \A k : Balance(s, k) = Count(s, "OPEN", k) - Count(s, "CLOSE", k)
  BY DEF Balance, Count
<1> QED
  BY <1>1, <1>2 DEF Pending

\* The balance of some tokens is that of the same tokens in a longer list.
LEMMA BalanceSame ==
    ASSUME NEW s, NEW r, NEW n \in Nat, \A i \in 1 .. n : r[i] = s[i]
    PROVE  Balance(r, n) = Balance(s, n)
<1>1. \A t : {i \in 1 .. n : r[i] = t} = {i \in 1 .. n : s[i] = t}
  OBVIOUS
<1> QED
  BY <1>1 DEF Balance

\* ParseList goes on only as long as no bracket was closed too often.  The last token
\* may be on its way.
BalanceInv ==
    /\ IsSequence(tokens)
    /\ token # "none" => Last(tokens) = token
    /\ mode = "ParseList" /\ status = "running" =>
          /\ depth = Balance(tokens, Len(tokens))
          /\ \A n \in 1 .. Len(tokens) : n < Len(tokens) => Balance(tokens, n) >= 0
    /\ UnmatchedFound

LEMMA AnswerStep ==
    ASSUME IInv, BalanceInv, token = "none", NEW t, t # "none", Answer(t),
           mode' = mode, status' = status, status = "running",
           depth \in Int => depth' = depth + Pending(t)
    PROVE  BalanceInv'
<1>1. /\ token' = t /\ tokens' = Append(tokens, t) /\ IsSequence(tokens)
  BY DEF Answer, BalanceInv
<1>2. /\ IsSequence(tokens') /\ Last(tokens') = t
      /\ Len(tokens) \in Nat /\ Len(tokens') = Len(tokens) + 1
      /\ \A i \in 1 .. Len(tokens) : tokens'[i] = tokens[i]
      /\ tokens'[Len(tokens) + 1] = t
  BY <1>1, PushBack
<1>3. \A n \in 0 .. Len(tokens) : Balance(tokens', n) = Balance(tokens, n)
  BY <1>2, BalanceSame
<1>4. CASE mode = "ParseList"
  <2>1. /\ IsSequence(stack) /\ depth \in Int
        /\ depth = Len(stack) + Pending("none")
        /\ depth = Balance(tokens, Len(tokens))
        /\ \A n \in 1 .. Len(tokens) : n < Len(tokens) => Balance(tokens, n) >= 0
    BY <1>4 DEF IInv, StackInv, BalanceInv
  <2>2. depth >= 0
    BY <2>1 DEF IsSequence, Pending
  <2>3. Balance(tokens', Len(tokens')) = Balance(tokens', Len(tokens)) + Pending(t)
    BY <1>2, BalanceNext
  <2>4. depth' = Balance(tokens', Len(tokens'))
    BY <1>2, <1>3, <2>1, <2>3
  <2>5. \A n \in 1 .. Len(tokens') : n < Len(tokens') => Balance(tokens', n) >= 0
    <3>. SUFFICES ASSUME NEW n \in 1 .. Len(tokens'), n < Len(tokens')
                  PROVE  Balance(tokens', n) >= 0
      OBVIOUS
    <3>1. n \in 1 .. Len(tokens) /\ (n < Len(tokens) \/ n = Len(tokens))
      BY <1>2
    <3> QED
      BY <1>2, <1>3, <2>1, <2>2, <3>1
  <2> QED
    BY <1>1, <1>2, <2>4, <2>5 DEF BalanceInv, UnmatchedFound
<1>5. CASE mode # "ParseList"
  BY <1>1, <1>2, <1>5 DEF BalanceInv, UnmatchedFound
<1> QED
  BY <1>4, <1>5

\* A step of GetToken answers something or leaves everything that counts alone.
LEMMA TokenBalance ==
    ASSUME IInv, BalanceInv, GetToken
    PROVE  BalanceInv'
<1>1. /\ token = "none" /\ status = "running"
      /\ mode' = mode /\ status' = status
  BY DEF GetToken, End, Skip, Comment, Bracket, Quote, Quoted, Begin, Unknown, Continue,
         Outside, Scanning
<1>2. CASE token' = token /\ tokens' = tokens /\ depth' = depth
  BY <1>1, <1>2 DEF BalanceInv, UnmatchedFound
<1>3. ASSUME NEW t \in {"END", "ERROR", "STRING", "INTEGER", "FLOAT"}, Answer(t), depth' = depth
      PROVE  BalanceInv'
  <2>1. Pending(t) = 0 /\ t # "none"
    BY DEF Pending
  <2> QED
    BY <1>1, <1>3, <2>1, AnswerStep
<1>4. CASE Bracket
  <2>1. Pending("OPEN") = 1 /\ Pending("CLOSE") = 0 - 1
    BY DEF Pending
  <2>2. CASE Char = "("
    <3>1. Answer("OPEN") /\ depth' = depth + 1
      BY <1>4, <2>2 DEF Bracket
    <3> QED
      BY <1>1, <2>1, <3>1, AnswerStep
  <2>3. CASE Char # "("
    <3>1. Answer("CLOSE") /\ depth' = depth - 1
      BY <1>4, <2>3 DEF Bracket
    <3> QED
      BY <1>1, <2>1, <3>1, AnswerStep
  <2> QED
    BY <2>2, <2>3
<1>5. CASE End \/ Unknown
  BY <1>3, <1>5 DEF End, Unknown
<1>6. CASE Skip \/ Quote \/ Begin
  BY <1>2, <1>6 DEF Skip, Quote, Begin, GoTo
<1>7. CASE Comment
  BY <1>2, <1>3, <1>7 DEF Comment, GoTo
<1>8. CASE Quoted
  BY <1>2, <1>3, <1>8 DEF Quoted, GoTo
<1>9. CASE Continue
  <2>1. label \in SymbolLabels
    BY <1>9 DEF Continue, IInv, Labels
  <2>2. Ended(label) \in {"STRING", "INTEGER", "FLOAT", "ERROR"}
    BY <2>1, SymbolsAnswer
  <2>3. depth' = depth
    BY <1>9 DEF Continue
  <2>4. \/ Answer(Ended(label)) \/ Answer("ERROR")
        \/ token' = token /\ tokens' = tokens
    BY <1>9 DEF Continue, GoTo
  <2> QED
    BY <1>2, <1>3, <2>2, <2>3, <2>4
<1> QED
  BY <1>4, <1>5, <1>6, <1>7, <1>8, <1>9 DEF GetToken

LEMMA ListBalance ==
    ASSUME IInv, BalanceInv, Load \/ ParseList
    PROVE  BalanceInv'
<1>1. /\ token' = "none" /\ tokens' = tokens /\ mode' = mode
      /\ status = "running" /\ token # "none" /\ Last(tokens) = token
      /\ IsSequence(tokens)
  BY DEF Load, LoadAtom, LoadOpen, LoadReturn, LoadError, ParseList, ParseAtom, ParseOpen,
         ParseClose, ParseEnd, Got, Inside, Atoms, BalanceInv
<1>2. CASE Load
  <2>1. mode = "Load"
    BY <1>2 DEF Load, LoadAtom, LoadOpen, LoadReturn, LoadError, Got
  <2> QED
    BY <1>1, <2>1 DEF BalanceInv, UnmatchedFound
<1>3. CASE ParseList
  <2>1. mode = "ParseList"
    BY <1>3 DEF ParseList, ParseAtom, ParseOpen, ParseClose, ParseEnd, Got
  <2>2. /\ IsSequence(stack) /\ depth \in Int /\ depth = Len(stack) + Pending(token)
        /\ depth = Balance(tokens, Len(tokens))
        /\ \A n \in 1 .. Len(tokens) : n < Len(tokens) => Balance(tokens, n) >= 0
    BY <1>1, <2>1 DEF IInv, StackInv, BalanceInv
  <2>3. CASE status' = "running" /\ depth' = depth
    BY <1>1, <2>1, <2>2, <2>3 DEF BalanceInv, UnmatchedFound
  <2>4. CASE ParseAtom \/ ParseOpen
    BY <1>1, <2>3, <2>4 DEF ParseAtom, ParseOpen
  <2>5. CASE ParseClose
    <3>1. CASE stack # <<>>
      BY <1>1, <2>3, <2>5, <3>1 DEF ParseClose
    <3>2. CASE stack = <<>>
      <4>1. depth = 0 - 1
        BY <2>2, <2>5, <3>2 DEF ParseClose, Got, Pending
      <4>2. status' = "error"
        BY <2>5, <3>2, <4>1 DEF ParseClose
      <4> QED
        BY <1>1, <2>2, <4>1, <4>2 DEF BalanceInv, UnmatchedFound
    <3> QED
      BY <3>1, <3>2
  <2>6. CASE ParseEnd
    <3>1. token \in {"END", "ERROR"} /\ Pending(token) = 0
      BY <2>6 DEF ParseEnd, Got, Pending
    <3>2. status' = IF token = "ERROR" \/ depth # 0 THEN "error" ELSE "done"
      BY <2>6 DEF ParseEnd
    <3>3. depth >= 0
      BY <2>2, <3>1 DEF IsSequence
    <3>4. \A n \in 1 .. Len(tokens) : Balance(tokens, n) >= 0
      <4>. SUFFICES ASSUME NEW n \in 1 .. Len(tokens) PROVE Balance(tokens, n) >= 0
        OBVIOUS
      <4>1. Len(tokens) \in Nat
        BY <1>1 DEF IsSequence
      <4>2. n < Len(tokens) \/ n = Len(tokens)
        BY <4>1
      <4> QED
        BY <2>2, <3>3, <4>2
    <3>5. \A n \in 1 .. Len(tokens) : Balance(tokens, n) \in Int /\ ~(Balance(tokens, n) < 0)
      <4>1. \A n \in 1 .. Len(tokens) : Balance(tokens, n) \in Int
        BY BalanceNext
      <4> QED
        BY <3>4, <4>1
    <3> QED
      BY <1>1, <2>1, <2>2, <3>1, <3>2, <3>5 DEF BalanceInv, UnmatchedFound
  <2> QED
    BY <1>3, <2>4, <2>5, <2>6 DEF ParseList
<1> QED
  BY <1>2, <1>3

LEMMA BalanceStart == ParserInit => BalanceInv
<1>. SUFFICES ASSUME ParserInit PROVE BalanceInv
  OBVIOUS
<1>1. IsSequence(<<>>) /\ Len(<<>>) = 0
  <2>1. <<>> \in Seq({})
    OBVIOUS
  <2> QED
    BY <2>1 DEF IsSequence
<1>2. Balance(<<>>, 0) = 0
  <2>1. \A t : {i \in 1 .. 0 : <<>>[i] = t} = {}
    OBVIOUS
  <2> QED
    BY <2>1, FS_EmptySet DEF Balance
<1> QED
  BY <1>1, <1>2 DEF ParserInit, BalanceInv, UnmatchedFound

LEMMA BalanceStep == IInv /\ BalanceInv /\ [ParserNext]_parserVars => BalanceInv'
<1>. SUFFICES ASSUME IInv, BalanceInv, [ParserNext]_parserVars PROVE BalanceInv'
  OBVIOUS
<1>1. CASE GetToken
  BY <1>1, TokenBalance
<1>2. CASE Load \/ ParseList
  BY <1>2, ListBalance
<1>3. CASE LoadRow
  BY <1>3 DEF LoadRow, lexer, lists, BalanceInv, UnmatchedFound
<1>4. CASE UNCHANGED parserVars
  BY <1>4 DEF parserVars, lexer, lists, BalanceInv, UnmatchedFound
<1> QED
  BY <1>1, <1>2, <1>3, <1>4 DEF ParserNext

\* ParseList refuses exactly the files with a wrong token or with brackets that do not
\* match.
THEOREM UnmatchedRefused == ParserSpec => []UnmatchedFound
<1>1. BalanceInv => UnmatchedFound
  BY DEF BalanceInv
<1> QED
  BY <1>1, Inductive, BalanceStart, BalanceStep, PTL DEF ParserSpec

=============================================================================

------------------------------ MODULE Packets ------------------------------
(***************************************************************************)
(* Packets of core/network and the streams that carry them: the buffer of  *)
(* bango::network::packet with its header that moves along as values are   *)
(* popped, the cutting of a stream into packets by server and by client,   *)
(* and the relay in between.                                               *)
(*                                                                         *)
(* A sender writes to a server.  Its handler relays what it gets, as User  *)
(* and DBListener do: it appends a value of its own (p << GetUID()) or     *)
(* pops one from the front, changes the type and writes the same packet    *)
(* on.  A client reads that stream and pops every value.                   *)
(***************************************************************************)
EXTENDS Integers, Sequences, SequencesExt

CONSTANTS Base,         \* values of a byte: 256
          Cap,          \* MAX_PACKET_LENGTH
          Types,        \* types a sender uses
          Format,       \* the kinds of values a packet of a type holds
          Relays,       \* what the handler of a type does: "append" or "pop"
          NewType,      \* the type it changes to
          Contents,     \* the lists of values a packet of a type may hold
          Uid,          \* the number that is appended, of kind "w"
          MaxMessages   \* bound: packets a sender writes

ASSUME BaseAssumption == Base \in Nat /\ Base >= 4
ASSUME CapAssumption == Cap \in Nat /\ Cap >= 3 /\ Cap < Base * Base

VARIABLES sent,     \* history: what the sender has written
          wire,     \* bytes on the way to the server
          kept,     \* m_remaining_buffer of its session
          work,     \* the buffer of server::on_new_message
          reading,  \* whether that handler is in its loop
          wire2,    \* bytes on the way to the client
          kept2,    \* client::remaining_buffer
          reading2, \* whether client::on_new_message is in its loop
          got,      \* what the client's handlers have popped
          guessed   \* history: the server has handled a packet of which one byte had
                    \* arrived, with a size made of it and of what lay behind it

vars == <<sent, wire, kept, work, reading, wire2, kept2, reading2, got, guessed>>

-----------------------------------------------------------------------------
(* The class packet. *)

Byte == 0 .. (Base - 1)
Positions == 0 .. (Cap - 1)
PacketType == [buf : [Positions -> Byte], header : 0 .. Cap, begin : 0 .. Cap, end : 0 .. Cap]

\* memcpy of bytes to position at.
Copied(buf, at, bytes) ==
    [i \in Positions |-> IF i \in at .. (at + Len(bytes) - 1) THEN bytes[i - at + 1] ELSE buf[i]]

Word(n) == <<n % Base, (n \div Base) % Base>>

\* packet::packet(type).
New(type) ==
    [buf |-> Copied([i \in Positions |-> 0], 0, <<3, 0, type>>),
     header |-> 0, begin |-> 3, end |-> 3]

\* packet::packet(vector).
FromBytes(bytes) ==
    [buf |-> Copied(New(0).buf, 0, bytes), header |-> 0, begin |-> 3, end |-> Len(bytes)]

\* A version of ResetSize that leaves m_header where it is.
ResetSizeThere(p) ==
    LET buf == Copied(p.buf, p.begin - 3, Word(p.end - p.begin + 3))
    IN  [p EXCEPT !.buf = Copied(buf, p.begin - 1, <<buf[p.header + 2]>>)]

\* reset_size: the header is written again, right before m_begin.  The type is
\* copied last, from an old place that the new size may have been written over.
ResetSize(p) ==
    LET buf == Copied(p.buf, p.begin - 3, Word(p.end - p.begin + 3))
    IN  [p EXCEPT !.buf = Copied(buf, p.begin - 1, <<buf[p.header + 2]>>),
                  !.header = p.begin - 3]

Size(p) == p.buf[p.header] + Base * p.buf[p.header + 1]
Type(p) == p.buf[p.header + 2]
ChangeType(p, type) == [p EXCEPT !.buf = Copied(@, p.header + 2, <<type>>)]

Segment(buf, from, to) == [i \in 1 .. (to - from) |-> buf[from + i - 1]]

\* packet::buffer, which writable::write sends, and what is left to pop.
Image(p) == Segment(p.buf, p.header, p.end)
Content(p) == Segment(p.buf, p.begin, p.end)

\* push of a value that takes these bytes: nothing happens when it does not fit.
\* push_str and merge leave the packet alone as well, but throw.
Push(p, bytes) ==
    IF p.end + Len(bytes) > Cap THEN p
    ELSE ResetSize([p EXCEPT !.buf = Copied(@, p.end, bytes), !.end = @ + Len(bytes)])

\* The bytes of the next value and the packet after it: pop answers T() and stays
\* where it is when there are too few.
Popped(p, n) ==
    IF p.end - p.begin < n THEN [i \in 1 .. n |-> 0]
    ELSE Segment(p.buf, p.begin, p.begin + n)

Pop(p, n) ==
    IF p.end - p.begin < n THEN p ELSE ResetSize([p EXCEPT !.begin = @ + n])

\* merge appends what is left of another packet, if it fits.
Merge(p, q) ==
    IF p.end + Len(Content(q)) > Cap THEN p
    ELSE ResetSize([p EXCEPT !.buf = Copied(@, p.end, Content(q)),
                             !.end = @ + Len(Content(q))])

-----------------------------------------------------------------------------
(* Values: "b" a byte, "w" a word of two, "s" a string with its final zero.  A *)
(* value is the list of its characters, that of a number has one.           *)

Encoded(kind, v) ==
    CASE kind = "b" -> v
      [] kind = "w" -> Word(v[1])
      [] kind = "s" -> v \o <<0>>

\* How many bytes the next value takes: pop_str looks for the zero.
Width(kind, p) ==
    CASE kind = "b" -> 1
      [] kind = "w" -> 2
      [] kind = "s" -> LET zero == CHOOSE i \in p.begin .. (Cap - 1) :
                                       /\ p.buf[i] = 0
                                       /\ \A j \in p.begin .. (i - 1) : p.buf[j] # 0
                       IN  zero - p.begin + 1

Decoded(kind, bytes) ==
    CASE kind = "b" -> bytes
      [] kind = "w" -> <<bytes[1] + Base * bytes[2]>>
      [] kind = "s" -> SubSeq(bytes, 1, Len(bytes) - 1)

\* All values of a packet, popped one after another: values and packets so far.
PopAll(p, kinds) ==
    LET step[i \in 0 .. Len(kinds)] ==
            IF i = 0 THEN [rest |-> p, values |-> <<>>]
            ELSE LET before == step[i - 1]
                     n == Width(kinds[i], before.rest)
                 IN  [rest |-> Pop(before.rest, n),
                      values |-> Append(before.values,
                                        Decoded(kinds[i], Popped(before.rest, n)))]
    IN  step[Len(kinds)].values

PushAll(p, kinds, values) ==
    LET step[i \in 0 .. Len(kinds)] ==
            IF i = 0 THEN p ELSE Push(step[i - 1], Encoded(kinds[i], values[i]))
    IN  step[Len(kinds)]

\* Lists are packed in a packet of their own, which is merged.
Packed(type, values) ==
    Merge(PushAll(New(type), <<Head(Format[type])>>, <<Head(values)>>),
          PushAll(New(0), Tail(Format[type]), Tail(values)))

\* What the client should get of a message.
NewFormat(type) == IF Relays[type] = "append" THEN Append(Format[type], "w")
                                              ELSE Tail(Format[type])
Relayed(m) == [type |-> NewType[m.type],
               values |-> IF Relays[m.type] = "append" THEN Append(m.values, <<Uid>>)
                                                       ELSE Tail(m.values)]

Source(type) == CHOOSE t \in Types : NewType[t] = type

\* How many bytes these values take.
Length(kinds, values) ==
    LET sum[i \in 0 .. Len(kinds)] ==
            IF i = 0 THEN 0 ELSE sum[i - 1] + Len(Encoded(kinds[i], values[i]))
    IN  sum[Len(kinds)]

Values(kind) ==
    CASE kind = "b" -> {<<n>> : n \in Byte}
      [] kind = "w" -> {<<n>> : n \in 0 .. (Base * Base - 1)}
      [] kind = "s" -> Seq(Byte \ {0})

ASSUME TypesAssumption ==
    /\ Types \subseteq Byte /\ NewType \in [Types -> Byte]
    /\ Relays \in [Types -> {"append", "pop"}] /\ Uid \in 0 .. (Base * Base - 1)
\* Every packet has a value, and the receiver of a type knows what is in it.
ASSUME FormatAssumption ==
    /\ Format \in [Types -> Seq({"b", "w", "s"}) \ {<<>>}]
    /\ \A t, u \in Types : NewType[t] = NewType[u] => NewFormat(t) = NewFormat(u)
\* A list of values is of the format of its type and fits, with what is appended to it.
ASSUME ContentsAssumption ==
    \A t \in Types : \A values \in Contents[t] :
        /\ values \in Seq(Seq(Nat)) /\ Len(values) = Len(Format[t])
        /\ \A i \in 1 .. Len(values) : values[i] \in Values(Format[t][i])
        /\ Length(Format[t], values) + (IF Relays[t] = "append" THEN 5 ELSE 3) <= Cap

-----------------------------------------------------------------------------
(* The streams. *)

Write(type, values) ==
    /\ Len(sent) < MaxMessages
    /\ sent' = Append(sent, [type |-> type, values |-> values])
    /\ wire' = wire \o Image(Packed(type, values))
    /\ UNCHANGED <<kept, work, reading, wire2, kept2, reading2, got, guessed>>

\* server::on_new_message with the next n bytes, put behind those kept.
Read(n) ==
    /\ ~reading /\ n <= Len(wire)
    /\ work' = kept \o SubSeq(wire, 1, n)
    /\ kept' = <<>>
    /\ wire' = SubSeq(wire, n + 1, Len(wire))
    /\ reading' = TRUE
    /\ UNCHANGED <<sent, wire2, kept2, reading2, got, guessed>>

\* The size in front of a buffer.  The second byte of a buffer of one is memory
\* behind its end; an empty one still has the header of the last packet in front.
SizesInFront ==
    IF work = <<>> THEN {}
    ELSE IF Len(work) = 1 THEN {work[1] + Base * b : b \in Byte}
    ELSE {work[1] + Base * work[2]}

\* server::execute: the handler relays the packet.  A size of 0 or 1 is believed when
\* one byte has arrived (server.h:109).
Execute(size) ==
    /\ reading /\ size \in SizesInFront /\ size <= Len(work)
    /\ LET p == FromBytes(SubSeq(work, 1, size))
           kinds == Format[Type(p)]
           q == IF Relays[Type(p)] = "append" THEN Push(p, Word(Uid))
                ELSE Pop(p, Width(Head(kinds), p))
       IN  wire2' = IF Type(p) \notin Types THEN wire2
                    ELSE wire2 \o Image(ChangeType(q, NewType[Type(p)]))
    /\ work' = SubSeq(work, size + 1, Len(work))
    /\ guessed' = (guessed \/ Len(work) = 1)
    /\ UNCHANGED <<sent, wire, kept, reading, kept2, reading2, got>>

\* The loop ends; what is left is kept, and the next read is asked for.
KeepRest ==
    /\ reading
    /\ work = <<>> \/ \E size \in SizesInFront : size > Len(work)
    /\ kept' = work
    /\ work' = <<>>
    /\ reading' = FALSE
    /\ UNCHANGED <<sent, wire, wire2, kept2, reading2, got, guessed>>

\* client::on_new_message asks for the next read at once, but the reads of one
\* socket follow each other.
ClientRead(n) ==
    /\ ~reading2 /\ n <= Len(wire2)
    /\ kept2' = kept2 \o SubSeq(wire2, 1, n)
    /\ wire2' = SubSeq(wire2, n + 1, Len(wire2))
    /\ reading2' = TRUE
    /\ UNCHANGED <<sent, wire, kept, work, reading, got, guessed>>

ClientSize == kept2[1] + Base * kept2[2]
\* A version of Enough that waits for one byte more.
EnoughAndMore == Len(kept2) >= 3 /\ ClientSize < Len(kept2)

Enough == Len(kept2) >= 3 /\ ClientSize <= Len(kept2)

\* client::execute: the handler pops every value.  Bytes behind a size that cannot
\* be one are thrown away.
ClientExecute ==
    /\ reading2 /\ Enough
    /\ LET p == FromBytes(SubSeq(kept2, 1, ClientSize))
       IN  got' = IF ClientSize < 3 \/ Type(p) \notin Range(NewType) THEN got
                  ELSE Append(got, [type |-> Type(p),
                                    values |-> PopAll(p, NewFormat(Source(Type(p))))])
    /\ kept2' = IF ClientSize < 3 THEN <<>> ELSE SubSeq(kept2, ClientSize + 1, Len(kept2))
    /\ reading2' = (kept2' # <<>>)
    /\ UNCHANGED <<sent, wire, kept, work, reading, wire2, guessed>>

ClientWaits ==
    /\ reading2 /\ ~Enough
    /\ reading2' = FALSE
    /\ UNCHANGED <<sent, wire, kept, work, reading, wire2, kept2, got, guessed>>

-----------------------------------------------------------------------------

Init ==
    /\ sent = <<>> /\ got = <<>>
    /\ wire = <<>> /\ wire2 = <<>>
    /\ kept = <<>> /\ kept2 = <<>>
    /\ work = <<>> /\ reading = FALSE
    /\ reading2 = FALSE
    /\ guessed = FALSE

Next ==
    \/ \E type \in Types : \E values \in Contents[type] : Write(type, values)
    \/ \E n \in 1 .. Len(wire) : Read(n)
    \/ \E size \in SizesInFront : Execute(size)
    \/ KeepRest
    \/ \E n \in 1 .. Len(wire2) : ClientRead(n)
    \/ ClientExecute
    \/ ClientWaits

Spec == Init /\ [][Next]_vars

-----------------------------------------------------------------------------
(* Properties. *)

\* The client's handlers pop what the sender wrote and the relay made of it, value for
\* value and in the order of the packets, however the two streams are cut into reads.
\* One thing breaks it: a size that the server has guessed.
InOrder == ~guessed => IsPrefix(got, [i \in 1 .. Len(sent) |-> Relayed(sent[i])])

\* Nothing waits for a packet that follows it: when every byte has arrived and both
\* loops have ended, every packet has been handled and no byte is kept.
NothingKeptBack ==
    ~guessed /\ wire = <<>> /\ wire2 = <<>> /\ ~reading /\ ~reading2 =>
        Len(got) = Len(sent) /\ kept = <<>> /\ kept2 = <<>>

\* Refuted.  packet.h:98: the size in front of a packet is that of the packet.  The
\* server takes none for one that has not arrived.
SizesAreRead == ~guessed

=============================================================================

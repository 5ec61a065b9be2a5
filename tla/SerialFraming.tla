---------------------------- MODULE SerialFraming ----------------------------
(***************************************************************************)
(* PumpSerialReader of pump_control_node.py: the bytes of the serial line  *)
(* come in chunks that end anywhere; text lines and binary packets are     *)
(* mixed in them, and bytes get lost.  A byte is a member of a small set:  *)
(* "H" the header's first byte, "A" and "B" packet types (A is the shorter *)
(* one), "a" and "b" a checksum that fits such a packet, "n" the end of a  *)
(* line, which is also the tail of a packet, and "t" anything else.        *)
(***************************************************************************)
EXTENDS Naturals, Sequences, SequencesExt, FiniteSetsExt

CONSTANTS
  Items,     \* what the board writes: packets, lines and damaged packets
  MaxItems   \* bound: items on the line

VARIABLES
  sent,    \* the items on the line
  line,    \* the bytes not yet read
  buffer,  \* binary_buffer
  text,    \* text_buffer
  got      \* the packets and lines that were handed on

vars == <<sent, line, buffer, text, got>>

Size(type) == IF type = "A" THEN 4 ELSE 6
Types == {"A", "B"}
ItemsAreBytes == Items \subseteq Seq({"H", "A", "B", "a", "b", "n", "t"})

Init ==
  /\ sent \in UNION {[1..k -> Items] : k \in 1..MaxItems}
  /\ line = FlattenSeq(sent) /\ buffer = <<>> /\ text = <<>> /\ got = <<>>

-----------------------------------------------------------------------------
(* _find_header, _validate_packet.                                         *)

HeadersIn(b) == {i \in 1..(Len(b) - 1) : b[i] = "H" /\ b[i + 1] \in Types}
Valid(packet) == packet[1] = "H" /\ packet[2] \in Types /\ IsSuffix(<<IF packet[2] = "A" THEN "a" ELSE "b", "n">>, packet)

(* _process_text: complete lines are handed on, the rest is kept.          *)
LinesIn(t) ==
  LET Ends == {i \in DOMAIN t : t[i] = "n"}
      Start(e) == IF \E d \in Ends : d < e THEN Max({d \in Ends : d < e}) + 1 ELSE 1
      InOrder == SetToSortSeq(Ends, <)
  IN SelectSeq([k \in DOMAIN InOrder |-> SubSeq(t, Start(InOrder[k]), InOrder[k] - 1)], LAMBDA l : l # <<>>)
RestOf(t) ==
  LET Ends == {i \in DOMAIN t : t[i] = "n"} IN IF Ends = {} THEN t ELSE SubSeq(t, Max(Ends) + 1, Len(t))

TakeText(bytes) ==
  /\ got' = got \o [k \in DOMAIN LinesIn(text \o bytes) |-> [kind |-> "line", body |-> LinesIn(text \o bytes)[k]]]
  /\ text' = RestOf(text \o bytes)

Drop(b, n) == SubSeq(b, n + 1, Len(b))

-----------------------------------------------------------------------------
(* _process_data, a pass of its loop at a time; a chunk is read when the   *)
(* loop has stopped.  (A bug to look for: a header's first byte at the end *)
(* of a chunk is taken for text.)                                          *)
KeepNothing == 0
Keep == IF buffer # <<>> /\ buffer[Len(buffer)] = "H" THEN 1 ELSE 0

NoHeader ==
  /\ buffer # <<>> /\ HeadersIn(buffer) = {} /\ Len(buffer) > Keep
  /\ TakeText(SubSeq(buffer, 1, Len(buffer) - Keep)) /\ buffer' = Drop(buffer, Len(buffer) - Keep)
  /\ UNCHANGED <<sent, line>>

TextFirst ==
  /\ HeadersIn(buffer) # {} /\ Min(HeadersIn(buffer)) > 1
  /\ LET pos == Min(HeadersIn(buffer)) IN TakeText(SubSeq(buffer, 1, pos - 1)) /\ buffer' = Drop(buffer, pos - 1)
  /\ UNCHANGED <<sent, line>>

AtHeader == HeadersIn(buffer) # {} /\ Min(HeadersIn(buffer)) = 1 /\ Len(buffer) >= Size(buffer[2])
Packet ==
  /\ AtHeader
  /\ LET packet == SubSeq(buffer, 1, Size(buffer[2]))
     IN IF Valid(packet)
        THEN got' = Append(got, [kind |-> "packet", body |-> packet]) /\ buffer' = Drop(buffer, Len(packet))
        ELSE UNCHANGED got /\ buffer' = Drop(buffer, 1)
  /\ UNCHANGED <<sent, line, text>>

Waits == buffer = <<>> \/ (HeadersIn(buffer) = {} /\ Len(buffer) = Keep)
         \/ (HeadersIn(buffer) # {} /\ Min(HeadersIn(buffer)) = 1 /\ ~AtHeader)

Read ==
  /\ Waits /\ line # <<>>
  /\ \E n \in 1..Len(line) : buffer' = buffer \o SubSeq(line, 1, n) /\ line' = Drop(line, n)
  /\ UNCHANGED <<sent, text, got>>

Next == NoHeader \/ TextFirst \/ Packet \/ Read
Spec == Init /\ [][Next]_vars

-----------------------------------------------------------------------------
(* However the bytes are cut into chunks and whatever is damaged on the    *)
(* line: once all is read, each packet that was written whole has been     *)
(* handed on, once and in its order, and no other; what ends a line has    *)
(* ended one.  The bytes that are still awaited may hold the last items.   *)
Whole(items) == SelectSeq(items, LAMBDA b : Len(b) > 1 /\ b[1] = "H" /\ b[2] \in Types /\ Len(b) = Size(b[2]) /\ Valid(b))
GotPackets == SelectSeq(got, LAMBDA g : g.kind = "packet")
Bodies == [k \in DOMAIN GotPackets |-> GotPackets[k].body]
PacketsArrive ==
  /\ IsPrefix(Bodies, Whole(sent))
  /\ Waits /\ line = <<>> /\ Len(buffer) < 2 => Bodies = Whole(sent)
=============================================================================

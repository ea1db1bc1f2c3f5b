------------------------------ MODULE Transmit ------------------------------
(***************************************************************************)
(* The peer wire protocol: the packed structs of torrent/messages.hpp and  *)
(* the coroutines of client/transmit/transmit.cpp that write and read them.*)
(* One direction of a connection: a writer, the bytes on their way, and a  *)
(* reader that asks the socket for an exact number of bytes at a time.     *)
(* Messages come from send_message or, from clients of another make, as    *)
(* frames with any body.                                                   *)
(***************************************************************************)
EXTENDS Integers, Sequences

CONSTANTS
  Messages,    \* what send_message is given: [type, fields, payload]
  Frames,      \* the bodies other clients put in a frame, <<>> is a keepalive
  Handshakes,  \* [infohash, peer_id], each one byte repeated
  FreedBytes,  \* what freed memory may hold
  MaxSent      \* bound: messages after the handshake

(* std::variant<Keepalive, Choke, ...>: the order decides index(). *)
TorrentMessage ==
  <<"Keepalive", "Choke", "Unchoke", "Interested", "NotInterested", "Have",
    "BitField", "Request", "Piece", "Cancel", "Port">>

ID ==
  [Keepalive |-> 255, Choke |-> 0, Unchoke |-> 1, Interested |-> 2, NotInterested |-> 3,
   Have |-> 4, BitField |-> 5, Request |-> 6, Piece |-> 7, Cancel |-> 8, Port |-> 9]

(* The length every struct is initialised with, and the widths of the      *)
(* big-endian fields that follow length and id.                            *)
Layout ==
  LET bare  == [length |-> 1, widths |-> <<>>]
      block == [length |-> 13, widths |-> <<4, 4, 4>>]
  IN  [Choke |-> bare, Unchoke |-> bare, Interested |-> bare, NotInterested |-> bare,
       BitField |-> bare, Request |-> block, Cancel |-> block,
       Have |-> [length |-> 5, widths |-> <<4>>],
       Piece |-> [length |-> 9, widths |-> <<4, 4>>],
       Port |-> [length |-> 3, widths |-> <<2>>]]

Dynamic == {"BitField", "Piece"}

(* BigEndian<T>: the bytes of an integer on the wire, and its value. *)
NativeEndian(width, value) == [k \in 1..width |-> (value \div 256^(k - 1)) % 256]
BigEndian(width, value) == [k \in 1..width |-> (value \div 256^(width - k)) % 256]

FromBigEndian(bytes) ==
  LET upto[k \in 0..Len(bytes)] ==
        IF k = 0 THEN 0 ELSE 256 * upto[k - 1] + bytes[k]
  IN  upto[Len(bytes)]

(* Where field k starts in the struct, after its length and id. *)
Offset(type, k) ==
  LET at[j \in 1..k] == IF j = 1 THEN 5 ELSE at[j - 1] + Layout[type].widths[j - 1]
  IN  at[k]

sizeof(type) == Offset(type, Len(Layout[type].widths) + 1)

FieldBytes(m) ==
  LET ws == Layout[m.type].widths
      upto[k \in 0..Len(ws)] ==
        IF k = 0 THEN <<>> ELSE upto[k - 1] \o BigEndian(ws[k], m.fields[k])
  IN  upto[Len(ws)]

(* MessageMetadata<Length, Id>, with add_length for a dynamic payload. *)
metadataShort(type, payload) ==
  BigEndian(4, Layout[type].length) \o <<ID[type]>>
metadataWhole(type, payload) ==
  BigEndian(4, sizeof(type) + Len(payload)) \o <<ID[type]>>
metadata(type, payload) ==
  BigEndian(4, Layout[type].length + Len(payload)) \o <<ID[type]>>

index(m) == (CHOOSE k \in DOMAIN TorrentMessage : TorrentMessage[k] = m.type) - 1

(* send_message: switch (message.index() - 1). A Keepalive has index 0, so *)
(* it selects no case (0 - 1 is the largest size_t, not ID_KEEPALIVE) and  *)
(* nothing is written. The payload of a dynamic message is read by         *)
(* async_write from a temporary vector that is gone by then.               *)
Selected(m) == {t \in DOMAIN ID : ID[t] = index(m) - 1}

Payloads(m) ==
  IF m.type \in Dynamic
  THEN {m.payload} \cup [1..Len(m.payload) -> FreedBytes] ELSE {<<>>}

(* reinterpret_safely and parse_message: data starts with the length that  *)
(* read_message stored there in the byte order of the host. Longer bodies  *)
(* than the struct are taken, shorter ones are not; a body has an id, so   *)
(* the types that are not checked are never short.                         *)
Short(type, data) == sizeof(type) > Len(data)

parse_message(data) ==
  LET types == {t \in DOMAIN Layout : ID[t] = data[5]}
      type  == CHOOSE t \in types : TRUE
  IN  IF types = {} THEN [error |-> "UnknownId"]
      ELSE IF Short(type, data) THEN [error |-> "LengthMismatch"]
      ELSE [type |-> type,
            fields |-> [k \in DOMAIN Layout[type].widths |->
              FromBigEndian(SubSeq(data, Offset(type, k) + 1, Offset(type, k + 1)))],
            payload |-> IF type \in Dynamic
                        THEN SubSeq(data, sizeof(type) + 1, Len(data)) ELSE <<>>]

(* struct Handshake: plen, pname, reserved, infohash, peer_id. *)
Handshake == <<1, 19, 8, 20, 20>>

HandshakeBytes(h) ==
  <<19>> \o [k \in 1..19 |-> 66] \o [k \in 1..8 |-> 0]
    \o [k \in 1..20 |-> h.infohash] \o [k \in 1..20 |-> h.peer_id]

HandshakeOffset(k) ==
  LET at[j \in 1..k] == IF j = 1 THEN 0 ELSE at[j - 1] + Handshake[j - 1] IN at[k]

sizeof_Handshake == HandshakeOffset(6)

Byte == 0..255

Foreign == [type |-> "foreign"]

(* Messages are as their structs can hold them, and neither a message nor  *)
(* a foreign frame is longer than its length field can say, 2^32 - 1.      *)
ASSUME MessagesAssumption ==
  \A m \in Messages :
    /\ m \in [type : DOMAIN ID, fields : Seq(Nat), payload : Seq(Byte)]
    /\ m.type \in DOMAIN Layout =>
         /\ DOMAIN m.fields = DOMAIN Layout[m.type].widths
         /\ \A k \in DOMAIN m.fields :
              m.fields[k] \div 256^(Layout[m.type].widths[k] - 1) < 256
         /\ (Layout[m.type].length + Len(m.payload)) \div 256^3 < 256
    /\ m.type \notin Dynamic => m.payload = <<>>

ASSUME FramesAssumption ==
  \A body \in Frames : body \in Seq(Byte) /\ Len(body) \div 256^3 < 256

ASSUME BytesAssumption ==
  FreedBytes \subseteq Byte /\ Handshakes \subseteq [infohash : Byte, peer_id : Byte]

-----------------------------------------------------------------------------
VARIABLES
  wire,      \* bytes written, not yet arrived
  arrived,   \* bytes the reader's socket holds
  reader,    \* where the reader is: what it reads and how many bytes it asks for
  open,      \* the connection
  sent,      \* history: what was written
  received   \* history: what read_handshake and read_message returned

vars == <<wire, arrived, reader, open, sent, received>>

Init ==
  /\ wire = <<>>
  /\ arrived = <<>>
  /\ reader = [pc |-> "handshake", asks |-> sizeof_Handshake]
  /\ open = TRUE
  /\ sent = <<>>
  /\ received = <<>>

Write(bytes, what) ==
  /\ open
  /\ wire' = wire \o bytes
  /\ sent' = Append(sent, what)
  /\ UNCHANGED <<arrived, reader, open, received>>

send_handshake ==
  /\ sent = <<>>
  /\ \E h \in Handshakes : Write(HandshakeBytes(h), h)

MaySend == Len(sent) \in 1..MaxSent

send_message(m) ==
  /\ MaySend
  /\ m.type \in Selected(m)
  /\ \E payload \in Payloads(m) :
       Write(metadata(m.type, payload) \o FieldBytes(m) \o payload, m)

SendForeign(body) == MaySend /\ Write(BigEndian(4, Len(body)) \o body, Foreign)

(* TCP: the bytes arrive in order, some before the reader looks and some   *)
(* after, until the connection is lost.                                    *)
Deliver ==
  /\ wire # <<>>
  /\ arrived' = Append(arrived, Head(wire))
  /\ wire' = Tail(wire)
  /\ UNCHANGED <<reader, open, sent, received>>

Lose ==
  /\ open
  /\ open' = FALSE
  /\ wire' = <<>>
  /\ UNCHANGED <<arrived, reader, sent, received>>

(* async_read completes when the bytes it asked for are there. *)
Completes(pc) == reader.pc = pc /\ Len(arrived) >= reader.asks

Take == SubSeq(arrived, 1, reader.asks)

Ask(pc, n) ==
  /\ arrived' = SubSeq(arrived, reader.asks + 1, Len(arrived))
  /\ reader' = [pc |-> pc, asks |-> n]
  /\ UNCHANGED <<wire, open, sent>>

read_handshake ==
  /\ Completes("handshake")
  /\ Ask("length", 4)
  /\ received' = Append(received, [infohash |-> Take[HandshakeOffset(4) + 1],
                                   peer_id |-> Take[HandshakeOffset(5) + 1]])

read_message ==
  /\ Completes("length")
  /\ LET message_length == FromBigEndian(Take)
     IN  IF message_length = 0
         THEN /\ received' = Append(received, [type |-> "Keepalive"])
              /\ Ask("length", 4)
         ELSE /\ Ask("body", message_length)
              /\ UNCHANGED received

ReadBody ==
  /\ Completes("body")
  /\ Ask("length", 4)
  /\ received' = Append(received, parse_message(NativeEndian(4, reader.asks) \o Take))

(* async_read throws: the connection ended before the bytes came. *)
ReadFails ==
  /\ ~open
  /\ wire = <<>>
  /\ reader.pc # "failed"
  /\ Len(arrived) < reader.asks
  /\ reader' = [pc |-> "failed", asks |-> 0]
  /\ UNCHANGED <<wire, arrived, open, sent, received>>

Next ==
  \/ send_handshake
  \/ \E m \in Messages : send_message(m)
  \/ \E body \in Frames : SendForeign(body)
  \/ Deliver \/ Lose
  \/ read_handshake \/ read_message \/ ReadBody \/ ReadFails

(* TCP delivers while the connection lasts, and the reader's coroutine is  *)
(* resumed when its bytes are there.                                       *)
Spec ==
  /\ Init /\ [][Next]_vars
  /\ WF_vars(Deliver)
  /\ WF_vars(read_handshake \/ read_message \/ ReadBody \/ ReadFails)

-----------------------------------------------------------------------------
(* A dynamic message reaches the other side with its fields and the length *)
(* of its payload, the bytes of which are anybody's guess; a frame of      *)
(* another client is one result, a message or an error.                    *)
Shape(m) ==
  IF "type" \in DOMAIN m /\ m.type \in Dynamic
  THEN [m EXCEPT !.payload = Len(m.payload)] ELSE m

Stream == INSTANCE MessageStream WITH
  Messages <- {Shape(m) : m \in Messages} \cup {Foreign} \cup Handshakes,
  sent <- [k \in DOMAIN sent |-> Shape(sent[k])],
  received <- [k \in DOMAIN received |->
                 IF sent[k] = Foreign THEN Foreign ELSE Shape(received[k])]

(* Whatever sizes the bytes arrive in, and whatever frames other clients   *)
(* mix in (short ones, long ones, unknown ids), every message written is   *)
(* read back as it was, once and in order: an error never costs the reader *)
(* its place in the stream, and a broken connection only cuts off the end. *)
ImplementsMessageStream == Stream!Spec

(* The reader comes to an end of all that was sent, or to an exception,    *)
(* never to a wait on a broken or idle connection with a message unread.   *)
ReadsToTheEnd ==
  []<>(reader.pc = "failed" \/ Len(received) = Len(sent))

=============================================================================

----------------------------- MODULE WsProtocol -----------------------------
(***************************************************************************)
(* The WebSocket handshake and framing (WsHandshake.h, WsFrame.h) with the *)
(* part of receiveBatch() that cuts frames out of the read buffer          *)
(* (WebSocket.cpp).  Headers are sequences of bytes, a payload is its      *)
(* length: lengths take their real values around every encoding boundary,  *)
(* and the bytes arrive split at every place of a header.                  *)
(***************************************************************************)
EXTENDS Integers, Sequences, FiniteSets, SequencesExt

CONSTANTS
    Lengths,       \* payload lengths of frames
    MaxMessage,    \* maxMessageSize_
    MaxFrames,
    Offers,        \* the extensions a client may offer
    WindowBits     \* serverMaxWindowBits of the configuration

VARIABLE j

None == -1
Text == 1
CloseOp == 8

-----------------------------------------------------------------------------
(* Handshake.  An offer is an extension with the window its parameter asks  *)
(* of the server: None without one, 0 for a value that is no number.        *)

NoDeflate == [accepted |-> FALSE, bits |-> 15]

NegotiateDeflate(offers, enabled) ==
    LET i == SelectInSeq(offers, LAMBDA o : o.name = "permessage-deflate")
        bits == offers[i].bits
    IN IF ~enabled \/ i = 0 THEN NoDeflate
       ELSE [accepted |-> TRUE, bits |-> IF bits \in 8..15 /\ bits < WindowBits THEN bits ELSE WindowBits]

\* validateWsUpgrade(): version 13 and a key of 24 characters.
ValidateWsUpgrade(version, key) == version = 13 /\ key = 24

-----------------------------------------------------------------------------
(* Frames.                                                                  *)

Bit(b, n) == (b \div n) % 2 = 1
BytesOf(n, width) == [i \in 1..width |-> IF width - i > 3 THEN 0 ELSE (n \div 256 ^ (width - i)) % 256]

\* encodeFrame(), buildWsFrame() and buildMaskedWsFrame(): the header of a frame.  The
\* four bytes of the mask key are zeros here.
LengthBytes(len) ==
    IF len <= 125 THEN <<len>> ELSE IF len <= 65535 THEN <<126>> \o BytesOf(len, 2) ELSE <<127>> \o BytesOf(len, 8)

BuildHeader(f) ==
    LET lb == LengthBytes(f.len)
    IN <<(IF f.fin THEN 128 ELSE 0) + (IF f.rsv1 THEN 64 ELSE 0) + f.op,
         lb[1] + (IF f.masked THEN 128 ELSE 0)>> \o Tail(lb) \o (IF f.masked THEN BytesOf(0, 4) ELSE <<>>)

\* buildClosePayload(): the reason is cut to 123 bytes.
ClosePayload(reason) == 2 + IF reason > 123 THEN 123 ELSE reason

RECURSIVE Number(_)
Number(bytes) == IF bytes = <<>> THEN 0 ELSE Number(Front(bytes)) * 256 + Last(bytes)

NotYet == [headerSize |-> 0]

\* parseWsFrameHeader() on the bytes there are.
ExtendedLength(b, ext) == Number(SubSeq(b, 3, 2 + ext))

ParseWsFrameHeader(b) ==
    LET raw == b[2] % 128
        ext == IF raw = 126 THEN 2 ELSE IF raw = 127 THEN 8 ELSE 0
        size == 2 + ext + IF Bit(b[2], 128) THEN 4 ELSE 0
    IN IF Len(b) < 2 \/ Len(b) < size THEN NotYet
       ELSE [headerSize |-> size, fin |-> Bit(b[1], 128), rsv1 |-> Bit(b[1], 64), op |-> b[1] % 16,
             masked |-> Bit(b[2], 128), len |-> IF ext = 0 THEN raw ELSE ExtendedLength(b, ext)]

-----------------------------------------------------------------------------
(* The client's stream of frames, of which the buffer holds the next        *)
(* "avail" bytes: a payload byte is never looked at.                        *)

SizeOf(f) == Len(BuildHeader(f)) + f.len
RECURSIVE Total(_)
Total(fs) == IF fs = <<>> THEN 0 ELSE SizeOf(Head(fs)) + Total(Tail(fs))

\* The first bytes of the buffer.
Buffered(s) ==
    IF s.in = <<>> THEN <<>>
    ELSE LET h == BuildHeader(Head(s.in)) IN SubSeq(h, 1, IF s.avail < Len(h) THEN s.avail ELSE Len(h))

FrameOf(hdr) == [fin |-> hdr.fin, rsv1 |-> hdr.rsv1, op |-> hdr.op, masked |-> hdr.masked, len |-> hdr.len]

\* The checks of receiveBatch().
Refused(s, hdr) ==
    \/ hdr.rsv1 /\ ~s.inflates
    \/ ~hdr.masked
    \/ hdr.op >= 8 /\ hdr.len > 125
    \/ hdr.len > MaxMessage

\* receiveBatch(): every whole frame of the buffer, then the beginning of the next one stays.
RECURSIVE ReceiveBatch(_)
ReceiveBatch(s) ==
    LET hdr == ParseWsFrameHeader(Buffered(s))
        size == hdr.headerSize + hdr.len
    IN IF hdr = NotYet THEN s
       ELSE IF Refused(s, hdr) THEN [s EXCEPT !.open = FALSE]
       ELSE IF s.avail < size THEN s
       ELSE LET t == [s EXCEPT !.out = Append(@, FrameOf(hdr)), !.in = Tail(@), !.avail = @ - size,
                               !.open = hdr.op # CloseOp]
            IN IF t.open THEN ReceiveBatch(t) ELSE t

-----------------------------------------------------------------------------
Init ==
    j = [phase |-> "handshake", offers |-> <<>>, deflate |-> NoDeflate, inflates |-> FALSE,
         sent |-> <<>>, in |-> <<>>, avail |-> 0, out |-> <<>>, open |-> TRUE, reason |-> 0]

Handshake ==
    /\ j.phase = "handshake"
    /\ \E offers \in SeqOf(Offers, 2), enabled \in BOOLEAN, version \in {8, 13}, key \in {0, 24} :
          IF ValidateWsUpgrade(version, key)
          THEN j' = [j EXCEPT !.phase = "agreed", !.offers = offers, !.deflate = NegotiateDeflate(offers, enabled)]
          ELSE j' = [j EXCEPT !.phase = "refused", !.open = FALSE]

\* buildWsAcceptResponse(): the answer is sent, and the session knows whether to inflate.
Accept ==
    /\ j.phase = "agreed"
    /\ j' = [j EXCEPT !.phase = "open", !.offers = <<>>, !.deflate = NoDeflate, !.inflates = j.deflate.accepted]

\* The client sends a frame.
Send ==
    /\ j.phase = "open" /\ j.open /\ Len(j.sent) < MaxFrames
    /\ \E f \in [fin : BOOLEAN, rsv1 : BOOLEAN, op : {Text, CloseOp}, masked : BOOLEAN, len : Lengths] :
          /\ f.op = CloseOp => f.fin /\ ~f.rsv1
          /\ j' = [j EXCEPT !.sent = Append(@, f), !.in = Append(@, f)]

\* Some of the bytes arrive: any part of the header that is next, all but the last byte of
\* its payload, or everything.
Arrive ==
    /\ j.phase = "open" /\ j.open /\ j.in # <<>>
    /\ LET h == Len(BuildHeader(Head(j.in)))
           cuts == 1..(h + 1) \cup {SizeOf(Head(j.in)) + d : d \in {-1, 0, 1}} \cup {Total(j.in)}
       IN \E n \in {m \in cuts : m > j.avail /\ m <= Total(j.in)} :
             j' = ReceiveBatch([j EXCEPT !.avail = n])

\* The server closes with a reason.
Close ==
    /\ j.phase = "open" /\ j.open
    /\ \E reason \in {0, 123, 124} : j' = [j EXCEPT !.open = FALSE, !.reason = ClosePayload(reason)]

Next == Handshake \/ Accept \/ Send \/ Arrive \/ Close

-----------------------------------------------------------------------------
TypeOK == j.avail \in Nat /\ Len(j.out) <= MaxFrames /\ Len(j.in) <= Len(j.sent) /\ j.reason <= 125

\* Frames come out as they were sent, in order and with the bytes of none in another,
\* however the stream was cut.
FramesIntact == IsPrefix(j.out, j.sent) /\ j.out \o j.in = j.sent

\* Nothing that has arrived waits: while the connection is open the buffer holds less than
\* a frame, and it is closed only by a close frame or by a frame that has to be refused.
NothingWaits ==
    j.phase = "open" /\ j.reason = 0 =>
        IF j.open THEN j.in # <<>> => j.avail < SizeOf(Head(j.in))
        ELSE \/ j.out # <<>> /\ Last(j.out).op = CloseOp
             \/ Refused(j, Head(j.in))

\* Compression is agreed on only when it was offered, with a window neither side objects to.
WindowAgreed ==
    j.deflate.accepted =>
        \E o \in Range(j.offers) :
            /\ o.name = "permessage-deflate" /\ j.deflate.bits <= WindowBits
            /\ o.bits \in 8..15 => j.deflate.bits <= o.bits
=============================================================================

----------------------------- MODULE HttpCodec -----------------------------
(***************************************************************************)
(* The frame codec of the http protocol variant                           *)
(* (src/sprotocol/http/message.go): a 13-byte fixed head starting with    *)
(* the magic "#@", then the extended data of a normal or request message  *)
(* or the status byte of a response, then the body.  Decode has no error: *)
(* it skips bytes until it finds the magic, and drops the magic of a      *)
(* frame whose type it does not know.                                     *)
(***************************************************************************)
EXTENDS Integers, Sequences

PROTO_VERSION == 100
FIX_HEAD_LENGTH == 13

MT_NORMAL == 0
MT_REQUEST == 1
MT_RESPONSE == 2
MT_PING == 3
MT_PONG == 4

\* The magic word '#', '@'.
M1 == 35
M2 == 64

Byte == 0..255

\* The fields of Message that travel on the wire; bodyLen and exLen are
\* the lengths SetBody and SetExData keep equal to those of body and exData.
Message == [type : Byte, flag : Byte, reqID : Nat, status : Byte,
            exData : Seq(Byte), body : Seq(Byte)]

(* put16bit/put32bit: n as w big-endian bytes. *)
RECURSIVE PutBE(_, _)
PutBE(n, w) == IF w = 0 THEN <<>> ELSE PutBE(n \div 256, w - 1) \o <<n % 256>>

(* get16bit/get32bit: the w bytes at Go offset start, big-endian. *)
RECURSIVE GetBE(_, _, _)
GetBE(buf, start, w) ==
    IF w = 0 THEN 0 ELSE GetBE(buf, start, w - 1) * 256 + buf[start + w]

HasExData(type) == type \in {MT_NORMAL, MT_REQUEST}

Encode(msg) ==
    LET head == <<M1, M2, PROTO_VERSION, msg.type, msg.flag>>
                \o PutBE(msg.reqID, 4) \o PutBE(Len(msg.body), 4)
        ext  == CASE HasExData(msg.type)     -> PutBE(Len(msg.exData), 2) \o msg.exData
                  [] msg.type = MT_RESPONSE -> <<msg.status>>
                  [] OTHER                  -> <<>>
    IN IF msg.type \notin {MT_NORMAL, MT_REQUEST, MT_RESPONSE, MT_PING, MT_PONG}
       THEN <<>>
       ELSE head \o ext \o msg.body

\* What of a message Encode puts on the wire: extended data only for a
\* normal or request message, a status only for a response.
Carried(msg) ==
    [msg EXCEPT !.exData = IF HasExData(msg.type) THEN @ ELSE <<>>,
                !.status = IF msg.type = MT_RESPONSE THEN @ ELSE 0]

(* Decode's search for the magic: the Go offset where "#@" starts, or    *)
(* where fewer than two bytes are left.                                  *)
RECURSIVE Scan(_, _)
Scan(buf, pos) ==
    IF Len(buf) - pos < 2 THEN [found |-> FALSE, pos |-> pos]
    ELSE IF buf[pos + 1] = M1 /\ buf[pos + 2] = M2 THEN [found |-> TRUE, pos |-> pos]
    ELSE Scan(buf, pos + 1)

Wait(buf) == [rest |-> buf, has |-> FALSE, msg |-> <<>>]

Decode(in) ==
    LET s       == Scan(in, 0)
        buf     == SubSeq(in, s.pos + 1, Len(in))
        size    == Len(buf)
        type    == buf[4]
        bodyLen == GetBE(buf, 9, 4)
        exLen   == GetBE(buf, FIX_HEAD_LENGTH, 2)
        pos     == CASE HasExData(type)     -> FIX_HEAD_LENGTH + 2 + exLen
                     [] type = MT_RESPONSE -> FIX_HEAD_LENGTH + 1
                     [] OTHER              -> FIX_HEAD_LENGTH
        msg     == [type |-> type, flag |-> buf[5], reqID |-> GetBE(buf, 5, 4),
                    status |-> IF type = MT_RESPONSE THEN buf[FIX_HEAD_LENGTH + 1] ELSE 0,
                    exData |-> IF HasExData(type)
                               THEN SubSeq(buf, FIX_HEAD_LENGTH + 3, FIX_HEAD_LENGTH + 2 + exLen)
                               ELSE <<>>,
                    body |-> SubSeq(buf, pos + 1, pos + bodyLen)]
    IN CASE ~s.found                                       -> Wait(buf)
         [] size < FIX_HEAD_LENGTH                         -> Wait(buf)
         [] size - FIX_HEAD_LENGTH < bodyLen               -> Wait(buf)
         [] HasExData(type) /\ size - FIX_HEAD_LENGTH < 2  -> Wait(buf)
         [] HasExData(type) /\ size - FIX_HEAD_LENGTH - 2 < exLen + bodyLen -> Wait(buf)
         [] type = MT_RESPONSE /\ size - FIX_HEAD_LENGTH < 1 -> Wait(buf)
         [] type \notin {MT_NORMAL, MT_REQUEST, MT_RESPONSE, MT_PING, MT_PONG}
                                                           -> Wait(SubSeq(buf, 3, size))
         [] pos + bodyLen > size                           -> Wait(buf)
         [] OTHER -> [rest |-> SubSeq(buf, pos + bodyLen + 1, size),
                      has |-> TRUE, msg |-> msg]

(* readLoop's inner loop: decode and dispatch until Decode returns no   *)
(* message; the http Decode has no error to end the connection with.    *)
RECURSIVE Drain(_, _)
Drain(buf, out) ==
    LET r == Decode(buf)
    IN IF r.has THEN Drain(r.rest, Append(out, r.msg))
       ELSE [rest |-> r.rest, out |-> out, err |-> "none"]
=============================================================================

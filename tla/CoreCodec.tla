----------------------------- MODULE CoreCodec -----------------------------
(***************************************************************************)
(* The length-type-value frame codec of the core protocol                 *)
(* (src/sprotocol/core/message.go: Encode, Decode, the put/get helpers)    *)
(* with readLoop's decode loop (src/sprotocol/core/socket.go).  Frames    *)
(* are byte sequences; the header fields                                  *)
(* are written big-endian as the code does, MAX_BODY_LENGTH is the        *)
(* constant MaxBodyLength (at least the 38-byte largest header, so every *)
(* header fits in the first package as it does with 0xFFFF) and zlib is   *)
(* an invertible transformation that lengthens the body by its 2-byte     *)
(* stream header.                                                         *)
(***************************************************************************)
EXTENDS Integers, Sequences, Bitwise

CONSTANT MaxBodyLength   \* MAX_BODY_LENGTH, the largest first package

ASSUME MaxBodyLength \in 38..65535

HL_FIX == 8
HL_REQUEST == 10
HL_ROUTE == 12
HL_TRACE == 16
HL_RESPONSE == 8

MT_NORMAL == 0
MT_REQUEST == 1
MT_RESPONSE == 2

MF_COMPRESS == 2
MF_ROUTER == 4
MF_TRACE == 8
MF_PACKAGE == 16

Byte == 0..255

\* The fields of Message that travel on the wire.
Message == [type : Byte, flag : Byte, reqID : Nat, funcID : Nat,
            fromSvrType : Nat, toSvrType : Nat, fromSvrID : Nat, toSvrID : Nat,
            traceID : Nat, spanID : Nat, body : Seq(Byte)]

HasFlag(f, mf) == (f & mf) # 0

\* A conversion that writes each shifted value without masking it to a byte.
RECURSIVE PutBENoMask(_, _)
PutBENoMask(n, w) ==
    IF w = 0 THEN <<>> ELSE PutBENoMask(n \div 256, w - 1) \o <<n>>

(* put16bit/put32bit/put64bit: n as w big-endian bytes. *)
RECURSIVE PutBE(_, _)
PutBE(n, w) == IF w = 0 THEN <<>> ELSE PutBE(n \div 256, w - 1) \o <<n % 256>>

(* get16bit/get32bit/get64bit: the w bytes at Go offset start, big-endian. *)
RECURSIVE GetBE(_, _, _)
GetBE(buf, start, w) ==
    IF w = 0 THEN 0 ELSE GetBE(buf, start, w - 1) * 256 + buf[start + w]

\* CMF 0x78 (deflate, 32K window), FLG 0x01: a valid zlib stream header.
ZlibHeader == <<120, 1>>

zlibCompress(src) == ZlibHeader \o src

\* zlib.NewReader fails on a bad stream header; io.Copy's error is ignored.
zlibUnCompress(src) ==
    IF Len(src) >= 2 /\ SubSeq(src, 1, 2) = ZlibHeader
    THEN [ok |-> TRUE, out |-> SubSeq(src, 3, Len(src))]
    ELSE [ok |-> FALSE, out |-> <<>>]

\* Encode's header length for a message (before the package split).
HeaderLen(type, flag) ==
    (IF type = MT_RESPONSE THEN HL_RESPONSE ELSE HL_REQUEST)
    + (IF HasFlag(flag, MF_ROUTER) THEN HL_ROUTE ELSE 0)
    + (IF HasFlag(flag, MF_TRACE) THEN HL_TRACE ELSE 0)

WireBody(msg) ==
    IF HasFlag(msg.flag, MF_COMPRESS) THEN zlibCompress(msg.body) ELSE msg.body

\* A split test that also splits a frame of exactly MAX_BODY_LENGTH bytes.
IsPackageAtLimit(allLen) == allLen >= MaxBodyLength

\* Encode's test for splitting the frame into a first package and a tail.
IsPackage(allLen) == allLen > MaxBodyLength

\* The message after Encode: Encode sets MF_PACKAGE on it and never clears it.
Encoded(msg) ==
    IF IsPackage(HeaderLen(msg.type, msg.flag) + Len(WireBody(msg)))
    THEN [msg EXCEPT !.flag = msg.flag | MF_PACKAGE]
    ELSE msg

\* What of a message Encode puts on the wire: no function id in a
\* response, no route or trace fields unless their flag is set.
Carried(msg) ==
    LET e == Encoded(msg)
        router == HasFlag(e.flag, MF_ROUTER)
        tracer == HasFlag(e.flag, MF_TRACE)
    IN [e EXCEPT !.funcID = IF e.type = MT_RESPONSE THEN 0 ELSE @,
                 !.fromSvrType = IF router THEN @ ELSE 0,
                 !.toSvrType = IF router THEN @ ELSE 0,
                 !.fromSvrID = IF router THEN @ ELSE 0,
                 !.toSvrID = IF router THEN @ ELSE 0,
                 !.traceID = IF tracer THEN @ ELSE 0,
                 !.spanID = IF tracer THEN @ ELSE 0]

Encode(msg) ==
    LET body   == WireBody(msg)
        allLen == HeaderLen(msg.type, msg.flag) + Len(body)
        flag   == Encoded(msg).flag
        msgLen == IF IsPackage(allLen) THEN MaxBodyLength ELSE allLen
        fixed  == PutBE(msgLen, 2) \o <<msg.type, flag>> \o PutBE(msg.reqID, 4)
        fid    == IF msg.type \in {MT_NORMAL, MT_REQUEST}
                  THEN PutBE(msg.funcID, 2) ELSE <<>>
        route  == IF HasFlag(flag, MF_ROUTER)
                  THEN PutBE(msg.fromSvrType, 2) \o PutBE(msg.toSvrType, 2)
                       \o PutBE(msg.fromSvrID, 4) \o PutBE(msg.toSvrID, 4)
                  ELSE <<>>
        trace  == IF HasFlag(flag, MF_TRACE)
                  THEN PutBE(msg.traceID, 8) \o PutBE(msg.spanID, 8)
                  ELSE <<>>
        fstLen == MaxBodyLength + Len(body) - allLen
        tail   == IF IsPackage(allLen)
                  THEN SubSeq(body, 1, fstLen) \o PutBE(Len(body) - fstLen, 4)
                       \o SubSeq(body, fstLen + 1, Len(body))
                  ELSE body
    IN IF msg.type \notin {MT_NORMAL, MT_REQUEST, MT_RESPONSE} THEN <<>>
       ELSE fixed \o fid \o route \o trace \o tail

(* Decode's outcomes: a frame is not complete yet, a message, or an error *)
(* (readLoop returns on every error and the deferred Close ends the       *)
(* connection; an index out of range panics, Socket.Run recovers it, and  *)
(* the read loop has ended all the same).                                 *)
Wait(buf) == [rest |-> buf, has |-> FALSE, msg |-> <<>>, err |-> "none"]
Fail(rest, e) == [rest |-> rest, has |-> FALSE, msg |-> <<>>, err |-> e]

Decode(buf) ==
    LET size   == Len(buf)
        msgLen == GetBE(buf, 0, 2)
        type   == buf[3]
        flag   == buf[4]
        pkg    == HasFlag(flag, MF_PACKAGE)
        subLen == GetBE(buf, MaxBodyLength, 4)
        base   == IF type = MT_RESPONSE THEN HL_RESPONSE ELSE HL_REQUEST
        tpos   == base + (IF HasFlag(flag, MF_ROUTER) THEN HL_ROUTE ELSE 0)
        pos    == HeaderLen(type, flag)
        sub    == IF pkg THEN subLen ELSE 0
        end    == IF sub = 0 THEN msgLen ELSE msgLen + 4 + sub
        body   == IF sub = 0 THEN SubSeq(buf, pos + 1, msgLen)
                  ELSE SubSeq(buf, pos + 1, msgLen) \o SubSeq(buf, msgLen + 5, end)
        unz    == zlibUnCompress(body)
        field(on, at, w) == IF on THEN GetBE(buf, at, w) ELSE 0
        router == HasFlag(flag, MF_ROUTER)
        tracer == HasFlag(flag, MF_TRACE)
        msg    == [type |-> type, flag |-> flag, reqID |-> GetBE(buf, 4, 4),
                   funcID |-> field(type # MT_RESPONSE, 8, 2),
                   fromSvrType |-> field(router, base, 2),
                   toSvrType |-> field(router, base + 2, 2),
                   fromSvrID |-> field(router, base + 4, 4),
                   toSvrID |-> field(router, base + 8, 4),
                   traceID |-> field(tracer, tpos, 8),
                   spanID |-> field(tracer, tpos + 8, 8),
                   body |-> IF HasFlag(flag, MF_COMPRESS) THEN unz.out ELSE body]
        rest   == SubSeq(buf, end + 1, size)
    IN CASE size < HL_FIX                                -> Wait(buf)
         [] size < msgLen                                -> Wait(buf)
         [] flag > 31                                    -> Fail(<<>>, "flag")
         [] pkg /\ size < MaxBodyLength + 4              -> Wait(buf)
         [] pkg /\ size < MaxBodyLength + 4 + subLen     -> Wait(buf)
         [] type \notin {MT_NORMAL, MT_REQUEST, MT_RESPONSE} -> Fail(<<>>, "type")
         [] pos > size                                   -> Fail(<<>>, "panic")
         [] pos > msgLen                                 -> Fail(<<>>, "length")
         [] end > size                                   -> Fail(<<>>, "panic")
         [] HasFlag(flag, MF_COMPRESS) /\ ~unz.ok        -> Fail(rest, "zlib")
         [] OTHER -> [rest |-> rest, has |-> TRUE, msg |-> msg, err |-> "none"]

(* readLoop's inner loop: decode and dispatch until Decode asks for more *)
(* bytes or fails.                                                        *)
RECURSIVE Drain(_, _)
Drain(buf, out) ==
    LET r == Decode(buf)
    IN IF r.err # "none" THEN [rest |-> r.rest, out |-> out, err |-> r.err]
       ELSE IF ~r.has THEN [rest |-> r.rest, out |-> out, err |-> "none"]
       ELSE Drain(r.rest, Append(out, r.msg))
=============================================================================

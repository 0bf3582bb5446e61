---------------------------- MODULE FrameStream ----------------------------
(***************************************************************************)
(* One connection of either protocol variant, as the sending socket's     *)
(* post and the receiving socket's readLoop see it                        *)
(* (src/sprotocol/core/socket.go, src/sprotocol/http/socket.go): post     *)
(* writes the encoded frame under Socket.mu, conn.Read hands the read    *)
(* loop whatever number of bytes TCP delivers, and the loop appends them *)
(* to its buffer and decodes and dispatches frames until one is         *)
(* incomplete.  The codecs are CoreCodec and HttpCodec.                  *)
(***************************************************************************)
EXTENDS Integers, Sequences, SequencesExt

CONSTANTS
    MaxBodyLength,   \* core MAX_BODY_LENGTH
    Protocols,       \* the variants a connection may speak: "core", "http"
    CoreMessages,    \* messages a caller may Send on a core socket
    HttpMessages,    \* messages a caller may Send on an http socket
    ReadSizes,       \* byte counts a conn.Read may return at most
    MaxSends,        \* bound on the number of post calls
    MaxPartial       \* most bytes a timed-out conn.Write may have written

ASSUME Protocols \subseteq {"core", "http"}
ASSUME ReadSizes \subseteq Nat \ {0} /\ MaxSends \in Nat /\ MaxPartial \in Nat

Core == INSTANCE CoreCodec
Http == INSTANCE HttpCodec

Messages(p) == IF p = "core" THEN CoreMessages ELSE HttpMessages

Encode(p, msg) == IF p = "core" THEN Core!Encode(msg) ELSE Http!Encode(msg)

\* The message as the sender holds it after Encode: the core Encode sets
\* MF_PACKAGE on a split frame, the http Encode changes nothing.
Encoded(p, msg) == IF p = "core" THEN Core!Encoded(msg) ELSE msg

Carried(p, msg) == IF p = "core" THEN Core!Carried(msg) ELSE Http!Carried(msg)

Drain(p, b) == IF p = "core" THEN Core!Drain(b, <<>>) ELSE Http!Drain(b, <<>>)

Byte == 0..255

WireMessage(p) == IF p = "core" THEN Core!Message ELSE Http!Message

(* proto is the connection's variant; sent holds the messages whose     *)
(* post returned nil, as Encode left them; wire the bytes written and   *)
(* not yet read; buf the read loop's undecoded bytes; got the messages  *)
(* it dispatched; closed that the read loop returned on a decode error. *)
VARIABLES proto, sent, wire, buf, got, closed, posts

vars == <<proto, sent, wire, buf, got, closed, posts>>

TypeOK ==
    /\ proto \in Protocols
    /\ sent \in Seq(WireMessage(proto)) /\ got \in Seq(WireMessage(proto))
    /\ wire \in Seq(Byte) /\ buf \in Seq(Byte)
    /\ closed \in BOOLEAN /\ posts \in 0..MaxSends

Init ==
    /\ proto \in Protocols
    /\ sent = <<>> /\ wire = <<>> /\ buf = <<>> /\ got = <<>>
    /\ closed = FALSE /\ posts = 0

(* Send of a response or normal (or http pong) message, or of a request *)
(* after its id is set: post(msg.Encode()) writes the whole frame under *)
(* Socket.mu; an empty frame (bad type) writes nothing and returns nil.  *)
Post(msg) ==
    /\ ~closed /\ posts < MaxSends
    /\ LET data == Encode(proto, msg)
       IN /\ wire' = wire \o data
          /\ sent' = IF data = <<>> THEN sent ELSE Append(sent, Encoded(proto, msg))
    /\ posts' = posts + 1
    /\ UNCHANGED <<proto, buf, got, closed>>

(* post's conn.Write hits its write deadline after k bytes of the frame *)
(* went out: post returns the timeout error and the connection stays    *)
(* open for the next post.                                              *)
PostTimeout(msg, k) ==
    /\ ~closed /\ posts < MaxSends
    /\ k < Len(Encode(proto, msg))
    /\ wire' = wire \o SubSeq(Encode(proto, msg), 1, k)
    /\ posts' = posts + 1
    /\ UNCHANGED <<proto, sent, buf, got, closed>>

(* One pass of readLoop: conn.Read returns up to n bytes, they are     *)
(* appended to buf and decoded and dispatched until a frame is         *)
(* incomplete; a core Decode error ends the loop and closes the        *)
(* connection.                                                          *)
Read(n) ==
    /\ ~closed /\ wire # <<>>
    /\ LET k == IF n < Len(wire) THEN n ELSE Len(wire)
           r == Drain(proto, buf \o SubSeq(wire, 1, k))
       IN /\ wire' = SubSeq(wire, k + 1, Len(wire))
          /\ buf' = r.rest
          /\ got' = got \o r.out
          /\ closed' = (r.err # "none")
    /\ UNCHANGED <<proto, sent, posts>>

Next ==
    \/ \E msg \in Messages(proto) : Post(msg)
    \/ \E msg \in Messages(proto), k \in 0..MaxPartial : PostTimeout(msg, k)
    \/ \E n \in ReadSizes : Read(n)

Spec == Init /\ [][Next]_vars

(* The read loop never fails and what it dispatches is, in order and  *)
(* with every field Encode carries, what the posts that returned nil    *)
(* sent: no message is lost, garbled, merged or invented.               *)
DispatchedAsSent ==
    /\ ~closed
    /\ IsPrefix(got, [i \in 1..Len(sent) |-> Carried(proto, sent[i])])

(* Framing: however the stream is cut into reads, what the read loop    *)
(* dispatches is what was sent, and once every written byte has been    *)
(* read, every sent message has been dispatched and no byte of a frame  *)
(* is left in buf.                                                      *)
FramingSound ==
    /\ DispatchedAsSent
    /\ wire = <<>> => Len(got) = Len(sent) /\ buf = <<>>
=============================================================================

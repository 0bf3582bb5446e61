---------------------------- MODULE MCFrameStream ----------------------------
(* Messages for the two codecs.  Core: every header layout Encode       *)
(* writes, field values wider than one byte, and bodies that put the    *)
(* frame just at, and one byte past, MAX_BODY_LENGTH.  Http: every      *)
(* message type, extended data, a status, and bodies holding the magic  *)
(* bytes.                                                                *)
EXTENDS FrameStream

MCMaxBodyLength == 40

\* A body whose bytes differ by position, so a misplaced byte shows.
Body(n) == [i \in 1..n |-> i]

CoreMsg(type, flag, body) ==
    LET router == Core!HasFlag(flag, Core!MF_ROUTER)
        tracer == Core!HasFlag(flag, Core!MF_TRACE)
    IN [type |-> type, flag |-> flag, reqID |-> 65537, funcID |-> 258,
        fromSvrType |-> IF router THEN 3 ELSE 0,
        toSvrType |-> IF router THEN 515 ELSE 0,
        fromSvrID |-> IF router THEN 70000 ELSE 0,
        toSvrID |-> IF router THEN 5 ELSE 0,
        traceID |-> IF tracer THEN 1073741825 ELSE 0,
        spanID |-> IF tracer THEN 9 ELSE 0,
        body |-> body]

\* A response with an empty body that carries a function id, as
\* gamesdk.Reply builds one; a compressed routed normal message; routed
\* and traced requests of 40 and 41 bytes.
MCCoreMessages ==
    { CoreMsg(Core!MT_RESPONSE, 0, <<>>),
      CoreMsg(Core!MT_NORMAL, Core!MF_COMPRESS + Core!MF_ROUTER, Body(1)),
      CoreMsg(Core!MT_REQUEST, Core!MF_ROUTER + Core!MF_TRACE, Body(2)),
      CoreMsg(Core!MT_REQUEST, Core!MF_ROUTER + Core!MF_TRACE, Body(3)) }

HttpMsg(type, exData, status, body) ==
    [type |-> type, flag |-> 0, reqID |-> 65537, status |-> status,
     exData |-> exData, body |-> body]

\* A request with extended data and a body holding "#@"; a response with
\* a status; a pong, as the filter answers a ping.
MCHttpMessages ==
    { HttpMsg(Http!MT_REQUEST, <<7, 8>>, 0, <<Http!M1, Http!M2, 5>>),
      HttpMsg(Http!MT_RESPONSE, <<>>, 3, Body(2)),
      HttpMsg(Http!MT_PONG, <<>>, 0, <<>>) }
=============================================================================

----------------------------- MODULE RpcSocket -----------------------------
(***************************************************************************)
(* Request/response correlation on one Socket                              *)
(* (sprotocol/core/socket.go, sprotocol/http/socket.go).                   *)
(*                                                                         *)
(* A caller of Send (sendTimeout) makes a wait channel of capacity 1,      *)
(* registers it in requestQueue under a fresh requestID while holding      *)
(* requestLocker, posts the Request frame, and selects on the channel and  *)
(* a timer.  Its deferred calls then delete the entry (under the lock)     *)
(* and close the channel.  The read loop decodes Response frames and       *)
(* dispatch pushes each into the channel registered for its id.            *)
(*                                                                         *)
(* The two protocol variants differ only in dispatch: core keeps           *)
(* requestLocker held across `ch <- msg`; http looks the channel up under  *)
(* the lock and sends after releasing it.  variant, chosen at Init from    *)
(* Variants, says which.                                                  *)
(*                                                                         *)
(* The peer (the gateway) answers requests in any order, may never answer  *)
(* one, and may emit up to MaxDup duplicate responses.  The connection may *)
(* be lost at any time.  Each request carries its call number as a ghost   *)
(* field, so that a response can be traced to the call it answers.         *)
(***************************************************************************)
EXTENDS Naturals, Sequences, TLC

CONSTANTS
    Callers,   \* goroutines calling Socket.Send concurrently
    Variants,  \* the dispatch variants a behaviour may run: "core", "http"
    IdSpace,   \* requestID is a uint32: 2^32
    MaxCalls,  \* MaxCalls[v]: bound on Send calls in a behaviour of variant v
    MaxDup,    \* MaxDup[v]: bound on duplicate Response frames from the peer
    ChanCap    \* capacity of waitCh: make(chan *Message, 1)

ASSUME
    /\ Variants \subseteq {"core", "http"}
    /\ IdSpace \in Nat \ {0}
    /\ \A v \in Variants : MaxCalls[v] \in Nat \ {0} /\ MaxDup[v] \in Nat
    /\ ChanCap \in Nat \ {0}

VARIABLES
    requestID,     \* Socket.requestID
    requestQueue,  \* Socket.requestQueue: request id -> wait channel
    locker,        \* holder of Socket.requestLocker: "free", a caller, "reader"
    chans,         \* chans[n]: wait channel of the n-th Send (buffer, closed)
    pc,            \* pc[c]: where caller c is inside sendTimeout
    call,          \* call[c]: id, channel and outcome of c's current Send
    sockOpen,      \* FALSE once conn.Close has run
    rd,            \* the read loop: its state and the response it dispatches
    toPeer,        \* requests written and not yet answered by the peer
    toSock,        \* Response frames in flight to the socket (TCP: FIFO)
    dupLeft,       \* duplicate responses the peer may still emit
    replied,       \* ghost: requests the peer has answered
    variant        \* the protocol package this socket belongs to

vars == <<requestID, requestQueue, locker, chans, pc, call, sockOpen, rd,
          toPeer, toSock, dupLeft, replied, variant>>

Ids == 0..(IdSpace - 1)
\* The largest call bound of any variant: the range of call numbers.
CallBound == CHOOSE b \in {MaxCalls[v] : v \in Variants} :
                \A v \in Variants : MaxCalls[v] <= b
CallNos == 1..CallBound
Frame == [id : Ids, call : CallNos]
ReaderStates == {"read", "push", "exited", "panicked"}
NoCall == [id |-> 0, ch |-> 0, res |-> "none", rsp |-> 0]

TypeOK ==
    /\ requestID \in Ids
    /\ DOMAIN requestQueue \subseteq Ids
    /\ \A i \in DOMAIN requestQueue : requestQueue[i] \in CallNos
    /\ locker \in {"free", "reader"} \cup Callers
    /\ variant \in Variants
    /\ Len(chans) <= MaxCalls[variant]
    /\ \A n \in DOMAIN chans : Len(chans[n].buf) <= ChanCap
                                 /\ chans[n].closed \in BOOLEAN
    /\ pc \in [Callers -> {"idle", "post", "select", "delete", "close"}]
    /\ call \in [Callers -> [id : Ids, ch : 0..CallBound,
                             res : {"none", "ok", "timeout", "error"},
                             rsp : 0..CallBound]]
    /\ sockOpen \in BOOLEAN
    /\ rd.st \in ReaderStates
    /\ toPeer \subseteq Frame
    /\ \A k \in DOMAIN toSock : toSock[k] \in Frame
    /\ dupLeft \in 0..MaxDup[variant]
    /\ replied \subseteq Frame

Init ==
    /\ requestID = 0
    /\ requestQueue = <<>>
    /\ locker = "free"
    /\ chans = <<>>
    /\ pc = [c \in Callers |-> "idle"]
    /\ call = [c \in Callers |-> NoCall]
    /\ sockOpen = TRUE
    /\ rd = [st |-> "read", msg |-> [id |-> 0, call |-> 1], ch |-> 0]
    /\ toPeer = {}
    /\ toSock = <<>>
    /\ variant \in Variants
    /\ dupLeft = MaxDup[variant]
    /\ replied = {}

-----------------------------------------------------------------------------
(* The caller side: sendTimeout for a Request message.                     *)

\* Mutant: `reqID := this.requestID` taken without `this.requestID++`.
SendRegisterNoIncrement(c) ==
    /\ pc[c] = "idle"
    /\ Len(chans) < MaxCalls[variant]
    /\ locker = "free"
    /\ LET n == Len(chans) + 1
       IN /\ chans' = Append(chans, [buf |-> <<>>, closed |-> FALSE])
          /\ requestQueue' = (requestID :> n) @@ requestQueue
          /\ call' = [call EXCEPT ![c] = [id |-> requestID, ch |-> n,
                                          res |-> "none", rsp |-> 0]]
          /\ pc' = [pc EXCEPT ![c] = "post"]
    /\ UNCHANGED <<requestID, locker, sockOpen, rd, toPeer, toSock, dupLeft,
                   replied, variant>>

\* Mutant: the new wait channel's number is off by one.
SendRegisterOffByOne(c) ==
    /\ pc[c] = "idle"
    /\ Len(chans) < MaxCalls[variant]
    /\ locker = "free"
    /\ LET id == (requestID + 1) % IdSpace
           n  == Len(chans)
       IN /\ requestID' = id
          /\ chans' = Append(chans, [buf |-> <<>>, closed |-> FALSE])
          /\ requestQueue' = (id :> n) @@ requestQueue
          /\ call' = [call EXCEPT ![c] = [id |-> id, ch |-> n,
                                          res |-> "none", rsp |-> 0]]
          /\ pc' = [pc EXCEPT ![c] = "post"]
    /\ UNCHANGED <<locker, sockOpen, rd, toPeer, toSock, dupLeft, replied, variant>>

\* waitCh := make(chan, 1); lock; requestID++; requestQueue[id] = waitCh;
\* unlock; msg.SetRequestID(id).  The lock is held only inside the step, so
\* the step waits while anyone else holds it.
SendRegister(c) ==
    /\ pc[c] = "idle"
    /\ Len(chans) < MaxCalls[variant]
    /\ locker = "free"
    /\ LET id == (requestID + 1) % IdSpace
           n  == Len(chans) + 1
       IN /\ requestID' = id
          /\ chans' = Append(chans, [buf |-> <<>>, closed |-> FALSE])
          /\ requestQueue' = (id :> n) @@ requestQueue
          /\ call' = [call EXCEPT ![c] = [id |-> id, ch |-> n,
                                          res |-> "none", rsp |-> 0]]
          /\ pc' = [pc EXCEPT ![c] = "post"]
    /\ UNCHANGED <<locker, sockOpen, rd, toPeer, toSock, dupLeft, replied, variant>>

\* post(msg.Encode()): the frame reaches the peer, or conn.Write fails or
\* passes its deadline and sendTimeout returns the error.
PostRequest(c) ==
    /\ pc[c] = "post"
    /\ \/ /\ sockOpen
          /\ toPeer' = toPeer \cup {[id |-> call[c].id, call |-> call[c].ch]}
          /\ pc' = [pc EXCEPT ![c] = "select"]
          /\ UNCHANGED call
       \/ /\ call' = [call EXCEPT ![c].res = "error"]
          /\ pc' = [pc EXCEPT ![c] = "delete"]
          /\ UNCHANGED toPeer
    /\ UNCHANGED <<requestID, requestQueue, locker, chans, sockOpen, rd,
                   toSock, dupLeft, replied, variant>>

\* case rsp = <-waitCh
SelectRecv(c) ==
    /\ pc[c] = "select"
    /\ chans[call[c].ch].buf # <<>>
    /\ chans' = [chans EXCEPT ![call[c].ch].buf = Tail(@)]
    /\ call' = [call EXCEPT ![c].res = "ok",
                            ![c].rsp = Head(chans[call[c].ch].buf).call]
    /\ pc' = [pc EXCEPT ![c] = "delete"]
    /\ UNCHANGED <<requestID, requestQueue, locker, sockOpen, rd, toPeer,
                   toSock, dupLeft, replied, variant>>

\* Mutant: a select with no timer case.
SelectTimeoutNever(c) == FALSE

\* case <-time.After(tmout): the timer can fire whenever the caller waits.
SelectTimeout(c) ==
    /\ pc[c] = "select"
    /\ call' = [call EXCEPT ![c].res = "timeout"]
    /\ pc' = [pc EXCEPT ![c] = "delete"]
    /\ UNCHANGED <<requestID, requestQueue, locker, chans, sockOpen, rd,
                   toPeer, toSock, dupLeft, replied, variant>>

\* deferred: lock; delete(requestQueue, reqID); unlock
DeleteEntry(c) ==
    /\ pc[c] = "delete"
    /\ locker = "free"
    /\ requestQueue' = [i \in DOMAIN requestQueue \ {call[c].id} |->
                           requestQueue[i]]
    /\ pc' = [pc EXCEPT ![c] = "close"]
    /\ UNCHANGED <<requestID, locker, chans, call, sockOpen, rd, toPeer,
                   toSock, dupLeft, replied, variant>>

\* deferred (registered first, so run last): close(waitCh); Send returns.
CloseWaitCh(c) ==
    /\ pc[c] = "close"
    /\ chans' = [chans EXCEPT ![call[c].ch].closed = TRUE]
    /\ pc' = [pc EXCEPT ![c] = "idle"]
    /\ UNCHANGED <<requestID, requestQueue, locker, call, sockOpen, rd,
                   toPeer, toSock, dupLeft, replied, variant>>

-----------------------------------------------------------------------------
(* The read loop: Decode a Response frame, then dispatch it.               *)

\* Mutant: core dispatch that unlocks before `ch <- msg`.
DispatchCoreUnlocked ==
    /\ variant = "core"
    /\ rd.st = "read" /\ sockOpen /\ toSock # <<>>
    /\ locker = "free"
    /\ LET m == Head(toSock) IN
       /\ toSock' = Tail(toSock)
       /\ IF m.id \in DOMAIN requestQueue
          THEN rd' = [st |-> "push", msg |-> m, ch |-> requestQueue[m.id]]
          ELSE UNCHANGED rd
    /\ UNCHANGED <<requestID, requestQueue, locker, chans, pc, call, sockOpen,
                   toPeer, dupLeft, replied, variant>>

\* core dispatch: lock; if ch, ok := requestQueue[id]; ok { ch <- msg }; unlock
\* A response with no entry (late, after a timeout) is dropped.
DispatchCore ==
    /\ variant = "core"
    /\ rd.st = "read" /\ sockOpen /\ toSock # <<>>
    /\ locker = "free"
    /\ LET m == Head(toSock) IN
       /\ toSock' = Tail(toSock)
       /\ IF m.id \in DOMAIN requestQueue
          THEN /\ locker' = "reader"
               /\ rd' = [st |-> "push", msg |-> m, ch |-> requestQueue[m.id]]
          ELSE UNCHANGED <<locker, rd>>
    /\ UNCHANGED <<requestID, requestQueue, chans, pc, call, sockOpen,
                   toPeer, dupLeft, replied, variant>>

\* http dispatch: lock; ch, ok := requestQueue[id]; unlock; if ok { ch <- msg }
DispatchHttp ==
    /\ variant = "http"
    /\ rd.st = "read" /\ sockOpen /\ toSock # <<>>
    /\ locker = "free"
    /\ LET m == Head(toSock) IN
       /\ toSock' = Tail(toSock)
       /\ IF m.id \in DOMAIN requestQueue
          THEN rd' = [st |-> "push", msg |-> m, ch |-> requestQueue[m.id]]
          ELSE UNCHANGED rd
    /\ UNCHANGED <<requestID, requestQueue, locker, chans, pc, call, sockOpen,
                   toPeer, dupLeft, replied, variant>>

\* ch <- msg: blocks while the buffer is full.  On a closed channel it
\* panics; the panic unwinds readLoop, whose deferred OnClose and Close run
\* (Close shuts the connection), and Run recovers it.  A lock held by the
\* reader is not released by the panic.
PushResponse ==
    /\ rd.st = "push"
    /\ LET ch == chans[rd.ch] IN
       \/ /\ ~ch.closed
          /\ Len(ch.buf) < ChanCap
          /\ chans' = [chans EXCEPT ![rd.ch].buf = Append(@, rd.msg)]
          /\ rd' = [rd EXCEPT !.st = "read"]
          /\ locker' = IF locker = "reader" THEN "free" ELSE locker
          /\ UNCHANGED sockOpen
       \/ /\ ch.closed
          /\ rd' = [rd EXCEPT !.st = "panicked"]
          /\ sockOpen' = FALSE
          /\ UNCHANGED <<chans, locker>>
    /\ UNCHANGED <<requestID, requestQueue, pc, call, toPeer, toSock, dupLeft,
                   replied, variant>>

\* conn.Read fails once the connection is closed: the loop breaks, its
\* deferred OnClose and Close run.  Frames still in flight are lost.
ReadExit ==
    /\ rd.st = "read"
    /\ ~sockOpen
    /\ rd' = [rd EXCEPT !.st = "exited"]
    /\ toSock' = <<>>
    /\ UNCHANGED <<requestID, requestQueue, locker, chans, pc, call, sockOpen,
                   toPeer, dupLeft, replied, variant>>

\* Socket.Close, or the peer / network dropping the connection.
ConnLost ==
    /\ sockOpen
    /\ sockOpen' = FALSE
    /\ UNCHANGED <<requestID, requestQueue, locker, chans, pc, call, rd,
                   toPeer, toSock, dupLeft, replied, variant>>

-----------------------------------------------------------------------------
(* The peer: answers each request it got at most once, in any order, with  *)
(* a Response echoing the request id; it may also never answer.            *)

PeerRespond ==
    /\ \E m \in toPeer :
        /\ toPeer' = toPeer \ {m}
        /\ toSock' = IF sockOpen THEN Append(toSock, m) ELSE toSock
        /\ replied' = replied \cup {m}
    /\ UNCHANGED <<requestID, requestQueue, locker, chans, pc, call, sockOpen,
                   rd, dupLeft, variant>>

PeerDrop ==
    /\ \E m \in toPeer : toPeer' = toPeer \ {m}
    /\ UNCHANGED <<requestID, requestQueue, locker, chans, pc, call, sockOpen,
                   rd, toSock, dupLeft, replied, variant>>

PeerDuplicate ==
    /\ dupLeft > 0
    /\ sockOpen
    /\ \E m \in replied : toSock' = Append(toSock, m)
    /\ dupLeft' = dupLeft - 1
    /\ UNCHANGED <<requestID, requestQueue, locker, chans, pc, call, sockOpen,
                   rd, toPeer, replied, variant>>

-----------------------------------------------------------------------------
Caller(c) ==
    \/ SendRegister(c) \/ PostRequest(c) \/ SelectRecv(c) \/ SelectTimeout(c)
    \/ DeleteEntry(c) \/ CloseWaitCh(c)

Reader == DispatchCore \/ DispatchHttp \/ PushResponse \/ ReadExit

Peer == PeerRespond \/ PeerDrop \/ PeerDuplicate

Next ==
    \/ \E c \in Callers : Caller(c)
    \/ Reader
    \/ Peer
    \/ ConnLost

Spec == Init /\ [][Next]_vars

(* Goroutines are scheduled (weak fairness on every step a caller or the   *)
(* read loop can take once it is waiting for it), the timer of            *)
(* time.After always fires, and a goroutine blocked on requestLocker gets *)
(* it if it is released infinitely often (sync.Mutex starvation mode      *)
(* hands the lock to waiters in FIFO order).  Starting a call, the peer   *)
(* and connection loss are not fair: they may never happen.               *)
Fairness ==
    /\ \A c \in Callers :
          /\ WF_vars(PostRequest(c))
          /\ WF_vars(SelectRecv(c) \/ SelectTimeout(c))
          /\ SF_vars(DeleteEntry(c))
          /\ WF_vars(CloseWaitCh(c))
    /\ SF_vars(DispatchCore) /\ WF_vars(DispatchHttp)
    /\ SF_vars(PushResponse) /\ WF_vars(ReadExit)

FairSpec == Spec /\ Fairness

-----------------------------------------------------------------------------
(* Properties                                                              *)

\* dispatch never sends on a wait channel that its caller has already
\* closed: a response that arrives while its caller times out must not
\* panic the read loop and tear the connection down.
NoSendOnClosedChannel == rd.st # "panicked"

\* The same, for core dispatch, which holds requestLocker across the send
\* (the http variant breaks it: see MCRpcSocket_http_panic.cfg).
CoreNoSendOnClosedChannel == variant = "core" => NoSendOnClosedChannel

\* Send refines RpcCall: a call returns exactly once, and when it returns a
\* response, that response is the peer's answer to this very call (not to
\* an earlier, timed-out one, nor to another caller's).
Abs == INSTANCE RpcCall WITH
    MaxCalls <- CallBound,
    active   <- [c \in Callers |-> IF pc[c] = "idle" THEN 0 ELSE call[c].ch],
    issued   <- Len(chans),
    answered <- {m.call : m \in replied},
    outcome  <- [c \in Callers |->
                   IF pc[c] = "idle"
                   THEN [res |-> call[c].res, rsp |-> call[c].rsp]
                   ELSE [res |-> "none", rsp |-> 0]]

RefinesRpcCall == Abs!Spec

\* Every Send returns: whatever the peer and the connection do, a caller
\* that entered sendTimeout leaves it (by its response, its timer or a
\* write error).
SendReturns == \A c \in Callers : pc[c] # "idle" ~> pc[c] = "idle"
=============================================================================

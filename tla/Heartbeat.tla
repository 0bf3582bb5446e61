----------------------------- MODULE Heartbeat -----------------------------
(***************************************************************************)
(* The heartbeat of a gateway connection (servicesdk/http/notify.go,       *)
(* sprotocol/http/socket.go readLoop and checkTimeout).                    *)
(*                                                                         *)
(* The read loop arms a read deadline of `timeout` seconds before every    *)
(* Read.  When it expires, checkTimeout compares the Unix second of now    *)
(* with the Unix second of the last successful write (lastWriteTime): if   *)
(* they are less than `timeout` apart nothing happens, otherwise           *)
(* Notify.OnTimeout starts a goroutine that sends a PING and waits up to   *)
(* `timeout` seconds for the PONG.  On a PONG it sets Notify.ping to 0;    *)
(* on a timeout it runs ping++ and closes the socket when ping > 2.  The   *)
(* goroutines share Notify.ping without synchronisation: ping++ is a load  *)
(* and a store, and a store of 0 may fall between them.                    *)
(*                                                                         *)
(* Time is abstracted to read-deadline epochs.  `wrote` records the last   *)
(* write since the previous deadline: "early" when it fell in the same     *)
(* Unix second as that deadline (the difference may then be `timeout` or   *)
(* `timeout`-1, so checkTimeout may go either way), "late" otherwise.  A   *)
(* PING waits `timeout` seconds from just after one deadline, so it ends   *)
(* near the next one, on either side of it, and is over before the one    *)
(* after: a deadline waits until every goroutine that saw the previous    *)
(* one has finished.  The gateway may go away for good (half-open TCP):    *)
(* nothing is read any more, and writes still succeed until MaxBuffered   *)
(* of them fill the socket's send buffer.                                 *)
(***************************************************************************)
EXTENDS Naturals, Sequences, SequencesExt

CONSTANTS
    MaxBuffered   \* writes the kernel accepts after the peer has gone

ASSUME MaxBuffered \in Nat

VARIABLES
    ping,      \* Notify.ping
    gs,        \* OnTimeout goroutines: pc, the value ping++ loaded, seen
    wrote,     \* the last write since the previous deadline: none/early/late
    closed,    \* so.Close() has run
    alive,     \* the gateway still reads and answers
    buffered,  \* writes accepted since the gateway went away
    fails      \* ghost: PINGs that failed since the last one answered (capped)

vars == <<ping, gs, wrote, closed, alive, buffered, fails>>

Threshold == 2     \* if this.ping > 2 { so.Close() }

Goroutine == [pc : {"wait", "load", "store", "check", "reset"},
              tmp : Nat, seen : BOOLEAN]

TypeOK ==
    /\ ping \in 0..(Threshold + 2)
    /\ gs \in Seq(Goroutine) /\ Len(gs) <= 2
    /\ wrote \in {"none", "early", "late"}
    /\ closed \in BOOLEAN /\ alive \in BOOLEAN
    /\ buffered \in 0..MaxBuffered
    /\ fails \in 0..(Threshold + 1)

Init ==
    /\ ping = 0
    /\ gs = <<>>
    /\ wrote = "none"
    /\ closed = FALSE
    /\ alive = TRUE
    /\ buffered = 0
    /\ fails = 0

-----------------------------------------------------------------------------
(* readLoop: the read deadline expires, checkTimeout runs.  Whether it     *)
(* pings follows from the last write; a PING is posted at once, which is *)
(* itself an early write for the next deadline.                           *)
\* Notify.OnTimeout: go func() { ...; rsp, err := so.Send(PING) }, posted
\* at once and waiting for its PONG.
OnTimeout == [pc |-> "wait", tmp |-> 0, seen |-> FALSE]

PingDue ==
    CASE wrote = "none"  -> {TRUE}
      [] wrote = "early" -> {FALSE, TRUE}
      [] wrote = "late"  -> {FALSE}

ReadTimeout ==
    /\ ~closed
    /\ \A i \in DOMAIN gs : ~gs[i].seen
    /\ \E p \in PingDue :
          /\ gs' = [i \in DOMAIN gs |-> [gs[i] EXCEPT !.seen = TRUE]]
                   \o (IF p THEN <<OnTimeout>> ELSE <<>>)
          /\ wrote' = IF p THEN "early" ELSE "none"
    /\ UNCHANGED <<ping, closed, alive, buffered, fails>>

(* The OnTimeout goroutine's Send: the PONG arrives, or `timeout` seconds  *)
(* pass (a PONG after that finds no wait channel and is dropped).  A PING *)
(* sent at one deadline times out near the next, so not before the       *)
(* goroutines of the previous epoch have finished.                       *)
Pong(i) ==
    /\ alive /\ ~closed
    /\ gs[i].pc = "wait"
    /\ gs' = [gs EXCEPT ![i].pc = "reset"]
    /\ fails' = 0
    /\ UNCHANGED <<ping, wrote, closed, alive, buffered>>

SendTimeout(i) ==
    /\ gs[i].pc = "wait"
    /\ gs[i].seen \/ \A j \in DOMAIN gs : ~gs[j].seen
    /\ gs' = [gs EXCEPT ![i].pc = "load"]
    /\ fails' = IF fails > Threshold THEN fails ELSE fails + 1
    /\ UNCHANGED <<ping, wrote, closed, alive, buffered>>

\* if rsp != nil { this.ping = 0; return }
Reset(i) ==
    /\ gs[i].pc = "reset"
    /\ ping' = 0
    /\ gs' = RemoveAt(gs, i)
    /\ UNCHANGED <<wrote, closed, alive, buffered, fails>>

\* this.ping++, first half: load
Load(i) ==
    /\ gs[i].pc = "load"
    /\ gs' = [gs EXCEPT ![i].pc = "store", ![i].tmp = ping]
    /\ UNCHANGED <<ping, wrote, closed, alive, buffered, fails>>

\* Mutant: the failure path stores the loaded value without the increment.
StoreNoIncrement(i) ==
    /\ gs[i].pc = "store"
    /\ ping' = gs[i].tmp
    /\ gs' = [gs EXCEPT ![i].pc = "check"]
    /\ UNCHANGED <<wrote, closed, alive, buffered, fails>>

\* this.ping++, second half: store what was loaded, plus one
Store(i) ==
    /\ gs[i].pc = "store"
    /\ ping' = gs[i].tmp + 1
    /\ gs' = [gs EXCEPT ![i].pc = "check"]
    /\ UNCHANGED <<wrote, closed, alive, buffered, fails>>

\* Mutant: the close test is one failure late (ping > 3).
CheckLate(i) ==
    /\ gs[i].pc = "check"
    /\ closed' = (closed \/ ping > Threshold + 1)
    /\ gs' = RemoveAt(gs, i)
    /\ UNCHANGED <<ping, wrote, alive, buffered, fails>>

\* if this.ping > 2 { so.Close() }; the goroutine ends
Check(i) ==
    /\ gs[i].pc = "check"
    /\ closed' = (closed \/ ping > Threshold)
    /\ gs' = RemoveAt(gs, i)
    /\ UNCHANGED <<ping, wrote, alive, buffered, fails>>

-----------------------------------------------------------------------------
(* Writes other than PINGs refresh lastWriteTime (post sets it after each *)
(* successful conn.Write).  The service's own Sends and Posts: once the   *)
(* gateway is gone only MaxBuffered more of them succeed.                 *)
Post ==
    /\ ~closed
    /\ alive \/ buffered < MaxBuffered
    /\ \E w \in {"early", "late"} : wrote' = w
    /\ buffered' = IF alive THEN buffered ELSE buffered + 1
    /\ UNCHANGED <<ping, gs, closed, alive, fails>>

\* Filter.OnMessage: a PING from the gateway is answered with a PONG, sent
\* with so.Send (post only: a PONG waits for nothing).
OnMessage ==
    /\ alive /\ ~closed
    /\ \E w \in {"early", "late"} : wrote' = w
    /\ UNCHANGED <<ping, gs, closed, alive, buffered, fails>>

\* The gateway goes away without closing the connection.
PeerGone ==
    /\ alive
    /\ alive' = FALSE
    /\ UNCHANGED <<ping, gs, wrote, closed, buffered, fails>>

Next ==
    \/ ReadTimeout
    \/ \E i \in DOMAIN gs :
          Pong(i) \/ SendTimeout(i) \/ Reset(i) \/ Load(i) \/ Store(i) \/ Check(i)
    \/ Post
    \/ OnMessage
    \/ PeerGone

Spec == Init /\ [][Next]_vars

(* Goroutines are scheduled and the Send timer fires (weak fairness).      *)
(* Once the gateway is gone nothing is read, so the read deadline expires  *)
(* every `timeout` seconds.  While it is there, data may keep the deadline *)
(* from expiring, and the gateway and the service's writes are not fair.  *)
Fairness ==
    /\ WF_vars(~alive /\ ReadTimeout)
    /\ WF_vars(\E i \in DOMAIN gs : SendTimeout(i))
    /\ WF_vars(\E i \in DOMAIN gs : Reset(i) \/ Load(i) \/ Store(i) \/ Check(i))

FairSpec == Spec /\ Fairness

-----------------------------------------------------------------------------
(* A gateway that goes away is detected: OnTimeout's failed PINGs close    *)
(* the connection (and readLoop's OnClose then redials it), whatever the  *)
(* unsynchronised ping++ and ping = 0 of overlapping goroutines do.       *)
DeadPeerClosed == ~alive ~> closed

(* The heartbeat closes a connection only when the PINGs that completed    *)
(* last, three of them, all failed: never right after the gateway        *)
(* answered one.  About a ping = 0 falling between another goroutine's    *)
(* load and store of ping++.                                             *)
CloseJustified == [][~closed /\ closed' => fails > Threshold]_vars
=============================================================================

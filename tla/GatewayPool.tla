---------------------------- MODULE GatewayPool ----------------------------
(***************************************************************************)
(* The gateway connection pool of servicesdk/http (connect.go, notify.go,  *)
(* service.go register).                                                   *)
(*                                                                         *)
(* gwList.m maps a gateway address to a *_GWContext (an entry: status,     *)
(* socket, cancelFn).  Add creates or restarts an entry and spawns a dial  *)
(* goroutine; the dial loop connects, starts the socket's read loop, runs  *)
(* the registration handshake (a Send, see RpcSocket / RpcCall: it returns *)
(* ok, "send timeout", or another error) and installs the socket.  When a  *)
(* socket's read loop ends, Notify.OnClose re-Adds the address held in the *)
(* socket's context.  The discovery watcher turns etcd PUT events into Add *)
(* and DELETE events into Del; Del runs without holding the lock.          *)
(*                                                                         *)
(* Entries are kept in `entries` and never reused, so that a step holding  *)
(* a *_GWContext pointer (Del) keeps seeing the entry it looked up even    *)
(* after the map has moved on.                                             *)
(***************************************************************************)
EXTENDS Naturals, Sequences, FiniteSets, TLC

CONSTANTS
    Keys,               \* gateway addresses
    NoKey,              \* socket context that is not an address (nil)
    MaxDials,           \* bound on dial goroutines started
    MaxSocks,           \* bound on connections made
    MaxEvents,          \* bound on discovery watch events (0: static mode)
    RegOutcomes,        \* outcomes the registration Send may return
    FailDuringRegister  \* may a connection drop while it registers?

ASSUME
    /\ NoKey \notin Keys
    /\ MaxDials \in Nat /\ MaxSocks \in Nat /\ MaxEvents \in Nat
    /\ RegOutcomes \subseteq {"ok", "timeout", "error"}
    /\ FailDuringRegister \in BOOLEAN

VARIABLES
    m,        \* gwList.m: address -> entry number
    entries,  \* entries[e]: status, socket and dial (cancelFn) of entry e
    dials,    \* dials[d]: address, ctx cancelled?, pc and socket of dial d
    socks,    \* socks[s]: open?, context, read-loop state, context OnClose saw
    store,    \* addresses currently under the gateway prefix in etcd
    toAdd,    \* addresses the startup listing has still to Add
    events,   \* discovery watch events still allowed
    w         \* the watch goroutine: where it is inside Del

vars == <<m, entries, dials, socks, store, toAdd, events, w>>

Status == {"idle", "pending", "running"}
Entry == [status : Status, so : 0..MaxSocks, dial : 0..MaxDials]
Dial == [key : Keys, cancelled : BOOLEAN, pc : {"dial", "register", "done"},
         so : 0..MaxSocks]
Sock == [key : Keys, open : BOOLEAN, ctx : Keys \cup {NoKey},
         loop : {"run", "onclose", "done"}, seen : Keys \cup {NoKey}]

TypeOK ==
    /\ DOMAIN m \subseteq Keys
    /\ \A k \in DOMAIN m : m[k] \in DOMAIN entries
    /\ \A e \in DOMAIN entries : entries[e] \in Entry
    /\ Len(dials) <= MaxDials /\ \A d \in DOMAIN dials : dials[d] \in Dial
    /\ \A d \in DOMAIN dials : dials[d].pc = "register" => dials[d].so \in DOMAIN socks
    /\ Len(socks) <= MaxSocks /\ \A s \in DOMAIN socks : socks[s] \in Sock
    /\ store \subseteq Keys /\ toAdd \subseteq Keys
    /\ events \in 0..MaxEvents
    /\ w.pc \in {"idle", "cancel", "close", "remove"}

Init ==
    /\ m = <<>>
    /\ entries = <<>>
    /\ dials = <<>>
    /\ socks = <<>>
    /\ store = Keys
    /\ toAdd = Keys
    /\ events = MaxEvents
    /\ w = [pc |-> "idle", key |-> NoKey, e |-> 0]

ActiveDial(d) == dials[d].pc # "done"

\* A dial goroutine is running the registration handshake on socket s.
Registering(s) == \E d \in DOMAIN dials : dials[d].so = s /\ dials[d].pc = "register"

-----------------------------------------------------------------------------
(* _GWList.Add, whole under the lock: create the entry if absent; return  *)
(* if a dial is pending; otherwise detach and close a running socket,     *)
(* make a new cancellable context, mark the entry pending and spawn dial. *)
(* sk is the socket table as the calling step leaves it.                  *)
Add(k, sk) ==
    LET new == k \notin DOMAIN m
        e   == IF new THEN Len(entries) + 1 ELSE m[k]
        ent == IF new THEN [status |-> "idle", so |-> 0, dial |-> 0]
                      ELSE entries[e]
        es  == IF new THEN Append(entries, ent) ELSE entries
    IN /\ m' = IF new THEN m @@ (k :> e) ELSE m
       /\ IF ent.status = "pending"
          THEN /\ entries' = es
               /\ socks' = sk
               /\ UNCHANGED dials
          ELSE /\ Len(dials) < MaxDials
               /\ dials' = Append(dials, [key |-> k, cancelled |-> FALSE,
                                          pc |-> "dial", so |-> 0])
               /\ entries' = [es EXCEPT ![e] = [status |-> "pending",
                                 so |-> ent.so, dial |-> Len(dials) + 1]]
               /\ socks' = IF ent.status = "running"
                           THEN [sk EXCEPT ![ent.so].ctx = NoKey,
                                           ![ent.so].open = FALSE]
                           ELSE sk

\* dialGateway / fetchGateway: every address found at startup is Added.
StartAdd(k) ==
    /\ k \in toAdd
    /\ Add(k, socks)
    /\ toAdd' = toAdd \ {k}
    /\ UNCHANGED <<store, events, w>>

-----------------------------------------------------------------------------
(* The dial goroutine.                                                     *)

\* case <-ctx.Done(): return
DialCancelled(d) ==
    /\ dials[d].pc = "dial"
    /\ dials[d].cancelled
    /\ dials' = [dials EXCEPT ![d].pc = "done"]
    /\ UNCHANGED <<m, entries, socks, store, toAdd, events, w>>

\* Mutant: the new socket's index is off by one.
DialConnectOffByOne(d) ==
    /\ dials[d].pc = "dial"
    /\ ~dials[d].cancelled
    /\ Len(socks) < MaxSocks
    /\ socks' = Append(socks, [key |-> dials[d].key, open |-> TRUE,
                               ctx |-> NoKey, loop |-> "run", seen |-> NoKey])
    /\ dials' = [dials EXCEPT ![d].pc = "register", ![d].so = Len(socks)]
    /\ UNCHANGED <<m, entries, store, toAdd, events, w>>

\* default: net.Dial succeeds (a failed dial sleeps and loops, changing
\* nothing); NewSocket; so.Start() runs the read loop.
DialConnect(d) ==
    /\ dials[d].pc = "dial"
    /\ ~dials[d].cancelled
    /\ Len(socks) < MaxSocks
    /\ socks' = Append(socks, [key |-> dials[d].key, open |-> TRUE,
                               ctx |-> NoKey, loop |-> "run", seen |-> NoKey])
    /\ dials' = [dials EXCEPT ![d].pc = "register", ![d].so = Len(socks) + 1]
    /\ UNCHANGED <<m, entries, store, toAdd, events, w>>

\* srv.register(so) returns; a connection that is already closed can only
\* fail it.  "timeout" is sendTimeout's "send timeout" (no reply in time);
\* "error" is any other error, among them post's write-deadline error,
\* which reads "timeout: ..." and does not contain "send timeout".
RegResult(d) ==
    IF socks[dials[d].so].open THEN RegOutcomes
    ELSE {"timeout", "error"}

\* Mutant: so.Close() only on the "send timeout" path.
RegisterDoneErrorNoClose(d) ==
    LET k == dials[d].key
        s == dials[d].so
    IN /\ dials[d].pc = "register"
       /\ \E r \in RegResult(d) :
          \/ /\ r = "ok"
             /\ IF k \in DOMAIN m /\ entries[m[k]].status = "pending"
                THEN /\ entries' = [entries EXCEPT ![m[k]] =
                                      [status |-> "running", so |-> s, dial |-> 0]]
                     /\ socks' = [socks EXCEPT ![s].ctx = k]
                ELSE /\ socks' = [socks EXCEPT ![s].open = FALSE]
                     /\ UNCHANGED entries
          \/ /\ r = "timeout"
             /\ entries' = IF k \in DOMAIN m
                           THEN [entries EXCEPT ![m[k]].status = "idle"]
                           ELSE entries
             /\ socks' = [socks EXCEPT ![s].open = FALSE]
          \/ /\ r = "error"
             /\ UNCHANGED <<entries, socks>>
       /\ dials' = [dials EXCEPT ![d].pc = "done"]
       /\ UNCHANGED <<m, store, toAdd, events, w>>

\* Mutant: the installed socket is not tagged with its address.
RegisterDoneNoTag(d) ==
    LET k == dials[d].key
        s == dials[d].so
    IN /\ dials[d].pc = "register"
       /\ \E r \in RegResult(d) :
          \/ /\ r = "ok"
             /\ IF k \in DOMAIN m /\ entries[m[k]].status = "pending"
                THEN /\ entries' = [entries EXCEPT ![m[k]] =
                                      [status |-> "running", so |-> s, dial |-> 0]]
                     /\ UNCHANGED socks
                ELSE /\ socks' = [socks EXCEPT ![s].open = FALSE]
                     /\ UNCHANGED entries
          \/ /\ r = "timeout"
             /\ entries' = IF k \in DOMAIN m
                           THEN [entries EXCEPT ![m[k]].status = "idle"]
                           ELSE entries
             /\ socks' = [socks EXCEPT ![s].open = FALSE]
          \/ /\ r = "error"
             /\ socks' = [socks EXCEPT ![s].open = FALSE]
             /\ UNCHANGED entries
       /\ dials' = [dials EXCEPT ![d].pc = "done"]
       /\ UNCHANGED <<m, store, toAdd, events, w>>

\* After register: on "send timeout" demote the current entry to idle;
\* on any error close the socket and end the dial.  On success, under the
\* lock, install the socket if the entry for the address is still pending
\* (SetContext(key) makes its loss re-Add the address); else close it.
RegisterDone(d) ==
    LET k == dials[d].key
        s == dials[d].so
    IN /\ dials[d].pc = "register"
       /\ \E r \in RegResult(d) :
          \/ /\ r = "ok"
             /\ IF k \in DOMAIN m /\ entries[m[k]].status = "pending"
                THEN /\ entries' = [entries EXCEPT ![m[k]] =
                                      [status |-> "running", so |-> s, dial |-> 0]]
                     /\ socks' = [socks EXCEPT ![s].ctx = k]
                ELSE /\ socks' = [socks EXCEPT ![s].open = FALSE]
                     /\ UNCHANGED entries
          \/ /\ r = "timeout"
             /\ entries' = IF k \in DOMAIN m
                           THEN [entries EXCEPT ![m[k]].status = "idle"]
                           ELSE entries
             /\ socks' = [socks EXCEPT ![s].open = FALSE]
          \/ /\ r = "error"
             /\ socks' = [socks EXCEPT ![s].open = FALSE]
             /\ UNCHANGED entries
       /\ dials' = [dials EXCEPT ![d].pc = "done"]
       /\ UNCHANGED <<m, store, toAdd, events, w>>

-----------------------------------------------------------------------------
(* Sockets: a connection drops (read error, or OnTimeout closing it after  *)
(* failed pings); its read loop ends and the deferred Notify.OnClose reads *)
(* the socket's context, then re-Adds that address.  Drops stop while    *)
(* every address can still get one more dial and connection, so the      *)
(* bounds never starve a reconnection.                                    *)

CanFail(s) ==
    /\ Len(socks) + Cardinality(Keys) < MaxSocks
    /\ Len(dials) + Cardinality(Keys) < MaxDials
    /\ FailDuringRegister \/ ~Registering(s)

SockFail(s) ==
    /\ socks[s].open
    /\ CanFail(s)
    /\ socks' = [socks EXCEPT ![s].open = FALSE]
    /\ UNCHANGED <<m, entries, dials, store, toAdd, events, w>>

\* so.GetContext().(string)
OnCloseEnter(s) ==
    /\ socks[s].loop = "run"
    /\ ~socks[s].open
    /\ socks' = [socks EXCEPT ![s].loop = "onclose", ![s].seen = socks[s].ctx]
    /\ UNCHANGED <<m, entries, dials, store, toAdd, events, w>>

\* if ok { gwList.Add(key) }; then the deferred so.Close().
OnCloseAdd(s) ==
    LET sk == [socks EXCEPT ![s].loop = "done"]
    IN /\ socks[s].loop = "onclose"
       /\ IF socks[s].seen \in Keys
          THEN Add(socks[s].seen, sk)
          ELSE /\ socks' = sk
               /\ UNCHANGED <<m, entries, dials>>
       /\ UNCHANGED <<store, toAdd, events, w>>

-----------------------------------------------------------------------------
(* The watch goroutine (watchGateway), after the startup listing.  Events *)
(* are handled one at a time; a DELETE runs Del to its end before the     *)
(* next event.  Del takes and releases the lock at once, then works on    *)
(* the entry pointer it looked up without holding the lock.               *)

WatchReady == toAdd = {} /\ w.pc = "idle" /\ events > 0

\* case "PUT": gwList.Add(key)
WatchPut(k) ==
    /\ WatchReady
    /\ store' = store \cup {k}
    /\ events' = events - 1
    /\ Add(k, socks)
    /\ UNCHANGED <<toAdd, w>>

\* case "DELETE": gwList.Del(key) up to gw, ok := this.m[key]; if !ok return
WatchDelete(k) ==
    /\ WatchReady
    /\ store' = store \ {k}
    /\ events' = events - 1
    /\ w' = IF k \in DOMAIN m THEN [pc |-> "cancel", key |-> k, e |-> m[k]]
                              ELSE w
    /\ UNCHANGED <<m, entries, dials, socks, toAdd>>

\* if gw.status == PENDING { gw.cancelFn() }
DelCancel ==
    /\ w.pc = "cancel"
    /\ LET ent == entries[w.e]
       IN dials' = IF ent.status = "pending"
                   THEN [dials EXCEPT ![ent.dial].cancelled = TRUE]
                   ELSE dials
    /\ w' = [w EXCEPT !.pc = "close"]
    /\ UNCHANGED <<m, entries, socks, store, toAdd, events>>

\* if gw.status == RUNNING { gw.so.Close() }
DelClose ==
    /\ w.pc = "close"
    /\ LET ent == entries[w.e]
       IN socks' = IF ent.status = "running"
                   THEN [socks EXCEPT ![ent.so].open = FALSE]
                   ELSE socks
    /\ w' = [w EXCEPT !.pc = "remove"]
    /\ UNCHANGED <<m, entries, dials, store, toAdd, events>>

\* delete(this.m, key): removes whatever entry the key holds now.
DelRemove ==
    /\ w.pc = "remove"
    /\ m' = [k \in DOMAIN m \ {w.key} |-> m[k]]
    /\ w' = [pc |-> "idle", key |-> NoKey, e |-> 0]
    /\ UNCHANGED <<entries, dials, socks, store, toAdd, events>>

-----------------------------------------------------------------------------
Dialer(d) == DialCancelled(d) \/ DialConnect(d) \/ RegisterDone(d)

Next ==
    \/ \E d \in DOMAIN dials :
          DialCancelled(d) \/ DialConnect(d) \/ RegisterDone(d)
    \/ \E s \in DOMAIN socks : SockFail(s) \/ OnCloseEnter(s) \/ OnCloseAdd(s)
    \/ \E k \in Keys : StartAdd(k) \/ WatchPut(k) \/ WatchDelete(k)
    \/ DelCancel \/ DelClose \/ DelRemove

Spec == Init /\ [][Next]_vars

(* Fairness.  Every goroutine that can run eventually does: the dial loop, *)
(* read loops running OnClose, and the watcher's startup Adds and Del.     *)
(* DialConnect is weakly fair: the dial loop retries every 5 s, and an     *)
(* address that stays in the pool is assumed to accept eventually.         *)
(* Discovery events and connection drops are the environment's and are    *)
(* not fair.                                                               *)
FairSpec ==
    /\ Spec
    /\ \A d \in 1..MaxDials : WF_vars(d \in DOMAIN dials /\ Dialer(d))
    /\ \A s \in 1..MaxSocks :
          WF_vars(s \in DOMAIN socks /\ (OnCloseEnter(s) \/ OnCloseAdd(s)))
    /\ WF_vars(\E k \in Keys : StartAdd(k))
    /\ WF_vars(DelCancel \/ DelClose \/ DelRemove)

-----------------------------------------------------------------------------
(* Properties.                                                             *)

\* An address is healthy when its entry is running on an open connection.
Healed(k) ==
    k \in DOMAIN m /\ entries[m[k]].status = "running"
                   /\ socks[entries[m[k]].so].open

(* A pending entry always has a live dial goroutine working for it: Add  *)
(* returns early on a pending entry, so a pending entry nobody dials for  *)
(* is never dialled again (dial's failure paths in connect.go).  An entry *)
(* the watcher is deleting is exempt.                                     *)
PendingHasDial ==
    \A k \in DOMAIN m :
        entries[m[k]].status = "pending" /\ ~(w.pc # "idle" /\ w.key = k) =>
            \E d \in DOMAIN dials : dials[d].key = k /\ ActiveDial(d)

(* Every open connection is owned: either its dial goroutine is still     *)
(* registering it, or it is the running connection the pool holds for    *)
(* the address in its context.  No connection is leaked open and         *)
(* registered with nobody to close it; about dial's failure and install  *)
(* paths, and the install racing Del, which runs without the lock.       *)
NoLeakedSocket ==
    \A s \in DOMAIN socks :
        socks[s].open =>
            \/ Registering(s)
            \/ LET k == socks[s].ctx
               IN k \in DOMAIN m /\ entries[m[k]].status = "running"
                                 /\ entries[m[k]].so = s

(* Once the watcher has finished a DELETE, an address no longer in etcd   *)
(* has no pool entry until a later PUT (spec, section 8).  About Del      *)
(* closing a running connection whose context still names the address,   *)
(* so that OnClose re-Adds it.                                            *)
NoEntryAfterDelete ==
    w.pc = "idle" => \A k \in Keys \ store : k \notin DOMAIN m

(* Under etcd discovery, an address that ends up staying in etcd ends up  *)
(* running on an open connection, whatever PUT, DELETE, drop and dial     *)
(* interleavings came before; about Del and Add racing the dial goroutine *)
(* and OnClose.                                                           *)
StoredHeals == \A k \in Keys : <>[](k \in store) => <>[]Healed(k)
=============================================================================

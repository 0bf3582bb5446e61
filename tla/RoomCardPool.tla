---------------------------- MODULE RoomCardPool ----------------------------
(***************************************************************************)
(* The room-card pool of the game SDK (src/gamesdk/pkg/game/room.go).      *)
(* A game server keeps a slice `shared` of room-card ids it obtained from  *)
(* the dispatch server: shared[0..freeIdx) are handed out (their slice    *)
(* index is kept in `used`), shared[freeIdx..pendingIdx) may be handed    *)
(* out, and shared[pendingIdx..) is being given back.  GetRoomCardID and  *)
(* ReleaseRoomCardID run under the pool mutex.  They, and the loopFree    *)
(* timer, start `new` (scale up) and `free` (scale down) goroutines; each *)
(* of those takes the mutex, marks `status`, calls the dispatch server    *)
(* with the mutex released, and takes it again in a deferred block to     *)
(* apply the answer.  GetRoomCardID on an exhausted pool drops the mutex  *)
(* and runs `new` itself.                                                 *)
(*                                                                         *)
(* Every locked section is one action.  Slice indices are Go's, from 0:  *)
(* At(i) is shared[i].  The thresholds are the rationals UpNum/Den and    *)
(* DownNum/Den.  The dispatch server is not part of this repository: it  *)
(* is the set `dispatch` of ids it may still assign, it assigns distinct *)
(* ids from it and takes back the ids it is given.  A call to it may     *)
(* succeed, fail before it acts ("error"), or act and lose its answer    *)
(* ("lost"): the outcomes RpcOutcomes allows.                            *)
(***************************************************************************)
EXTENDS Integers, Sequences, FiniteSets, SequencesExt

CONSTANTS
    Cards,          \* room-card ids the dispatch server can hand out
    InitialSize,    \* initialSize
    ScaleUpSize,    \* scaleUpSizePerTime
    ScaleDownSize,  \* scaleDownSizePerTime
    UpNum,          \* scaleUpThreshold   = UpNum / Den
    DownNum,        \* scaleDownThreshold = DownNum / Den
    Den,
    RpcOutcomes,    \* what a call to the dispatch server may come to
    MaxGets,        \* bound on GetRoomCardID calls
    MaxSpawn        \* bound on new/free goroutines started

ASSUME /\ InitialSize \in 1..Cardinality(Cards)
       /\ {ScaleUpSize, ScaleDownSize} \subseteq Nat
       /\ 0 <= DownNum /\ DownNum < UpNum /\ UpNum <= Den
       /\ RpcOutcomes \subseteq {"ok", "error", "lost"}
       /\ {MaxGets, MaxSpawn} \subseteq Nat

VARIABLES
    shared,       \* the card slice
    used,         \* card -> its index in shared, for cards handed out
    freeIdx,
    pendingIdx,
    currentSize,
    status,       \* "NOOP", "NEW" or "FREE"
    dispatch,     \* ids the dispatch server may assign
    held,         \* ids the game holds (returned by GetRoomCardID)
    gs,           \* running new/free calls, goroutines or a Get's own
    spawned,      \* goroutines started so far
    gets,         \* GetRoomCardID calls so far
    crashed       \* a call panicked (index out of range, nil entry)

vars == <<shared, used, freeIdx, pendingIdx, currentSize, status, dispatch,
          held, gs, spawned, gets, crashed>>

(* A new or free call.  caller is "go" for a goroutine and "get" for the  *)
(* call GetRoomCardID makes itself; n is the number of ids asked for, ids *)
(* the ids handed back and k the number free will cut off.               *)
Call == [fn : {"new", "free"}, pc : {"start", "rpc", "spin", "ret"},
         caller : {"go", "get"}, cur : Nat, n : Nat, ids : Seq(Cards),
         k : Int, err : BOOLEAN]

TypeOK ==
    /\ shared \in Seq(Cards)
    /\ DOMAIN used \subseteq Cards /\ used \in [DOMAIN used -> Nat]
    /\ {freeIdx, pendingIdx, currentSize} \subseteq Nat
    /\ status \in {"NOOP", "NEW", "FREE"}
    /\ dispatch \subseteq Cards /\ held \subseteq Cards
    /\ gs \in Seq(Call)
    /\ spawned \in 0..MaxSpawn /\ gets \in 0..MaxGets
    /\ crashed \in BOOLEAN

At(i) == shared[i + 1]

\* The slice with the elements at Go indices i and j exchanged.
Swap(s, i, j) == [s EXCEPT ![i + 1] = s[j + 1], ![j + 1] = s[i + 1]]

\* n distinct ids of the set free (all of them, if fewer).
Grants(n, free) ==
    LET c == IF n < Cardinality(free) THEN n ELSE Cardinality(free)
    IN {s \in [1..c -> free] : IsInjective(s)}

\* float64(freeIdx) >= float64(currentSize) * scaleUpThreshold
AtScaleUp(fi, cur) == fi * Den >= cur * UpNum

\* float64(freeIdx) <= float64(currentSize)*scaleDownThreshold && currentSize > initialSize
AtScaleDown(fi, cur) == fi * Den <= cur * DownNum /\ cur > InitialSize

NewGo(cur) == [fn |-> "new", pc |-> "start", caller |-> "go", cur |-> cur,
               n |-> 0, ids |-> <<>>, k |-> 0, err |-> FALSE]
FreeGo(cur) == [NewGo(cur) EXCEPT !.fn = "free"]

\* go rcPool.new(...) / go rcPool.free(...): start g if cond holds; calls
\* is the list of calls the step leaves otherwise.
Spawn(cond, g, calls) ==
    IF cond THEN /\ spawned < MaxSpawn
                 /\ gs' = Append(calls, g)
                 /\ spawned' = spawned + 1
            ELSE /\ gs' = calls
                 /\ UNCHANGED spawned

\* A call returns: a goroutine ends; GetRoomCardID's own new hands its
\* error back to GetRoomCardID.
Return(i, err) ==
    IF gs[i].caller = "go"
    THEN gs' = RemoveAt(gs, i)
    ELSE gs' = [gs EXCEPT ![i].pc = "ret", ![i].err = err]

\* No goroutine is looping in free with the mutex held.
Unlocked == \A i \in DOMAIN gs : gs[i].pc # "spin"

LockFree == Unlocked /\ ~crashed

-----------------------------------------------------------------------------
Init ==
    \* StartRoomCardPool: new(0) is retried until it succeeds; then the
    \* loopFree timer starts and the pool is published.
    /\ \E ids \in Grants(InitialSize, Cards) :
          /\ shared = ids
          /\ dispatch = Cards \ ToSet(ids)
          /\ currentSize = Len(ids)
          /\ pendingIdx = Len(ids)
    /\ used = <<>>
    /\ freeIdx = 0
    /\ status = "NOOP"
    /\ held = {}
    /\ gs = <<>>
    /\ spawned = 0
    /\ gets = 0
    /\ crashed = FALSE

-----------------------------------------------------------------------------
(* GetRoomCardID after the exhaustion check, under the mutex: refuse while *)
(* the rest of the pool is being given back; start a scale-up goroutine    *)
(* at the threshold; hand out shared[freeIdx].                            *)
Take(calls) ==
    IF freeIdx >= pendingIdx
    THEN /\ gs' = calls
         /\ UNCHANGED <<shared, used, freeIdx, pendingIdx, currentSize, status,
                        dispatch, held, spawned, crashed>>
    ELSE /\ Spawn(AtScaleUp(freeIdx, currentSize), NewGo(currentSize), calls)
         /\ used' = (At(freeIdx) :> freeIdx) @@ used
         /\ freeIdx' = freeIdx + 1
         /\ held' = held \cup {At(freeIdx)}
         /\ UNCHANGED <<shared, pendingIdx, currentSize, status, dispatch, crashed>>

(* GetRoomCardID: on an exhausted pool, unlock and run new(currentSize)    *)
(* (GetResume continues once it returns); otherwise Take.                  *)
GetRoomCardID ==
    /\ LockFree
    /\ gets < MaxGets
    /\ gets' = gets + 1
    /\ IF freeIdx >= currentSize
       THEN /\ gs' = Append(gs, [NewGo(currentSize) EXCEPT !.caller = "get"])
            /\ UNCHANGED <<shared, used, freeIdx, pendingIdx, currentSize, status,
                           dispatch, held, spawned, crashed>>
       ELSE Take(gs)

\* rcPool.Lock(); if err != nil { return "", err }; then as Take.
GetResume(i) ==
    /\ LockFree
    /\ gs[i].caller = "get" /\ gs[i].pc = "ret"
    /\ IF gs[i].err
       THEN /\ gs' = RemoveAt(gs, i)
            /\ UNCHANGED <<shared, used, freeIdx, pendingIdx, currentSize, status,
                           dispatch, held, spawned, crashed>>
       ELSE Take(RemoveAt(gs, i))
    /\ UNCHANGED gets

(* new, first locked section: return if the size changed since the call   *)
(* was made or another new is marked; mark NEW; ask for initialSize ids   *)
(* on an empty pool, scaleUpSizePerTime otherwise, and return at once    *)
(* (leaving NEW marked) when that is 0.                                  *)
NewStart(i) ==
    /\ LockFree
    /\ gs[i].fn = "new" /\ gs[i].pc = "start"
    /\ LET n == IF currentSize = 0 THEN InitialSize ELSE ScaleUpSize
       IN CASE currentSize # gs[i].cur -> Return(i, FALSE) /\ UNCHANGED status
            [] status = "NEW"          -> Return(i, TRUE) /\ UNCHANGED status
            [] n = 0                   -> Return(i, FALSE) /\ status' = "NEW"
            [] OTHER -> /\ gs' = [gs EXCEPT ![i].pc = "rpc", ![i].n = n]
                        /\ status' = "NEW"
    /\ UNCHANGED <<shared, used, freeIdx, pendingIdx, currentSize, dispatch,
                   held, spawned, gets, crashed>>

(* new: sdk.SendRequest(F_ID_ASSIGN_ROOM_CARD_IDS) and the deferred block  *)
(* under the mutex: append the ids received (none on an error), add their *)
(* number to currentSize, clear the status, reopen the whole slice.      *)
NewReply(i) ==
    /\ LockFree
    /\ gs[i].fn = "new" /\ gs[i].pc = "rpc"
    /\ \E o \in RpcOutcomes, ids \in Grants(gs[i].n, dispatch) :
          LET got == IF o = "ok" THEN ids ELSE <<>>
          IN /\ dispatch' = IF o = "error" THEN dispatch ELSE dispatch \ ToSet(ids)
             /\ shared' = shared \o got
             /\ currentSize' = currentSize + Len(got)
             /\ pendingIdx' = currentSize + Len(got)
             /\ Return(i, o # "ok")
    /\ status' = "NOOP"
    /\ UNCHANGED <<used, freeIdx, held, spawned, gets, crashed>>

(* free's loop "if the usage after scaling down reaches the scale-up      *)
(* threshold, scale down less": freeIdx/(currentSize-k) is an int32       *)
(* division.  -1 when k has reached 0 and the test still holds: the loop *)
(* never ends.                                                            *)
RECURSIVE Shrink(_)
Shrink(k) ==
    IF (freeIdx \div (currentSize - k)) * Den >= UpNum
    THEN IF k = 0 THEN -1 ELSE Shrink(k \div 2)
    ELSE k

(* free, first locked section: return if the size changed or another free *)
(* is marked; mark FREE; return (leaving FREE marked) when scaling down is *)
(* off; cut at most down to initialSize, less while the usage test holds; *)
(* close shared[len-k..) to GetRoomCardID and send it back.               *)
FreeStart(i) ==
    /\ LockFree
    /\ gs[i].fn = "free" /\ gs[i].pc = "start"
    /\ LET k0 == IF currentSize - ScaleDownSize < InitialSize
                 THEN currentSize - InitialSize ELSE ScaleDownSize
           k  == Shrink(k0)
       IN CASE currentSize # gs[i].cur \/ status = "FREE" ->
                  Return(i, TRUE) /\ UNCHANGED <<status, pendingIdx>>
            [] ScaleDownSize = 0 ->
                  Return(i, FALSE) /\ status' = "FREE" /\ UNCHANGED pendingIdx
            [] k < 0 ->
                  /\ gs' = [gs EXCEPT ![i].pc = "spin"]
                  /\ status' = "FREE"
                  /\ UNCHANGED pendingIdx
            [] OTHER ->
                  /\ gs' = [gs EXCEPT ![i].pc = "rpc", ![i].k = k,
                              ![i].ids = SubSeq(shared, Len(shared) - k + 1, Len(shared))]
                  /\ pendingIdx' = Len(shared) - k
                  /\ status' = "FREE"
    /\ UNCHANGED <<shared, used, freeIdx, currentSize, dispatch, held, spawned,
                   gets, crashed>>

(* free: sdk.SendRequest(F_ID_REVOKE_ROOM_CARD_IDS) and the deferred block *)
(* under the mutex: cut the last k elements off the slice as it is now    *)
(* (none if the call failed), set currentSize to what is left, clear the *)
(* status and reopen the whole slice.                                     *)
FreeReply(i) ==
    /\ LockFree
    /\ gs[i].fn = "free" /\ gs[i].pc = "rpc"
    /\ \E o \in RpcOutcomes :
          LET k == IF o = "ok" THEN gs[i].k ELSE 0
          IN /\ dispatch' = IF o = "error" THEN dispatch
                            ELSE dispatch \cup ToSet(gs[i].ids)
             /\ IF k > Len(shared)
                THEN /\ crashed' = TRUE
                     /\ UNCHANGED <<shared, currentSize, pendingIdx, status, gs>>
                ELSE /\ shared' = SubSeq(shared, 1, Len(shared) - k)
                     /\ currentSize' = Len(shared) - k
                     /\ pendingIdx' = Len(shared) - k
                     /\ status' = "NOOP"
                     /\ Return(i, o # "ok")
                     /\ UNCHANGED crashed
    /\ UNCHANGED <<used, freeIdx, held, spawned, gets>>

\* loopFree, every RCPOOL_RELEASE_INTERVAL under the mutex: start a free at
\* the scale-down threshold (otherwise it only re-arms its timer).
LoopFree ==
    /\ LockFree
    /\ AtScaleDown(freeIdx, currentSize)
    /\ Spawn(TRUE, FreeGo(currentSize), gs)
    /\ UNCHANGED <<shared, used, freeIdx, pendingIdx, currentSize, status,
                   dispatch, held, gets, crashed>>

(* ReleaseRoomCardID(id), under the mutex: refuse on an unused pool or an *)
(* unknown id; otherwise move the last card handed out into id's slot     *)
(* and re-index it, forget id, swap shared[freeIdx] with a random slot of *)
(* [freeIdx, pendingIdx), and start a free at the scale-down threshold.  *)
(* Reading a slot past the slice, or re-indexing an id that has no entry, *)
(* panics.                                                                *)
ReleaseRoomCardID(id) ==
    /\ LockFree
    /\ id \in held
    /\ held' = held \ {id}
    /\ IF freeIdx = 0 \/ id \notin DOMAIN used
       THEN UNCHANGED <<shared, used, freeIdx, pendingIdx, currentSize, status,
                        dispatch, gs, spawned, gets, crashed>>
       ELSE LET fi   == freeIdx - 1
                e    == used[id]
                ok   == fi = 0 \/ (fi < Len(shared) /\ e < Len(shared))
                s1   == IF fi # 0 /\ ok THEN Swap(shared, fi, e) ELSE shared
                moved == IF fi # 0 /\ ok THEN s1[e + 1] ELSE id
                u1   == IF moved \in DOMAIN used THEN [used EXCEPT ![moved] = e] ELSE used
                size == pendingIdx - fi
            IN IF ~ok \/ moved \notin DOMAIN used \/ pendingIdx > Len(shared)
               THEN /\ crashed' = TRUE
                    /\ UNCHANGED <<shared, used, freeIdx, pendingIdx, currentSize,
                                   status, dispatch, gs, spawned, gets>>
               ELSE /\ \E j \in IF size > 0 THEN fi..(pendingIdx - 1) ELSE {-1} :
                          shared' = IF size > 0 THEN Swap(s1, fi, j) ELSE s1
                    /\ used' = [c \in DOMAIN u1 \ {id} |-> u1[c]]
                    /\ freeIdx' = fi
                    /\ Spawn(AtScaleDown(fi, currentSize), FreeGo(currentSize), gs)
                    /\ UNCHANGED <<pendingIdx, currentSize, status, dispatch,
                                   gets, crashed>>

-----------------------------------------------------------------------------
Next ==
    \/ GetRoomCardID
    \/ \E id \in held : ReleaseRoomCardID(id)
    \/ LoopFree
    \/ \E i \in DOMAIN gs :
          GetResume(i) \/ NewStart(i) \/ NewReply(i) \/ FreeStart(i) \/ FreeReply(i)

Spec == Init /\ [][Next]_vars

-----------------------------------------------------------------------------
(* Every card is owned once: the pool's slice holds no id twice and none  *)
(* that the dispatch server may assign again.  About new and free running *)
(* at once (free's deferred block cuts the tail of the slice as new left  *)
(* it) and about a revoke whose answer is lost.                           *)
CardsOwnedOnce ==
    /\ IsInjective(shared)
    /\ ToSet(shared) \cap dispatch = {}

(* The cards handed out are exactly the ones `used` indexes, freeIdx      *)
(* counts them, and each sits at its recorded slot of the slice: about    *)
(* ReleaseRoomCardID's swap and re-index, and free cutting the slice.     *)
UsedIndexed ==
    /\ DOMAIN used = held
    /\ Cardinality(held) = freeIdx
    /\ \A c \in DOMAIN used : used[c] < Len(shared) /\ At(used[c]) = c

(* No free goroutine loops forever holding the pool mutex (which would    *)
(* block every GetRoomCardID and ReleaseRoomCardID): about the int32      *)
(* division in free's scale-down loop.                                    *)
MutexReleased == Unlocked
=============================================================================

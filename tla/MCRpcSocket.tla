---------------------------- MODULE MCRpcSocket ----------------------------
(* Instantiation of RpcSocket for TLC: two concurrent callers, up to three *)
(* calls (enough for one call to time out and a later one to reuse        *)
(* nothing of it), a channel of capacity one.  requestID is a uint32;    *)
(* TLC's integers are 32-bit signed, so the id space is 2^30: with at     *)
(* most MaxCalls ids ever drawn, no id wraps in either space.             *)
EXTENDS RpcSocket

CONSTANTS c1, c2

MCCallers == {c1, c2}
MCIdSpace == 2^30

\* Call and duplicate bounds per variant: both variants in one run, and one
\* variant at a time.
MCBothCalls == ("core" :> 3) @@ ("http" :> 2)
MCBothDup   == ("core" :> 0) @@ ("http" :> 1)
MCCalls2    == [v \in {"core", "http"} |-> 2]
MCCalls3    == [v \in {"core", "http"} |-> 3]
MCDup0      == [v \in {"core", "http"} |-> 0]
MCDup1      == [v \in {"core", "http"} |-> 1]

=============================================================================

------------------------------ MODULE RpcCall ------------------------------
(***************************************************************************)
(* What Socket.Send promises its callers, with no channels, locks or        *)
(* request ids: every call is numbered when it starts; the peer may answer  *)
(* any call that has started; a call returns exactly once, either with the  *)
(* answer to itself or with an error / timeout and no answer.               *)
(***************************************************************************)
EXTENDS Naturals

CONSTANTS Callers, MaxCalls

VARIABLES
    active,    \* active[c]: number of the call c is inside, 0 when idle
    issued,    \* how many calls have started
    answered,  \* calls the peer has answered
    outcome    \* outcome[c]: what c's last call returned

vars == <<active, issued, answered, outcome>>

NoOutcome == [res |-> "none", rsp |-> 0]

Outcomes == [res : {"none", "ok", "timeout", "error"}, rsp : 0..MaxCalls]

TypeOK ==
    /\ active \in [Callers -> 0..MaxCalls]
    /\ issued \in 0..MaxCalls
    /\ answered \subseteq 1..MaxCalls
    /\ outcome \in [Callers -> Outcomes]

Init ==
    /\ active = [c \in Callers |-> 0]
    /\ issued = 0
    /\ answered = {}
    /\ outcome = [c \in Callers |-> NoOutcome]

Call(c) ==
    /\ active[c] = 0
    /\ issued < MaxCalls
    /\ issued' = issued + 1
    /\ active' = [active EXCEPT ![c] = issued + 1]
    /\ outcome' = [outcome EXCEPT ![c] = NoOutcome]
    /\ UNCHANGED answered

Answer(n) ==
    /\ n \in 1..issued \ answered
    /\ answered' = answered \cup {n}
    /\ UNCHANGED <<active, issued, outcome>>

\* A call returns its own answer, or fails without one.
Return(c) ==
    /\ active[c] # 0
    /\ \/ /\ active[c] \in answered
          /\ outcome' = [outcome EXCEPT ![c] = [res |-> "ok", rsp |-> active[c]]]
       \/ \E r \in {"timeout", "error"} :
             outcome' = [outcome EXCEPT ![c] = [res |-> r, rsp |-> 0]]
    /\ active' = [active EXCEPT ![c] = 0]
    /\ UNCHANGED <<issued, answered>>

Next ==
    \/ \E c \in Callers : Call(c) \/ Return(c)
    \/ \E n \in 1..MaxCalls : Answer(n)

Spec == Init /\ [][Next]_vars

\* Every call that starts returns.
LiveSpec == Spec /\ \A c \in Callers : WF_vars(Return(c))
=============================================================================

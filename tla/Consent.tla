------------------------------ MODULE Consent ------------------------------
(***************************************************************************)
(* What the control channel promises its operator, without sockets,        *)
(* replies, records or restarts: nothing is done but what the operator was *)
(* asked to confirm, and only while that stands; what was confirmed is     *)
(* done at most once, and no request is done twice                         *)
(* (specs/SPEC-controller-control-ui.md, "Command set and confirmation").  *)
(***************************************************************************)
EXTENDS Sequences

CONSTANTS None, Nonces, Requests, Actions, Scopes

VARIABLES
    offered,   \* the nonces given out so far
    standing,  \* by nonce: the action and the scopes that it still confirms, or None
    done       \* what was done, in order: at whose request, with which nonce

Init == offered = {} /\ standing = [n \in Nonces |-> None] /\ done = <<>>

Offer(n) ==
    /\ n \notin offered /\ offered' = offered \cup {n}
    /\ \E action \in Actions, parts \in SUBSET Scopes :
           standing' = [standing EXCEPT ![n] = [action |-> action, parts |-> parts]]
    /\ UNCHANGED done

\* Offers run out, are turned down, come to nothing or are lost with the process.
Lapse ==
    /\ UNCHANGED <<offered, done>>
    /\ \E S \in SUBSET Nonces :
           standing' = [n \in Nonces |-> IF n \in S THEN None ELSE standing[n]]

Act(r, n) ==
    /\ standing[n] # None
    /\ \A k \in DOMAIN done : done[k].request # r
    /\ \E scope \in standing[n].parts : done' = Append(done,
           [request |-> r, nonce |-> n, action |-> standing[n].action, scope |-> scope])
    /\ standing' = [standing EXCEPT ![n] = None]
    /\ UNCHANGED offered

Next ==
    \/ \E n \in Nonces : Offer(n)
    \/ Lapse
    \/ \E r \in Requests, n \in Nonces : Act(r, n)
Spec == Init /\ [][Next]_<<offered, standing, done>>
==============================================================================

------------------------------- MODULE Custody -------------------------------
(***************************************************************************)
(* What the acquisition of one item promises to whoever relies on the      *)
(* evidence, without staging files, retries, reviews or restarts: a final  *)
(* file is published at most once and its bytes never change, and the      *)
(* durable record, once it says complete, names exactly these bytes and    *)
(* is never taken back (specs/SPEC-reliable-acquisition.md, "Validation    *)
(* and finalization").                                                     *)
(***************************************************************************)
CONSTANTS Bytes, None

VARIABLES
    published,   \* the bytes under the final name, None while it is free
    recorded     \* the digest of a completed item, None before

Init == published = None /\ recorded = None

Publish ==
    /\ published = None
    /\ published' \in Bytes
    /\ UNCHANGED recorded

Record ==
    /\ published # None /\ recorded = None
    /\ recorded' = published
    /\ UNCHANGED published

Next == Publish \/ Record
Spec == Init /\ [][Next]_<<published, recorded>>
==============================================================================

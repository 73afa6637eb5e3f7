---------------------------- MODULE AtomicUpload ----------------------------
(***************************************************************************)
(* What an object upload promises, without parts, tasks or S3 calls: its   *)
(* object appears under the key in one step; the caller is told that it    *)
(* succeeded only after that, and from then on the upload leaves the key   *)
(* alone, but for a write that was already on its way a second time; an    *)
(* upload that was withdrawn (its multipart upload aborted) has written    *)
(* nothing and never will.  A caller that was told of an error learns      *)
(* nothing: the object may be there, or may still appear.                  *)
(***************************************************************************)
CONSTANTS Uploads, NoUpload, Keys, KeyOf

VARIABLES
    current,    \* the upload whose object is under each key
    landed,     \* uploads whose object was ever under its key
    withdrawn,  \* uploads that can no longer write
    reply,      \* what the caller of each upload was told
    again       \* uploads with a write that was given up and may still happen

vars == <<current, landed, withdrawn, reply, again>>

Init ==
    /\ current = [k \in Keys |-> NoUpload]
    /\ landed = {}
    /\ withdrawn = {}
    /\ reply = [u \in Uploads |-> "none"]
    /\ again = {}

\* The object of u replaces whatever is under the key.
Land(u) ==
    /\ u \notin withdrawn /\ (reply[u] = "ok" => u \in again)
    /\ current' = [current EXCEPT ![KeyOf[u]] = u]
    /\ landed' = landed \cup {u}
    /\ UNCHANGED <<withdrawn, reply>>

Withdraw(u) ==
    /\ u \notin landed
    /\ withdrawn' = withdrawn \cup {u}
    /\ UNCHANGED <<current, landed, reply>>

Acknowledge(u) ==
    /\ reply[u] = "none" /\ u \in landed
    /\ reply' = [reply EXCEPT ![u] = "ok"]
    /\ UNCHANGED <<current, landed, withdrawn>>

Refuse(u) ==
    /\ reply[u] = "none"
    /\ reply' = [reply EXCEPT ![u] = "error"]
    /\ UNCHANGED <<current, landed, withdrawn>>

\* A write is given up only before its upload is acknowledged.
GivenUpInTime == \A u \in again' \ again : reply[u] # "ok"

Next ==
    /\ \/ \E u \in Uploads : Land(u) \/ Withdraw(u) \/ Acknowledge(u) \/ Refuse(u)
       \/ UNCHANGED <<current, landed, withdrawn, reply>>
    /\ again' \subseteq Uploads /\ GivenUpInTime

Spec == Init /\ [][Next]_vars
=============================================================================

------------------------------- MODULE Deposit -------------------------------
(***************************************************************************)
(* What the deposit service promises its clients, without handlers, files, *)
(* transactions or failures: an identifier is bound to one request, an     *)
(* idempotency key names at most one identifier, a receipt is given only   *)
(* for a deposit that was stored, and a stored deposit leaves the store    *)
(* only through retention.  Module Ingest implements this specification.   *)
(***************************************************************************)
CONSTANTS Ids, Keys, Idems, NoIdem, None, Contents

Request == [key : Keys, idem : Idems, content : Contents]

VARIABLES
    phase,      \* phase[i] \in Phases
    of,         \* of[i]: the request bound to identifier i
    receipts    \* (request, identifier) pairs acknowledged to clients

vars == <<phase, of, receipts>>

Phases == {"free", "offered", "refused", "stored", "retired"}

Init ==
    /\ phase = [i \in Ids |-> "free"]
    /\ of = [i \in Ids |-> None]
    /\ receipts = {}

SameDeposit(r, s) == r.idem # NoIdem /\ r.key = s.key /\ r.idem = s.idem

\* A transfer begins: under a fresh identifier when no identifier carries the
\* idempotency key, again under its own identifier after a refusal.
Offer(i, r) ==
    /\ \/ /\ phase[i] = "free"
          /\ \A j \in Ids : phase[j] # "free" => ~SameDeposit(r, of[j])
       \/ phase[i] = "refused" /\ of[i] = r
    /\ phase' = [phase EXCEPT ![i] = "offered"]
    /\ of' = [of EXCEPT ![i] = r]
    /\ UNCHANGED receipts

Decline(i) ==
    /\ phase[i] = "offered"
    /\ phase' = [phase EXCEPT ![i] = "refused"]
    /\ UNCHANGED <<of, receipts>>

\* The deposit becomes permanent, with or without the client learning of it.
Store(i, told) ==
    /\ phase[i] = "offered"
    /\ phase' = [phase EXCEPT ![i] = "stored"]
    /\ receipts' = IF told THEN receipts \cup {<<of[i], i>>} ELSE receipts
    /\ UNCHANGED of

\* A client asks again and learns of its stored deposit; retention may overtake
\* the answer.
Acknowledge(i) ==
    /\ phase[i] \in {"stored", "retired"}
    /\ receipts' = receipts \cup {<<of[i], i>>}
    /\ UNCHANGED <<phase, of>>

Retire(i) ==
    /\ phase[i] = "stored"
    /\ phase' = [phase EXCEPT ![i] = "retired"]
    /\ UNCHANGED <<of, receipts>>

Restore(i) ==
    /\ phase[i] = "retired"
    /\ phase' = [phase EXCEPT ![i] = "stored"]
    /\ UNCHANGED <<of, receipts>>

Next ==
    \E i \in Ids :
        \/ \E r \in Request : Offer(i, r)
        \/ Decline(i)
        \/ \E told \in BOOLEAN : Store(i, told)
        \/ Acknowledge(i)
        \/ Retire(i)
        \/ Restore(i)

Spec == Init /\ [][Next]_vars
=============================================================================

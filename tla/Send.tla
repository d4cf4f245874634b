-------------------------------- MODULE Send --------------------------------
(***************************************************************************)
(* The way of one file from client.Send over the receiver's gateway to the *)
(* writer.  A send hashes the file, draws one idempotency key and makes at *)
(* most Attempts attempts; attempt a of client c is the exchange <<c, a>>, *)
(* with one gateway handler (Gateway.ServeHTTP), one RoundTrip of the      *)
(* gateway's transport and one writer handler.  The earlier exchanges of a *)
(* client may still be under way when a later one starts.  What the writer *)
(* does with a request is taken from module Deposit, which module Ingest   *)
(* implements; net/http is modelled by what the code relies on.            *)
(*                                                                         *)
(* A client may stall for ever in the middle of its body; connections,     *)
(* storage and the writer fail at most MaxFaults times.  The requests of   *)
(* this client pass every check of their form, so the answers 400, 404,    *)
(* 405, 411, 413 and 415 to malformed requests do not appear.              *)
(***************************************************************************)
EXTENDS Naturals, FiniteSets

CONSTANTS
    Clients,    \* one send each
    Ids,        \* backup identifiers the writer may draw
    Contents,   \* what a file may hold
    Torn,       \* the body of a file that changed while it was read
    Key,        \* the credential the clients share
    NoIdem, None,
    Slots,      \* capacity of Gateway.slots (32 in the code)
    Attempts,   \* attempts of one send (3 in the code)
    MaxFaults

ASSUME BoundsAssumption == Slots \in Nat \ {0} /\ Attempts \in Nat \ {0} /\ MaxFaults \in Nat

VARIABLES
    pc,         \* pc[c]: where client.Send stands, or how it ended
    try,        \* try[c]: attempts made
    file,       \* file[c]: what the file holds now
    digest,     \* digest[c]: the content whose hash the send declares
    gw,         \* gw[x]: the gateway handler of exchange x
    body,       \* body[x]: how much of the body has been read
    sent,       \* sent[x]: the content read so far
    cut,        \* exchanges whose body read the gateway interrupted
    gone,       \* exchanges whose client has disconnected
    broken,     \* exchanges whose connection to the writer is closed
    cancelled,  \* exchanges whose outbound context is cancelled
    rt,         \* rt[x]: result of RoundTrip
    reply,      \* reply[x]: the gateway's answer
    wr,         \* wr[x]: the writer's handler
    ans,        \* ans[x]: the writer's answer
    id,         \* id[x]: the identifier admitted for x
    bytes,      \* bytes[i]: the published file of identifier i
    up,         \* the writer is running
    faults,
    phase, of, receipts

clientVars == <<pc, try, file, digest>>
gatewayVars == <<gw, body, sent, cut, gone, cancelled, rt, reply>>
writerVars == <<wr, ans, id, bytes, up>>
depositVars == <<phase, of, receipts>>
vars == <<clientVars, gatewayVars, broken, writerVars, depositVars, faults>>

D == INSTANCE Deposit WITH Keys <- {Key}, Idems <- Clients

Exchanges == Clients \X (1 .. Attempts)

\* Statuses: 201; 502 and 503; 409 for a deposit still in progress; all others.
Created == "created"
Unavailable == "unavailable"
InProgress == "in progress"
Refused == "refused"
Statuses == {Created, Unavailable, InProgress, Refused}

\* A send always draws a key, and None is no content, identifier or status.
ASSUME ValuesAssumption ==
    /\ NoIdem \notin Clients
    /\ None \notin Contents /\ None \notin Ids /\ None \notin Statuses

Working == {"forward", "grace", "unblock", "cancel", "reply"}
Ended == {"saved", "refused", "unconfirmed"}

TypeOK ==
    /\ pc \in [Clients -> {"hash", "send", "wait"} \cup Ended]
    /\ try \in [Clients -> 0 .. Attempts]
    /\ file \in [Clients -> Contents] /\ digest \in [Clients -> Contents \cup {None}]
    /\ gw \in [Exchanges -> {"none", "arrived", "done"} \cup Working]
    /\ body \in [Exchanges -> {"unread", "part", "whole"}]
    /\ sent \in [Exchanges -> Contents \cup {None, Torn}]
    /\ {cut, gone, broken, cancelled} \subseteq SUBSET Exchanges
    /\ rt \in [Exchanges -> {"none", "running", "error"} \cup Statuses]
    /\ reply \in [Exchanges -> {None} \cup Statuses]
    /\ wr \in [Exchanges -> {"none", "admit", "reading", "published", "over"}]
    /\ ans \in [Exchanges -> {None} \cup Statuses]
    /\ id \in [Exchanges -> Ids \cup {None}]
    /\ bytes \in [Ids -> Contents \cup {None, Torn}]
    /\ up \in BOOLEAN /\ faults \in 0 .. MaxFaults
    /\ phase \in [Ids -> D!Phases] /\ of \in [Ids -> D!Request \cup {None}]

Init ==
    /\ pc = [c \in Clients |-> "hash"]
    /\ try = [c \in Clients |-> 0]
    /\ file \in [Clients -> Contents]
    /\ digest = [c \in Clients |-> None]
    /\ gw = [x \in Exchanges |-> "none"]
    /\ body = [x \in Exchanges |-> "unread"]
    /\ sent = [x \in Exchanges |-> None]
    /\ cut = {} /\ gone = {} /\ broken = {} /\ cancelled = {}
    /\ rt = [x \in Exchanges |-> "none"]
    /\ reply = [x \in Exchanges |-> None]
    /\ wr = [x \in Exchanges |-> "none"]
    /\ ans = [x \in Exchanges |-> None]
    /\ id = [x \in Exchanges |-> None]
    /\ bytes = [i \in Ids |-> None]
    /\ up = TRUE /\ faults = 0
    /\ D!Init

Current(c) == <<c, try[c]>>
Fault == faults < MaxFaults /\ faults' = faults + 1

-----------------------------------------------------------------------------
(* The client *)

\* A plain file is not locked: another program may write it at any time.
FileChanges(c) ==
    /\ Fault
    /\ \E v \in Contents \ {file[c]} : file' = [file EXCEPT ![c] = v]
    /\ UNCHANGED <<pc, try, digest, gatewayVars, broken, writerVars, depositVars>>

Hash(c) ==
    /\ pc[c] = "hash"
    /\ digest' = [digest EXCEPT ![c] = file[c]]
    /\ pc' = [pc EXCEPT ![c] = "send"]
    /\ UNCHANGED <<try, file, gatewayVars, broken, writerVars, depositVars, faults>>

Attempt(c) ==
    /\ pc[c] = "send"
    /\ try' = [try EXCEPT ![c] = @ + 1]
    /\ pc' = [pc EXCEPT ![c] = "wait"]
    /\ gw' = [gw EXCEPT ![<<c, try[c] + 1>>] = "arrived"]
    /\ UNCHANGED <<file, digest, body, sent, cut, gone, cancelled, rt, reply, broken,
                   writerVars, depositVars, faults>>

\* continue: another attempt, or the attempts are exhausted.
Again(c) == pc' = [pc EXCEPT ![c] = IF try[c] = Attempts THEN "unconfirmed" ELSE "send"]

\* The request fails, times out, or its 201 carries no usable receipt.
AttemptFails(c) ==
    /\ pc[c] = "wait" /\ Fault
    /\ gone' = gone \cup {Current(c)}
    /\ Again(c)
    /\ UNCHANGED <<try, file, digest, gw, body, sent, cut, cancelled, rt, reply, broken,
                   writerVars, depositVars>>

\* The context of the send is cancelled, during an attempt or before the next.
Interrupted(c) ==
    /\ pc[c] \in {"send", "wait"} /\ Fault
    /\ gone' = IF pc[c] = "wait" THEN gone \cup {Current(c)} ELSE gone
    /\ pc' = [pc EXCEPT ![c] = "unconfirmed"]
    /\ UNCHANGED <<try, file, digest, gw, body, sent, cut, cancelled, rt, reply, broken,
                   writerVars, depositVars>>

Answered(c) ==
    /\ pc[c] = "wait" /\ gw[Current(c)] = "done"
    /\ CASE reply[Current(c)] = Created -> pc' = [pc EXCEPT ![c] = "saved"]
         [] reply[Current(c)] \in {Unavailable, InProgress} -> Again(c)
         [] OTHER -> pc' = [pc EXCEPT ![c] = "refused"]
    /\ UNCHANGED <<try, file, digest, gatewayVars, broken, writerVars, depositVars, faults>>

KeyPerAttempt(x) == x
\* One key for all attempts of a send.
IdempotencyKey(x) == x[1]
Request(x) == [key |-> Key, idem |-> IdempotencyKey(x), content |-> digest[x[1]]]

-----------------------------------------------------------------------------
(* The gateway *)

Busy == {x \in Exchanges : gw[x] \in Working}

Answer(x, status) ==
    /\ gw' = [gw EXCEPT ![x] = "done"]
    /\ reply' = [reply EXCEPT ![x] = status]

\* httpbody.Interrupt where the declared body may still hold unread data.
InterruptIncomplete(x) == cut' = IF body[x] = "whole" THEN cut ELSE cut \cup {x}

GatewayBusy(x) ==
    /\ gw[x] = "arrived" /\ Cardinality(Busy) >= Slots
    /\ Answer(x, Unavailable)
    /\ cut' = cut \cup {x}
    /\ UNCHANGED <<clientVars, body, sent, gone, cancelled, rt, broken, writerVars,
                   depositVars, faults>>

\* The handler takes a slot and starts RoundTrip, which dials the writer.
Forward(x) ==
    /\ gw[x] = "arrived" /\ Cardinality(Busy) < Slots
    /\ gw' = [gw EXCEPT ![x] = "forward"]
    /\ rt' = [rt EXCEPT ![x] = IF up THEN "running" ELSE "error"]
    /\ wr' = IF up THEN [wr EXCEPT ![x] = "admit"] ELSE wr
    /\ UNCHANGED <<clientVars, body, sent, cut, gone, cancelled, reply, broken,
                   ans, id, bytes, up, depositVars, faults>>

\* The result of RoundTrip arrives, at any point of the handler's wait.
CollectResponse(x) ==
    /\ gw[x] \in {"forward", "grace", "unblock", "cancel"} /\ rt[x] \in Statuses
    /\ gw' = [gw EXCEPT ![x] = "reply"]
    /\ UNCHANGED <<clientVars, body, sent, cut, gone, cancelled, rt, reply, broken,
                   writerVars, depositVars, faults>>

CollectError(x) ==
    /\ gw[x] \in {"forward", "grace", "unblock", "cancel"} /\ rt[x] = "error"
    /\ InterruptIncomplete(x)
    /\ Answer(x, Unavailable)
    /\ cancelled' = cancelled \cup {x}
    /\ broken' = broken \cup {x}
    /\ UNCHANGED <<clientVars, body, sent, gone, rt, writerVars, depositVars, faults>>

ConnFailedUnobserved(x) == gw[x] = "forward" /\ rt[x] = "none" /\ UNCHANGED vars
\* observedConn reports a failed read or write while RoundTrip is running.
ConnFailed(x) ==
    /\ gw[x] = "forward" /\ x \in broken /\ rt[x] = "running"
    /\ gw' = [gw EXCEPT ![x] = "grace"]
    /\ UNCHANGED <<clientVars, body, sent, cut, gone, cancelled, rt, reply, broken,
                   writerVars, depositVars, faults>>

\* After 10 ms without a result the body read is interrupted ...
Unblock(x) ==
    /\ gw[x] = "grace" /\ rt[x] = "running"
    /\ InterruptIncomplete(x)
    /\ gw' = [gw EXCEPT ![x] = "unblock"]
    /\ UNCHANGED <<clientVars, body, sent, gone, cancelled, rt, reply, broken,
                   writerVars, depositVars, faults>>

\* ... after one more second the outbound request is cancelled ...
CancelOutbound(x) ==
    /\ gw[x] = "unblock" /\ rt[x] = "running"
    /\ cancelled' = cancelled \cup {x}
    /\ gw' = [gw EXCEPT ![x] = "cancel"]
    /\ UNCHANGED <<clientVars, body, sent, cut, gone, rt, reply, broken, writerVars,
                   depositVars, faults>>

\* ... and after another second the handler leaves without its result.
GiveUp(x) ==
    /\ gw[x] = "cancel" /\ rt[x] = "running"
    /\ Answer(x, Unavailable)
    /\ UNCHANGED <<clientVars, body, sent, cut, gone, cancelled, rt, broken, writerVars,
                   depositVars, faults>>

\* The writer's answer is read in full before the request body is stopped.
Relay(x) ==
    /\ gw[x] = "reply"
    /\ InterruptIncomplete(x)
    /\ Answer(x, rt[x])
    /\ cancelled' = cancelled \cup {x}
    /\ UNCHANGED <<clientVars, body, sent, gone, rt, broken, writerVars, depositVars, faults>>

\* It is longer than 64 KiB, breaks off or takes more than five seconds.
RelayFails(x) ==
    /\ gw[x] = "reply" /\ Fault
    /\ InterruptIncomplete(x)
    /\ Answer(x, Unavailable)
    /\ cancelled' = cancelled \cup {x}
    /\ broken' = broken \cup {x}
    /\ UNCHANGED <<clientVars, body, sent, gone, rt, writerVars, depositVars>>

-----------------------------------------------------------------------------
(* net/http between client, gateway and writer *)

\* The client's next bytes; nothing says that they ever come.  The transport
\* waits for the writer to ask for them, but no longer than
\* ExpectContinueTimeout, so they may come before the admission.
BodyArrives(x) ==
    /\ gw[x] \in Working /\ rt[x] = "running" /\ wr[x] # "none"
    /\ body[x] # "whole" /\ x \notin cut \cup gone \cup cancelled
    /\ body' = [body EXCEPT ![x] = IF @ = "unread" THEN "part" ELSE "whole"]
    /\ sent' = [sent EXCEPT ![x] = IF body[x] = "unread" \/ @ = file[x[1]] THEN file[x[1]] ELSE Torn]
    /\ UNCHANGED <<clientVars, gw, cut, gone, cancelled, rt, reply, broken, writerVars,
                   depositVars, faults>>

RoundTripAnswers(x) ==
    /\ rt[x] = "running" /\ ans[x] # None
    /\ rt' = [rt EXCEPT ![x] = ans[x]]
    /\ UNCHANGED <<clientVars, gw, body, sent, cut, gone, cancelled, reply, broken,
                   writerVars, depositVars, faults>>

\* With the connection lost, RoundTrip still waits for its reader of the
\* request body: it returns when that reader is through or interrupted.
RoundTripLoses(x) ==
    /\ rt[x] = "running" /\ x \in broken
    /\ body[x] = "whole" \/ x \in cut \cup gone \cup cancelled
    /\ rt' = [rt EXCEPT ![x] = "error"]
    /\ UNCHANGED <<clientVars, gw, body, sent, cut, gone, cancelled, reply, broken,
                   writerVars, depositVars, faults>>

\* The client disconnects: its body fails or its context ends, and with it
\* the outbound request.
RoundTripAborts(x) ==
    /\ rt[x] = "running" /\ x \in gone
    /\ rt' = [rt EXCEPT ![x] = "error"]
    /\ broken' = broken \cup {x}
    /\ UNCHANGED <<clientVars, gw, body, sent, cut, gone, cancelled, reply,
                   writerVars, depositVars, faults>>

-----------------------------------------------------------------------------
(* The writer *)

Finish(x, status) ==
    /\ wr' = [wr EXCEPT ![x] = "over"]
    /\ ans' = [ans EXCEPT ![x] = status]

\* Identifiers that carry the idempotency key of the request.
Existing(r) == {i \in Ids : phase[i] # "free" /\ D!SameDeposit(r, of[i])}

\* The slots of the writer are taken, the store fails, the key is revoked,
\* or, for a transfer that would begin, a limit is reached.
AdmitRefused(x) ==
    /\ up /\ wr[x] = "admit" /\ Fault
    /\ \E status \in {Unavailable, Refused} : Finish(x, status)
    /\ UNCHANGED <<clientVars, gatewayVars, broken, id, bytes, up, depositVars>>

\* A transfer begins under a new identifier or again under its failed one.
AdmitTransfer(x) ==
    /\ up /\ wr[x] = "admit"
    /\ \E i \in Ids : D!Offer(i, Request(x)) /\ id' = [id EXCEPT ![x] = i]
    /\ wr' = [wr EXCEPT ![x] = "reading"]
    /\ UNCHANGED <<clientVars, gatewayVars, broken, ans, bytes, up, faults>>

\* Otherwise the row of the key decides.
AdmitExisting(x) ==
    /\ up /\ wr[x] = "admit"
    /\ \E i \in Existing(Request(x)) :
        \/ of[i] # Request(x) /\ Finish(x, Refused) /\ UNCHANGED depositVars
        \/ of[i] = Request(x) /\ phase[i] = "offered" /\ Finish(x, InProgress) /\ UNCHANGED depositVars
        \/ of[i] = Request(x) /\ phase[i] = "stored" /\ D!Acknowledge(i) /\ Finish(x, Created)
        \/ of[i] = Request(x) /\ phase[i] = "retired" /\ Finish(x, Refused) /\ UNCHANGED depositVars
    /\ UNCHANGED <<clientVars, gatewayVars, broken, id, bytes, up, faults>>

VerifiedBySize(x) == body[x] = "whole"
\* copyAndHash has the whole body and its digest: the file is published.
Verified(x) == body[x] = "whole" /\ sent[x] = digest[x[1]]

Publish(x) ==
    /\ up /\ wr[x] = "reading" /\ Verified(x)
    /\ bytes' = [bytes EXCEPT ![id[x]] = sent[x]]
    /\ wr' = [wr EXCEPT ![x] = "published"]
    /\ UNCHANGED <<clientVars, gatewayVars, broken, ans, id, up, depositVars, faults>>

\* The body breaks off (400) or has another digest (422).
Reject(x) ==
    /\ up /\ wr[x] = "reading"
    /\ IF body[x] = "whole" THEN ~Verified(x) ELSE x \in broken
    /\ \/ D!Decline(id[x]) /\ UNCHANGED faults
       \/ Fault /\ UNCHANGED depositVars      \* Store.Fail does not commit
    /\ Finish(x, Refused)
    /\ UNCHANGED <<clientVars, gatewayVars, broken, id, bytes, up>>

\* Creating, writing, syncing or linking fails (503 or 507), and perhaps
\* Store.Fail as well.
StorageFails(x) ==
    /\ up /\ wr[x] = "reading" /\ Fault
    /\ D!Decline(id[x]) \/ UNCHANGED depositVars
    /\ \E status \in {Unavailable, Refused} : Finish(x, status)
    /\ UNCHANGED <<clientVars, gatewayVars, broken, id, bytes, up>>

Complete(x) ==
    /\ up /\ wr[x] = "published"
    /\ D!Store(id[x], TRUE)
    /\ Finish(x, Created)
    /\ UNCHANGED <<clientVars, gatewayVars, broken, id, bytes, up, faults>>

\* A sync, an unlink or the catalogue fails after publication: the row stays
\* in progress until the next start, or it is complete although the commit
\* returned an error.
CompleteFails(x) ==
    /\ up /\ wr[x] = "published" /\ Fault
    /\ UNCHANGED depositVars \/ D!Store(id[x], FALSE)
    /\ \E status \in {Unavailable, Refused} : Finish(x, status)
    /\ UNCHANGED <<clientVars, gatewayVars, broken, id, bytes, up>>

Crash ==
    /\ up /\ Fault
    /\ up' = FALSE
    /\ wr' = [x \in Exchanges |-> IF wr[x] = "none" THEN "none" ELSE "over"]
    /\ broken' = broken \cup {x \in Exchanges : wr[x] # "none"}
    /\ UNCHANGED <<clientVars, gatewayVars, ans, id, bytes, depositVars>>

\* Reconcile completes what is published and fails the rest ...
Settle(i) ==
    /\ ~up
    /\ IF bytes[i] = None THEN D!Decline(i) ELSE D!Store(i, FALSE)
    /\ UNCHANGED <<clientVars, gatewayVars, broken, writerVars, faults>>

\* ... before the writer listens.
Restart ==
    /\ ~up /\ \A i \in Ids : phase[i] # "offered"
    /\ up' = TRUE
    /\ UNCHANGED <<clientVars, gatewayVars, broken, wr, ans, id, bytes, depositVars, faults>>

\* Retention takes a stored backup out of the archive.
Retire(i) ==
    /\ up /\ Fault /\ D!Retire(i)
    /\ UNCHANGED <<clientVars, gatewayVars, broken, writerVars>>

-----------------------------------------------------------------------------
Gateway(x) ==
    \/ GatewayBusy(x) \/ Forward(x)
    \/ CollectResponse(x) \/ CollectError(x) \/ ConnFailed(x)
    \/ Unblock(x) \/ CancelOutbound(x) \/ GiveUp(x)
    \/ Relay(x)

Transport(x) == RoundTripAnswers(x) \/ RoundTripLoses(x) \/ RoundTripAborts(x)

Writer(x) ==
    \/ AdmitTransfer(x) \/ AdmitExisting(x)
    \/ Publish(x) \/ Reject(x) \/ Complete(x)

Next ==
    \/ \E c \in Clients :
        \/ FileChanges(c) \/ Hash(c) \/ Attempt(c)
        \/ AttemptFails(c) \/ Interrupted(c) \/ Answered(c)
    \/ \E x \in Exchanges :
        \/ Gateway(x) \/ RelayFails(x) \/ Transport(x) \/ BodyArrives(x)
        \/ Writer(x)
        \/ AdmitRefused(x) \/ StorageFails(x) \/ CompleteFails(x)
    \/ Crash \/ Restart
    \/ \E i \in Ids : Settle(i) \/ Retire(i)

Spec == Init /\ [][Next]_vars

\* Handlers and goroutines run; systemd restarts the writer.  Clients need
\* not send another byte and no connection need fail.
FairSpec ==
    /\ Spec
    /\ \A x \in Exchanges : WF_vars(Gateway(x)) /\ WF_vars(Transport(x)) /\ WF_vars(Writer(x))
    /\ WF_vars(Restart) /\ \A i \in Ids : WF_vars(Settle(i))

-----------------------------------------------------------------------------
(* Properties *)

\* A send that reports "Backup ricevuto e salvato" has its backup: the archive
\* holds, or held until retention took it, exactly the bytes the client hashed
\* before its first attempt, although the file may have changed since, the
\* confirmation may come from a replay, and the writer may have died between.
ReportedIsSaved ==
    \A c \in Clients : pc[c] = "saved" =>
        \E i \in Ids : /\ phase[i] \in {"stored", "retired"}
                       /\ \E a \in 1 .. Attempts : id[<<c, a>>] = i
                       /\ bytes[i] = digest[c]

\* However many attempts a send makes, and whichever of them are still under
\* way at the writer, they create at most one backup and publish it once.
SentOnce ==
    \A c \in Clients :
        /\ Cardinality({i \in Ids : \E a \in 1 .. Attempts : id[<<c, a>>] = i}) <= 1
        /\ Cardinality({a \in 1 .. Attempts : wr[<<c, a>>] \in {"reading", "published"}}) <= 1

\* An exchange the writer has answered, or whose writer or client is lost,
\* gives back its gateway slot and its writer handler, even when the client
\* never sends the rest of its body.
LostExchangesEnd ==
    \A x \in Exchanges :
        (gw[x] \in Working /\ (ans[x] # None \/ x \in broken \cup gone))
            ~> (gw[x] = "done" /\ wr[x] \in {"none", "over"})
=============================================================================

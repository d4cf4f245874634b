------------------------------ MODULE SendProofs ------------------------------
(***************************************************************************)
(* Theorems about Send, for any clients, identifiers, contents and bounds. *)
(* Whatever happens on the way, every attempt of a send asks for the same  *)
(* row of the catalogue, and only the handler that works on the row in     *)
(* progress can publish its file.                                          *)
(***************************************************************************)
EXTENDS Send, FiniteSetTheorems, TLAPS

\* The client: the file is hashed once, before the first attempt, and attempts
\* are numbered without a gap.
ClientOK ==
    \A c \in Clients :
        /\ pc[c] = "hash" => try[c] = 0
        /\ pc[c] # "hash" => digest[c] \in Contents
        /\ pc[c] = "send" => try[c] < Attempts
        /\ pc[c] = "wait" => try[c] > 0
        /\ \A a \in 1 .. Attempts : a > try[c] => gw[<<c, a>>] = "none"

\* An exchange: the writer sees a request after the gateway took it, and draws
\* its identifier once; the gateway relays what RoundTrip has returned.
ExchangeOK ==
    \A x \in Exchanges :
        /\ gw[x] \in {"none", "arrived"} => wr[x] = "none"
        /\ wr[x] \in {"none", "admit"} => id[x] = None
        /\ gw[x] = "reply" => rt[x] \in Statuses

\* The catalogue: a row belongs to one send, and a send has one row, whose
\* identifier one of its attempts was given.
RowsOK ==
    /\ \A i \in Ids : phase[i] # "free" =>
        /\ of[i] \in D!Request
        /\ pc[of[i].idem] # "hash" /\ of[i].content = digest[of[i].idem]
        /\ \E a \in 1 .. Attempts : id[<<of[i].idem, a>>] = i
    /\ \A i, j \in Ids :
        phase[i] # "free" /\ phase[j] # "free" /\ of[i].idem = of[j].idem => i = j
    /\ \A x \in Exchanges : id[x] # None => phase[id[x]] # "free" /\ of[id[x]].idem = x[1]

\* A handler that receives or has published works alone on a row in progress.
HandlersOK ==
    /\ \A x \in Exchanges : wr[x] \in {"reading", "published"} =>
        up /\ id[x] # None /\ phase[id[x]] = "offered"
    /\ \A x, y \in Exchanges :
        /\ wr[x] \in {"reading", "published"} /\ wr[y] \in {"reading", "published"}
        /\ id[x] = id[y]
        => x = y

\* A published file holds what the client hashed, and a stored one is published.
FilesOK ==
    /\ \A i \in Ids : bytes[i] # None => phase[i] # "free" /\ bytes[i] = digest[of[i].idem]
    /\ \A i \in Ids : phase[i] \in {"stored", "retired"} => bytes[i] # None
    /\ \A x \in Exchanges : wr[x] = "published" => bytes[id[x]] # None

Kept(c) == \E i \in Ids : phase[i] \in {"stored", "retired"} /\ of[i].idem = c

\* 201 is answered, relayed and reported for a row that was stored.
AnswersOK ==
    /\ \A x \in Exchanges : Created \in {ans[x], rt[x], reply[x]} => Kept(x[1])
    /\ \A c \in Clients : pc[c] = "saved" => Kept(c)

SendInductive ==
    TypeOK /\ ClientOK /\ ExchangeOK /\ RowsOK /\ HandlersOK /\ FilesOK /\ AnswersOK

-----------------------------------------------------------------------------
\* What the proofs use of pairs.
LEMMA Pairs ==
    /\ \A x \in Exchanges : x[1] \in Clients /\ x[2] \in 1 .. Attempts /\ x = <<x[1], x[2]>>
    /\ \A c \in Clients, a \in 1 .. Attempts :
         <<c, a>> \in Exchanges /\ <<c, a>>[1] = c /\ <<c, a>>[2] = a
  BY DEF Exchanges

\* The attempt a client is waiting for is one of its exchanges.
LEMMA CurrentIsExchange ==
    ASSUME TypeOK, ClientOK, NEW c \in Clients, pc[c] = "wait"
    PROVE  Current(c) \in Exchanges /\ Current(c)[1] = c
  <1>1. try[c] \in 1 .. Attempts
    BY BoundsAssumption DEF TypeOK, ClientOK
  <1>. QED
    BY <1>1, Pairs DEF Current

LEMMA InitSendInductive == Init => SendInductive
  <1>. SUFFICES ASSUME Init PROVE SendInductive
    OBVIOUS
  <1>. USE BoundsAssumption DEF Init
  <1>1. TypeOK
    <2>1. up \in BOOLEAN
      BY Zenon
    <2>2. phase \in [Ids -> D!Phases] /\ of \in [Ids -> D!Request \cup {None}]
      BY DEF D!Init, D!Phases
    <2>3. {cut, gone, broken, cancelled} \subseteq SUBSET Exchanges
      OBVIOUS
    <2>. QED
      BY <2>1, <2>2, <2>3 DEF TypeOK, Ended, Working
  <1>2. ClientOK /\ ExchangeOK
    BY Pairs DEF ClientOK, ExchangeOK
  <1>3. RowsOK /\ HandlersOK /\ FilesOK
    BY DEF RowsOK, HandlersOK, FilesOK, D!Init
  <1>4. AnswersOK
    <2>1. \A x \in Exchanges : Created \notin {ans[x], rt[x], reply[x]}
      BY ValuesAssumption DEF Created, Statuses
    <2>2. \A c \in Clients : pc[c] # "saved"
      OBVIOUS
    <2>. QED
      BY <2>1, <2>2 DEF AnswersOK
  <1>. QED
    BY <1>1, <1>2, <1>3, <1>4 DEF SendInductive

-----------------------------------------------------------------------------
(* The client.  Its steps leave the writer and the catalogue alone, and    *)
(* hashing, the only step that sets a digest, comes before any attempt.    *)

LEMMA FileChangesInductive ==
    ASSUME SendInductive, NEW c \in Clients, FileChanges(c)
    PROVE  SendInductive'
  <1>. USE DEF SendInductive, FileChanges, gatewayVars, writerVars, depositVars
  <1>1. TypeOK'
    BY BoundsAssumption DEF TypeOK, Fault
  <1>2. ClientOK' /\ ExchangeOK' /\ RowsOK' /\ HandlersOK' /\ FilesOK' /\ AnswersOK'
    BY DEF ClientOK, ExchangeOK, RowsOK, HandlersOK, FilesOK, AnswersOK, Kept
  <1>. QED
    BY <1>1, <1>2

\* No row carries the key of a send that has not hashed its file.
LEMMA HashInductive ==
    ASSUME SendInductive, NEW c \in Clients, Hash(c)
    PROVE  SendInductive'
  <1>. USE DEF SendInductive, Hash, gatewayVars, writerVars, depositVars
  <1>1. TypeOK'
    BY DEF TypeOK
  <1>2. ClientOK'
    BY BoundsAssumption DEF ClientOK, TypeOK
  <1>3. ExchangeOK' /\ HandlersOK'
    BY DEF ExchangeOK, HandlersOK
  <1>4. ASSUME NEW i \in Ids, phase[i] # "free"
        PROVE  of[i].idem \in Clients /\ of[i].idem # c
    BY <1>4 DEF RowsOK, D!Request
  <1>5. RowsOK'
    BY <1>4 DEF RowsOK, TypeOK
  <1>6. FilesOK'
    BY <1>4 DEF FilesOK, TypeOK
  <1>7. AnswersOK'
    BY DEF AnswersOK, Kept, TypeOK
  <1>. QED
    BY <1>1, <1>2, <1>3, <1>5, <1>6, <1>7

\* Steps that move a client among its states after the hash.
LEMMA ClientFrame ==
    ASSUME SendInductive, NEW c \in Clients, pc[c] # "hash",
           NEW s \in {"send", "wait"} \cup Ended, pc' = [pc EXCEPT ![c] = s],
           s = "saved" => Kept(c),
           UNCHANGED <<digest, rt, reply, broken, writerVars, depositVars>>
    PROVE  RowsOK' /\ HandlersOK' /\ FilesOK' /\ AnswersOK'
  <1>. USE DEF SendInductive, writerVars, depositVars
  <1>1. \A d \in Clients : pc'[d] = "hash" <=> pc[d] = "hash"
    BY DEF TypeOK, Ended
  <1>2. RowsOK'
    BY <1>1 DEF RowsOK, D!Request
  <1>3. HandlersOK' /\ FilesOK'
    BY DEF HandlersOK, FilesOK
  <1>4. AnswersOK'
    BY DEF AnswersOK, Kept, TypeOK
  <1>. QED
    BY <1>2, <1>3, <1>4

LEMMA AttemptInductive ==
    ASSUME SendInductive, NEW c \in Clients, Attempt(c)
    PROVE  SendInductive'
  <1>. DEFINE x == <<c, try[c] + 1>>
  <1>. USE DEF SendInductive, Attempt
  <1>1. try[c] + 1 \in 1 .. Attempts
    BY BoundsAssumption DEF ClientOK, TypeOK
  <1>2. x \in Exchanges /\ gw[x] = "none"
    BY <1>1, Pairs DEF ClientOK, TypeOK
  <1>3. wr[x] = "none"
    BY <1>2 DEF ExchangeOK
  <1>. HIDE DEF x
  <1>4. gw' = [gw EXCEPT ![x] = "arrived"]
    BY DEF x
  <1>5. TypeOK'
    <2>1. try' \in [Clients -> 0 .. Attempts]
      BY <1>1 DEF TypeOK
    <2>2. pc' \in [Clients -> {"hash", "send", "wait"} \cup Ended]
      BY DEF TypeOK
    <2>3. gw' \in [Exchanges -> {"none", "arrived", "done"} \cup Working]
      BY <1>4 DEF TypeOK
    <2>. QED
      BY <2>1, <2>2, <2>3 DEF TypeOK, writerVars, depositVars
  <1>6. ClientOK'
    <2>1. \A d \in Clients, a \in 1 .. Attempts :
            a > try'[d] => <<d, a>> \in Exchanges /\ <<d, a>> # x /\ gw[<<d, a>>] = "none"
      <3>. SUFFICES ASSUME NEW d \in Clients, NEW a \in 1 .. Attempts, a > try'[d]
                    PROVE  <<d, a>> \in Exchanges /\ <<d, a>> # x /\ gw[<<d, a>>] = "none"
        OBVIOUS
      <3>1. d = c => a > try[c] + 1
        BY DEF TypeOK
      <3>2. a > try[d]
        BY <3>1 DEF TypeOK
      <3>. QED
        BY <3>1, <3>2, Pairs DEF x, ClientOK
    <2>2. \A d \in Clients, a \in 1 .. Attempts : a > try'[d] => gw'[<<d, a>>] = "none"
      BY <2>1, <1>4 DEF TypeOK
    <2>3. \A d \in Clients :
            /\ pc'[d] = "hash" => try'[d] = 0
            /\ pc'[d] # "hash" => digest'[d] \in Contents
            /\ pc'[d] = "send" => try'[d] < Attempts
            /\ pc'[d] = "wait" => try'[d] > 0
      BY BoundsAssumption DEF ClientOK, TypeOK
    <2>. QED
      BY <2>2, <2>3 DEF ClientOK
  <1>7. ExchangeOK'
    BY <1>2, <1>3, <1>4 DEF ExchangeOK, writerVars, TypeOK
  <1>8. RowsOK' /\ HandlersOK' /\ FilesOK' /\ AnswersOK'
    BY ClientFrame
  <1>. QED
    BY <1>5, <1>6, <1>7, <1>8

\* The attempt ends: the client tries again, gives up or reports.
LEMMA WaitInductive ==
    ASSUME SendInductive, NEW c \in Clients,
           AttemptFails(c) \/ Interrupted(c) \/ Answered(c)
    PROVE  SendInductive'
  <1>. USE DEF SendInductive
  <1>1. PICK s \in {"send"} \cup Ended : pc' = [pc EXCEPT ![c] = s]
    BY DEF AttemptFails, Interrupted, Answered, Again, Ended
  <1>2. pc[c] \in {"send", "wait"}
    BY DEF AttemptFails, Interrupted, Answered
  <1>3. s = "send" => try[c] < Attempts
    <2>1. s = "send" => try[c] # Attempts
      BY <1>1, <1>2 DEF AttemptFails, Interrupted, Answered, Again, TypeOK
    <2>. QED
      BY <2>1, BoundsAssumption DEF TypeOK
  <1>4. s = "saved" => Kept(c)
    <2>1. CASE AttemptFails(c) \/ Interrupted(c)
      BY <1>1, <2>1 DEF AttemptFails, Interrupted, Again, TypeOK
    <2>2. CASE Answered(c) /\ s = "saved"
      <3>1. pc[c] = "wait" /\ reply[Current(c)] = Created
        BY <1>1, <2>2 DEF Answered, Again, TypeOK
      <3>. QED
        BY <3>1, CurrentIsExchange DEF AnswersOK
    <2>. QED
      BY <2>1, <2>2
  <1>5. gone' \subseteq Exchanges
    BY CurrentIsExchange DEF AttemptFails, Interrupted, Answered, gatewayVars, TypeOK
  <1>6. UNCHANGED <<try, file, digest, gw, body, sent, cut, cancelled, rt, reply,
                    broken, writerVars, depositVars>>
    BY DEF AttemptFails, Interrupted, Answered, gatewayVars
  <1>7. faults' \in 0 .. MaxFaults
    BY BoundsAssumption DEF AttemptFails, Interrupted, Answered, Fault, TypeOK
  <1>8. TypeOK'
    BY <1>1, <1>5, <1>6, <1>7 DEF TypeOK, writerVars, depositVars
  <1>9. ClientOK' /\ ExchangeOK'
    BY <1>1, <1>2, <1>3, <1>6 DEF ClientOK, ExchangeOK, TypeOK, writerVars, Ended
  <1>10. RowsOK' /\ HandlersOK' /\ FilesOK' /\ AnswersOK'
    BY <1>1, <1>2, <1>4, <1>6, ClientFrame
  <1>. QED
    BY <1>8, <1>9, <1>10

-----------------------------------------------------------------------------
(* The gateway and the connections.  A 201 is only ever passed on.         *)

LEMMA GatewayFrame ==
    ASSUME SendInductive, TypeOK', NEW x \in Exchanges,
           UNCHANGED <<clientVars, writerVars, depositVars>>,
           \/ gw' = gw
           \/ gw[x] # "none" /\ \E g \in {"done"} \cup Working : gw' = [gw EXCEPT ![x] = g],
           \A y \in Exchanges :
              /\ Created \in {rt'[y], reply'[y]} => Created \in {ans[y], rt[y], reply[y]}
              /\ gw'[y] = "reply" => rt'[y] \in Statuses
    PROVE  SendInductive'
  <1>. USE DEF SendInductive, clientVars, writerVars, depositVars
  <1>1. \A y \in Exchanges :
          /\ gw[y] = "none" => gw'[y] = "none"
          /\ gw'[y] \in {"none", "arrived"} => gw[y] \in {"none", "arrived"}
    BY DEF TypeOK, Working
  <1>2. ClientOK'
    BY <1>1, Pairs DEF ClientOK
  <1>3. ExchangeOK'
    BY <1>1 DEF ExchangeOK
  <1>4. RowsOK' /\ HandlersOK' /\ FilesOK'
    BY DEF RowsOK, HandlersOK, FilesOK
  <1>5. AnswersOK'
    BY DEF AnswersOK, Kept
  <1>. QED
    BY <1>2, <1>3, <1>4, <1>5

LEMMA GatewayInductive ==
    ASSUME SendInductive, NEW x \in Exchanges,
           Gateway(x) \/ RelayFails(x), ~Forward(x)
    PROVE  SendInductive'
  <1>. USE DEF SendInductive, Answer
  <1>1. PICK g \in {"done"} \cup Working : gw[x] # "none" /\ gw' = [gw EXCEPT ![x] = g]
    BY DEF Gateway, GatewayBusy, CollectResponse, CollectError, ConnFailed, Unblock,
           CancelOutbound, GiveUp, Relay, RelayFails, Working
  <1>2. \/ reply' = reply
        \/ reply' = [reply EXCEPT ![x] = Unavailable]
        \/ gw[x] = "reply" /\ reply' = [reply EXCEPT ![x] = rt[x]]
    BY DEF Gateway, GatewayBusy, CollectResponse, CollectError, ConnFailed, Unblock,
           CancelOutbound, GiveUp, Relay, RelayFails
  <1>3. {cut', broken', cancelled'} \subseteq SUBSET Exchanges
    BY DEF Gateway, GatewayBusy, CollectResponse, CollectError, ConnFailed, Unblock,
           CancelOutbound, GiveUp, Relay, RelayFails, InterruptIncomplete, TypeOK
  <1>4. faults' \in 0 .. MaxFaults
    BY BoundsAssumption
       DEF Gateway, GatewayBusy, CollectResponse, CollectError, ConnFailed, Unblock,
           CancelOutbound, GiveUp, Relay, RelayFails, Fault, TypeOK
  <1>5. UNCHANGED <<clientVars, body, sent, gone, rt, writerVars, depositVars>>
    BY DEF Gateway, GatewayBusy, CollectResponse, CollectError, ConnFailed, Unblock,
           CancelOutbound, GiveUp, Relay, RelayFails
  <1>6. reply' \in [Exchanges -> {None} \cup Statuses]
    BY <1>2 DEF TypeOK, ExchangeOK, Statuses
  <1>7. TypeOK'
    BY <1>1, <1>3, <1>4, <1>5, <1>6
       DEF TypeOK, clientVars, writerVars, depositVars, Working
  <1>8. \A y \in Exchanges : gw'[y] = "reply" => rt'[y] \in Statuses
    <2>1. g = "reply" => rt[x] \in Statuses
      BY <1>1 DEF Gateway, GatewayBusy, CollectResponse, CollectError, ConnFailed,
                  Unblock, CancelOutbound, GiveUp, Relay, RelayFails, TypeOK
    <2>. QED
      BY <1>1, <1>5, <2>1 DEF ExchangeOK, TypeOK
  <1>9. \A y \in Exchanges :
          Created \in {rt'[y], reply'[y]} => Created \in {ans[y], rt[y], reply[y]}
    BY <1>2, <1>5 DEF TypeOK, Created, Unavailable
  <1>. QED
    BY <1>1, <1>5, <1>7, <1>8, <1>9, GatewayFrame

\* The handler dials the writer, which begins to admit the request.
LEMMA ForwardInductive ==
    ASSUME SendInductive, NEW x \in Exchanges, Forward(x)
    PROVE  SendInductive'
  <1>. USE DEF SendInductive, Forward, clientVars, depositVars
  <1>1. wr[x] = "none" /\ id[x] = None
    BY DEF ExchangeOK
  <1>2. wr' \in [Exchanges -> {"none", "admit", "reading", "published", "over"}]
    BY DEF TypeOK
  <1>3. rt' \in [Exchanges -> {"none", "running", "error"} \cup Statuses]
    BY DEF TypeOK
  <1>4. TypeOK'
    BY <1>2, <1>3 DEF TypeOK, Working
  <1>5. \A y \in Exchanges : y # x => wr'[y] = wr[y] /\ rt'[y] = rt[y] /\ gw'[y] = gw[y]
    BY DEF TypeOK
  <1>6. wr'[x] \in {"none", "admit"} /\ rt'[x] \in {"running", "error"} /\ gw'[x] = "forward"
    BY <1>1 DEF TypeOK
  <1>7. ClientOK'
    BY <1>5, Pairs DEF ClientOK
  <1>8. ExchangeOK'
    BY <1>1, <1>5, <1>6 DEF ExchangeOK
  <1>9. RowsOK' /\ HandlersOK' /\ FilesOK'
    BY <1>5, <1>6 DEF RowsOK, HandlersOK, FilesOK
  <1>10. AnswersOK'
    BY <1>5, <1>6 DEF AnswersOK, Kept, Created
  <1>. QED
    BY <1>4, <1>7, <1>8, <1>9, <1>10

LEMMA TransportInductive ==
    ASSUME SendInductive, NEW x \in Exchanges, Transport(x) \/ BodyArrives(x)
    PROVE  SendInductive'
  <1>. USE DEF SendInductive
  <1>1. CASE Transport(x)
    <2>1. PICK r \in {"error", ans[x]} :
             rt[x] = "running" /\ rt' = [rt EXCEPT ![x] = r]
      BY <1>1 DEF Transport, RoundTripAnswers, RoundTripLoses, RoundTripAborts
    <2>2. r \in {"error"} \cup Statuses
      BY <1>1, <2>1 DEF Transport, RoundTripAnswers, RoundTripLoses, RoundTripAborts,
                        TypeOK
    <2>3. UNCHANGED <<clientVars, gw, body, sent, cut, gone, cancelled, reply,
                      writerVars, depositVars, faults>>
      BY <1>1 DEF Transport, RoundTripAnswers, RoundTripLoses, RoundTripAborts
    <2>4. broken' \subseteq Exchanges
      BY <1>1 DEF Transport, RoundTripAnswers, RoundTripLoses, RoundTripAborts, TypeOK
    <2>5. TypeOK'
      BY <2>1, <2>2, <2>3, <2>4 DEF TypeOK, clientVars, writerVars, depositVars
    <2>6. \A y \in Exchanges :
             /\ Created \in {rt'[y], reply'[y]} => Created \in {ans[y], rt[y], reply[y]}
             /\ gw'[y] = "reply" => rt'[y] \in Statuses
      BY <2>1, <2>2, <2>3 DEF TypeOK, ExchangeOK, Statuses, Created, Unavailable,
                              InProgress, Refused
    <2>. QED
      BY <2>3, <2>5, <2>6, GatewayFrame
  <1>2. CASE BodyArrives(x)
    <2>1. sent' \in [Exchanges -> Contents \cup {None, Torn}]
      BY <1>2, Pairs DEF BodyArrives, TypeOK
    <2>2. body' \in [Exchanges -> {"unread", "part", "whole"}]
      BY <1>2 DEF BodyArrives, TypeOK
    <2>3. TypeOK'
      BY <1>2, <2>1, <2>2
         DEF BodyArrives, TypeOK, clientVars, writerVars, depositVars
    <2>. QED
      BY <1>2, <2>3, GatewayFrame DEF BodyArrives, ExchangeOK
  <1>. QED
    BY <1>1, <1>2

-----------------------------------------------------------------------------
(* The writer.                                                             *)

\* A request at the writer comes from a client that has hashed its file.
LEMMA RequestIsBound ==
    ASSUME SendInductive, NEW x \in Exchanges, wr[x] # "none"
    PROVE  /\ x[1] \in Clients /\ pc[x[1]] # "hash" /\ digest[x[1]] \in Contents
           /\ Request(x) \in D!Request
           /\ Request(x).idem = x[1] /\ Request(x).content = digest[x[1]]
           /\ Request(x).key = Key
  <1>. USE DEF SendInductive
  <1>1. /\ x[1] \in Clients /\ x[2] \in 1 .. Attempts /\ x = <<x[1], x[2]>>
        /\ try[x[1]] \in 0 .. Attempts
    BY Pairs DEF TypeOK
  <1>2. gw[x] # "none"
    BY DEF ExchangeOK
  <1>3. ~(x[2] > try[x[1]])
    BY <1>1, <1>2 DEF ClientOK
  <1>4. pc[x[1]] # "hash"
    BY <1>1, <1>3, BoundsAssumption DEF ClientOK
  <1>. QED
    BY <1>1, <1>4 DEF ClientOK, Request, IdempotencyKey, D!Request

\* The writer does not touch the client's side.
LEMMA WriterFrame ==
    ASSUME SendInductive, UNCHANGED <<clientVars, gatewayVars>>,
           \A x \in Exchanges : /\ wr[x] = "none" => wr'[x] = "none"
                                /\ wr'[x] \in {"none", "admit"} => id'[x] = None
    PROVE  ClientOK' /\ ExchangeOK'
  BY DEF SendInductive, ClientOK, ExchangeOK, clientVars, gatewayVars

\* A handler ends without having changed a row.
LEMMA FinishInductive ==
    ASSUME SendInductive, NEW x \in Exchanges, wr[x] # "none",
           NEW status \in Statuses, Finish(x, status),
           status = Created => Kept(x[1]), faults' \in 0 .. MaxFaults,
           UNCHANGED <<clientVars, gatewayVars, broken, id, bytes, up, phase, of>>
    PROVE  SendInductive'
  <1>. USE DEF SendInductive, Finish
  <1>1. /\ \A y \in Exchanges : y # x => wr'[y] = wr[y] /\ ans'[y] = ans[y]
        /\ wr'[x] = "over" /\ ans'[x] = status
    BY DEF TypeOK
  <1>2. TypeOK'
    BY DEF TypeOK, clientVars, gatewayVars
  <1>3. ClientOK' /\ ExchangeOK'
    <2>1. \A y \in Exchanges : /\ wr[y] = "none" => wr'[y] = "none"
                               /\ wr'[y] \in {"none", "admit"} => id'[y] = None
      BY <1>1 DEF ExchangeOK
    <2>. QED
      BY <2>1, WriterFrame
  <1>4. RowsOK'
    BY DEF RowsOK, clientVars
  <1>5. HandlersOK' /\ FilesOK'
    BY <1>1 DEF HandlersOK, FilesOK, clientVars
  <1>6. AnswersOK'
    BY <1>1 DEF AnswersOK, Kept, clientVars, gatewayVars
  <1>. QED
    BY <1>2, <1>3, <1>4, <1>5, <1>6

\* A handler whose failure leaves its row as it is: refused at once, or with a
\* Store.Fail or a Complete that did not commit.
LeavesRow(x) ==
    \/ AdmitRefused(x)
    \/ (Reject(x) \/ StorageFails(x) \/ CompleteFails(x)) /\ UNCHANGED depositVars

LEMMA AdmitInductive ==
    ASSUME SendInductive, NEW x \in Exchanges, LeavesRow(x) \/ AdmitExisting(x)
    PROVE  SendInductive'
  <1>1. CASE LeavesRow(x)
    <2>1. PICK status \in {Unavailable, Refused} : Finish(x, status)
      BY <1>1 DEF LeavesRow, AdmitRefused, Reject, StorageFails, CompleteFails
    <2>2. status \in Statuses /\ status # Created
      BY DEF Statuses, Created, Unavailable, Refused
    <2>3. wr[x] # "none"
      BY <1>1 DEF LeavesRow, AdmitRefused, Reject, StorageFails, CompleteFails
    <2>4. faults' = faults \/ (faults < MaxFaults /\ faults' = faults + 1)
      BY <1>1 DEF LeavesRow, AdmitRefused, Reject, StorageFails, CompleteFails, Fault
    <2>5. faults' \in 0 .. MaxFaults
      BY <2>4, BoundsAssumption DEF SendInductive, TypeOK
    <2>6. UNCHANGED <<clientVars, gatewayVars, broken, id, bytes, up, phase, of>>
      BY <1>1 DEF LeavesRow, AdmitRefused, Reject, StorageFails, CompleteFails, depositVars
    <2>. QED
      BY <2>1, <2>2, <2>3, <2>5, <2>6, FinishInductive
  <1>2. CASE AdmitExisting(x)
    <2>1. PICK i \in Ids :
            \/ of[i] # Request(x) /\ Finish(x, Refused) /\ UNCHANGED depositVars
            \/ of[i] = Request(x) /\ phase[i] = "offered" /\ Finish(x, InProgress) /\ UNCHANGED depositVars
            \/ of[i] = Request(x) /\ phase[i] = "stored" /\ D!Acknowledge(i) /\ Finish(x, Created)
            \/ of[i] = Request(x) /\ phase[i] = "retired" /\ Finish(x, Refused) /\ UNCHANGED depositVars
      BY <1>2 DEF AdmitExisting, Existing
    <2>2. PICK status \in Statuses : Finish(x, status) /\ (status = Created => Kept(x[1]))
      <3>1. wr[x] # "none"
        BY <1>2 DEF AdmitExisting
      <3>2. CASE of[i] = Request(x) /\ phase[i] = "stored" /\ Finish(x, Created)
        <4>1. phase[i] = "stored" /\ of[i].idem = x[1]
          BY <3>1, <3>2, RequestIsBound
        <4>. QED
          BY <3>2, <4>1 DEF Kept, Statuses
      <3>3. CASE Finish(x, Refused) \/ Finish(x, InProgress)
        BY <3>3 DEF Statuses, Created, InProgress, Refused
      <3>. QED
        BY <2>1, <3>2, <3>3
    <2>3. UNCHANGED <<clientVars, gatewayVars, broken, id, bytes, up, phase, of, faults>>
      BY <1>2, <2>1 DEF AdmitExisting, depositVars, D!Acknowledge
    <2>4. wr[x] # "none" /\ faults' \in 0 .. MaxFaults
      BY <1>2, <2>3 DEF AdmitExisting, SendInductive, TypeOK
    <2>. QED
      BY <2>2, <2>3, <2>4, FinishInductive
  <1>. QED
    BY <1>1, <1>2

\* A transfer begins under the only row of its send.
LEMMA AdmitTransferInductive ==
    ASSUME SendInductive, NEW x \in Exchanges, AdmitTransfer(x)
    PROVE  SendInductive'
  <1>. USE DEF SendInductive
  <1>1. PICK i \in Ids : D!Offer(i, Request(x)) /\ id' = [id EXCEPT ![x] = i]
    BY DEF AdmitTransfer
  <1>2. /\ wr[x] = "admit" /\ up
        /\ wr' = [wr EXCEPT ![x] = "reading"]
        /\ phase' = [phase EXCEPT ![i] = "offered"]
        /\ of' = [of EXCEPT ![i] = Request(x)]
        /\ UNCHANGED <<clientVars, gatewayVars, broken, ans, bytes, up, faults>>
    BY <1>1 DEF AdmitTransfer, D!Offer
  <1>3. /\ x[1] \in Clients /\ pc[x[1]] # "hash" /\ digest[x[1]] \in Contents
        /\ Request(x) \in D!Request /\ Request(x).idem = x[1]
        /\ Request(x).content = digest[x[1]]
    BY <1>2, RequestIsBound
  <1>4. /\ wr'[x] = "reading" /\ id'[x] = i /\ id[x] = None
        /\ phase'[i] = "offered" /\ of'[i] = Request(x) /\ i # None
        /\ \A y \in Exchanges : y # x => wr'[y] = wr[y] /\ id'[y] = id[y]
        /\ \A j \in Ids : j # i => phase'[j] = phase[j] /\ of'[j] = of[j]
    BY <1>1, <1>2, ValuesAssumption DEF TypeOK, ExchangeOK
  <1>5. \/ phase[i] = "free"
        \/ phase[i] = "refused" /\ of[i] = Request(x)
    BY <1>1 DEF D!Offer
  <1>6. \A j \in Ids : phase[j] # "free" /\ of[j].idem = x[1] => j = i
    <2>1. CASE phase[i] = "free" /\ \A j \in Ids : phase[j] # "free" => ~D!SameDeposit(Request(x), of[j])
      <3>1. Request(x).idem # NoIdem
        BY <1>3, ValuesAssumption
      <3>2. \A j \in Ids : phase[j] # "free" => of[j].key = Key
        BY DEF RowsOK, D!Request
      <3>3. Request(x).key = Key
        BY DEF Request
      <3>. QED
        BY <1>3, <2>1, <3>1, <3>2, <3>3 DEF D!SameDeposit
    <2>2. CASE phase[i] = "refused" /\ of[i] = Request(x)
      BY <1>3, <2>2 DEF RowsOK
    <2>. QED
      BY <1>1, <2>1, <2>2 DEF D!Offer
  <1>. HIDE DEF SendInductive
  <1>7. TypeOK'
    BY <1>1, <1>2, <1>3 DEF SendInductive, TypeOK, clientVars, gatewayVars, D!Phases
  <1>8. ClientOK' /\ ExchangeOK'
    <2>1. \A y \in Exchanges : /\ wr[y] = "none" => wr'[y] = "none"
                               /\ wr'[y] \in {"none", "admit"} => id'[y] = None
      BY <1>2, <1>4 DEF SendInductive, ExchangeOK
    <2>. QED
      BY <1>2, <2>1, WriterFrame
  <1>9. RowsOK'
    <2>1. ASSUME NEW j \in Ids, phase'[j] # "free"
          PROVE  /\ of'[j] \in D!Request
                 /\ pc'[of'[j].idem] # "hash" /\ of'[j].content = digest'[of'[j].idem]
                 /\ \E a \in 1 .. Attempts : id'[<<of'[j].idem, a>>] = j
      <3>1. CASE j = i
        <4>1. x = <<x[1], x[2]>> /\ x[2] \in 1 .. Attempts
          BY Pairs
        <4>. QED
          BY <1>2, <1>3, <1>4, <3>1, <4>1 DEF clientVars
      <3>2. CASE j # i
        <4>1. phase[j] # "free" /\ of'[j] = of[j]
          BY <1>4, <2>1, <3>2
        <4>2. PICK a \in 1 .. Attempts : id[<<of[j].idem, a>>] = j
          BY <4>1 DEF SendInductive, RowsOK
        <4>3. of[j].idem \in Clients /\ of[j].idem # x[1]
          BY <1>6, <3>2, <4>1 DEF SendInductive, RowsOK, D!Request
        <4>4. <<of[j].idem, a>> \in Exchanges /\ <<of[j].idem, a>> # x
          BY <4>3, Pairs
        <4>5. id'[<<of'[j].idem, a>>] = j
          BY <1>4, <4>1, <4>2, <4>4
        <4>. QED
          BY <1>2, <4>1, <4>5 DEF SendInductive, RowsOK, clientVars
      <3>. QED
        BY <3>1, <3>2
    <2>2. ASSUME NEW j \in Ids, NEW k \in Ids,
                 phase'[j] # "free", phase'[k] # "free", of'[j].idem = of'[k].idem
          PROVE  j = k
      BY <1>3, <1>4, <1>6, <2>2 DEF SendInductive, RowsOK
    <2>3. ASSUME NEW y \in Exchanges, id'[y] # None
          PROVE  phase'[id'[y]] # "free" /\ of'[id'[y]].idem = y[1]
      <3>1. CASE y = x
        BY <1>3, <1>4, <3>1
      <3>2. CASE y # x
        <4>1. id[y] \in Ids /\ phase[id[y]] # "free" /\ of[id[y]].idem = y[1] /\ id'[y] = id[y]
          BY <1>4, <2>3, <3>2 DEF SendInductive, RowsOK, TypeOK
        <4>2. CASE id[y] = i
          BY <1>3, <1>4, <1>5, <4>1, <4>2
        <4>3. CASE id[y] # i
          BY <1>4, <4>1, <4>3
        <4>. QED
          BY <4>2, <4>3
      <3>. QED
        BY <3>1, <3>2
    <2>. QED
      BY <2>1, <2>2, <2>3 DEF RowsOK
  <1>10. HandlersOK'
    <2>1. \A y \in Exchanges : wr[y] \in {"reading", "published"} =>
             id[y] \in Ids /\ phase[id[y]] = "offered" /\ id[y] # i /\ y # x
      BY <1>2, <1>5 DEF SendInductive, HandlersOK, TypeOK
    <2>. QED
      BY <1>2, <1>4, <2>1 DEF SendInductive, HandlersOK
  <1>11. FilesOK'
    <2>1. \A y \in Exchanges : wr[y] = "published" => id[y] # i /\ y # x
      BY <1>2, <1>5 DEF SendInductive, HandlersOK
    <2>2. \A j \in Ids : bytes[j] # None => phase'[j] # "free" /\ bytes[j] = digest[of'[j].idem]
      BY <1>4, <1>5 DEF SendInductive, FilesOK
    <2>3. \A j \in Ids : phase'[j] \in {"stored", "retired"} => bytes[j] # None
      BY <1>4 DEF SendInductive, FilesOK
    <2>4. \A y \in Exchanges : wr'[y] = "published" => bytes[id'[y]] # None
      BY <1>4, <2>1 DEF SendInductive, FilesOK
    <2>. QED
      BY <1>2, <2>2, <2>3, <2>4 DEF FilesOK, clientVars
  <1>12. AnswersOK'
    <2>1. \A c : Kept(c) => Kept(c)'
      BY <1>4, <1>5 DEF Kept
    <2>. QED
      BY <1>2, <2>1 DEF SendInductive, AnswersOK, clientVars, gatewayVars
  <1>. QED
    BY <1>7, <1>8, <1>9, <1>10, <1>11, <1>12 DEF SendInductive

\* The file is published under the only row of its send, by the only handler
\* that works on it, and holds what the client hashed.
LEMMA PublishInductive ==
    ASSUME SendInductive, NEW x \in Exchanges, Publish(x)
    PROVE  SendInductive'
  <1>. DEFINE i == id[x]
  <1>1. /\ wr[x] = "reading" /\ sent[x] = digest[x[1]]
        /\ bytes' = [bytes EXCEPT ![i] = sent[x]]
        /\ wr' = [wr EXCEPT ![x] = "published"]
        /\ UNCHANGED <<clientVars, gatewayVars, broken, ans, id, up, depositVars, faults>>
    BY DEF Publish, Verified
  <1>2. i \in Ids /\ phase[i] = "offered" /\ of[i].idem = x[1]
    BY <1>1 DEF SendInductive, HandlersOK, RowsOK, TypeOK
  <1>3. digest[x[1]] \in Contents /\ digest[x[1]] # None
    BY <1>1, RequestIsBound, ValuesAssumption
  <1>. HIDE DEF i
  <1>4. /\ bytes'[i] = digest[x[1]]
        /\ \A j \in Ids : j # i => bytes'[j] = bytes[j]
        /\ wr'[x] = "published"
        /\ \A y \in Exchanges : y # x => wr'[y] = wr[y]
    BY <1>1, <1>2 DEF SendInductive, TypeOK
  <1>5. TypeOK'
    BY <1>1, <1>2 DEF SendInductive, TypeOK, clientVars, gatewayVars, depositVars
  <1>6. ClientOK' /\ ExchangeOK'
    <2>1. \A y \in Exchanges : /\ wr[y] = "none" => wr'[y] = "none"
                               /\ wr'[y] \in {"none", "admit"} => id'[y] = None
      BY <1>1, <1>4 DEF SendInductive, ExchangeOK
    <2>. QED
      BY <1>1, <2>1, WriterFrame
  <1>7. RowsOK'
    BY <1>1 DEF SendInductive, RowsOK, clientVars, depositVars
  <1>8. HandlersOK'
    BY <1>1, <1>4 DEF SendInductive, HandlersOK, depositVars
  <1>9. FilesOK'
    <2>1. \A j \in Ids : bytes'[j] # None => phase[j] # "free" /\ bytes'[j] = digest[of[j].idem]
      BY <1>2, <1>4 DEF SendInductive, FilesOK
    <2>2. \A j \in Ids : phase[j] \in {"stored", "retired"} => bytes'[j] # None
      BY <1>3, <1>4 DEF SendInductive, FilesOK
    <2>3. \A y \in Exchanges : wr'[y] = "published" => bytes'[id[y]] # None
      <3>. SUFFICES ASSUME NEW y \in Exchanges, wr'[y] = "published"
                    PROVE  bytes'[id[y]] # None
        OBVIOUS
      <3>1. CASE y = x
        BY <1>3, <1>4, <3>1 DEF i
      <3>2. CASE y # x
        <4>1. wr[y] = "published" /\ id[y] \in Ids /\ id[y] # i
          BY <1>1, <1>4, <3>2 DEF i, SendInductive, HandlersOK, TypeOK
        <4>. QED
          BY <1>4, <4>1 DEF SendInductive, FilesOK
      <3>. QED
        BY <3>1, <3>2
    <2>. QED
      BY <1>1, <2>1, <2>2, <2>3 DEF FilesOK, clientVars, depositVars
  <1>10. AnswersOK'
    BY <1>1 DEF SendInductive, AnswersOK, Kept, clientVars, gatewayVars, depositVars
  <1>. QED
    BY <1>5, <1>6, <1>7, <1>8, <1>9, <1>10 DEF SendInductive

\* A row in progress is settled, or a stored one retired, while no handler works
\* on it any more.
LEMMA RowStep ==
    ASSUME SendInductive, TypeOK', NEW i \in Ids,
           NEW p \in {"refused", "stored", "retired"}, phase' = [phase EXCEPT ![i] = p],
           \/ phase[i] = "offered" /\ p = "refused"
           \/ phase[i] = "offered" /\ p = "stored" /\ bytes[i] # None
           \/ phase[i] = "stored" /\ p = "retired",
           UNCHANGED <<clientVars, gatewayVars, id, bytes, up, of>>,
           \A y \in Exchanges :
              /\ wr'[y] = wr[y] \/ (wr[y] \notin {"none", "admit"} /\ wr'[y] = "over")
              /\ wr'[y] \in {"reading", "published"} => id[y] # i
              /\ ans'[y] = ans[y] \/ ans'[y] # Created \/ (p = "stored" /\ of[i].idem = y[1])
    PROVE  SendInductive'
  <1>1. /\ phase'[i] = p /\ p \in {"refused", "stored", "retired"}
        /\ \A j \in Ids : j # i => phase'[j] = phase[j]
    BY DEF SendInductive, TypeOK
  <1>2. ClientOK' /\ ExchangeOK'
    <2>1. \A y \in Exchanges : /\ wr[y] = "none" => wr'[y] = "none"
                               /\ wr'[y] \in {"none", "admit"} => id'[y] = None
      BY DEF SendInductive, ExchangeOK
    <2>. QED
      BY <2>1, WriterFrame
  <1>3. \A j \in Ids : phase'[j] # "free" <=> phase[j] # "free"
    BY <1>1
  <1>4. RowsOK'
    BY <1>3 DEF SendInductive, RowsOK, TypeOK, clientVars
  <1>5. HandlersOK'
    BY <1>1 DEF SendInductive, HandlersOK, TypeOK
  <1>6. FilesOK'
    BY <1>1, <1>3 DEF SendInductive, FilesOK, clientVars
  <1>7. AnswersOK'
    <2>1. \A c : Kept(c) => Kept(c)'
      BY <1>1 DEF Kept
    <2>2. p = "stored" => Kept(of[i].idem)'
      BY <1>1 DEF Kept
    <2>. QED
      BY <2>1, <2>2 DEF SendInductive, AnswersOK, clientVars, gatewayVars
  <1>. QED
    BY <1>2, <1>4, <1>5, <1>6, <1>7 DEF SendInductive

\* The handler of a row settles it.
LEMMA HandlerSettles ==
    ASSUME SendInductive, NEW x \in Exchanges,
           Reject(x) \/ StorageFails(x) \/ Complete(x) \/ CompleteFails(x),
           D!Decline(id[x]) \/ D!Store(id[x], TRUE) \/ D!Store(id[x], FALSE)
    PROVE  SendInductive'
  <1>1. wr[x] \in {"reading", "published"}
    BY DEF Reject, StorageFails, Complete, CompleteFails
  <1>2. PICK i \in Ids : i = id[x] /\ phase[i] = "offered" /\ of[i].idem = x[1]
    BY <1>1 DEF SendInductive, HandlersOK, RowsOK, TypeOK
  <1>3. PICK p \in {"refused", "stored"}, status \in Statuses :
          /\ phase' = [phase EXCEPT ![i] = p] /\ Finish(x, status)
          /\ p = "stored" => bytes[i] # None
          /\ status = Created => p = "stored"
    <2>1. PICK q \in {"refused", "stored"} : phase' = [phase EXCEPT ![i] = q]
      BY <1>2 DEF D!Decline, D!Store
    <2>2. CASE Reject(x) \/ StorageFails(x)
      <3>1. phase' = [phase EXCEPT ![i] = "refused"]
        <4>1. CASE D!Decline(id[x])
          BY <1>2, <4>1 DEF D!Decline
        <4>2. CASE UNCHANGED depositVars
          BY <1>2, <2>1, <4>2 DEF depositVars, SendInductive, TypeOK
        <4>. QED
          BY <2>2, <4>1, <4>2 DEF Reject, StorageFails
      <3>2. PICK status \in {Unavailable, Refused} : Finish(x, status)
        BY <2>2 DEF Reject, StorageFails
      <3>3. status \in Statuses /\ status # Created
        BY DEF Statuses, Created, Unavailable, Refused
      <3>. QED
        BY <3>1, <3>2, <3>3
    <2>3. CASE Complete(x) \/ CompleteFails(x)
      <3>1. phase' = [phase EXCEPT ![i] = "stored"]
        <4>1. CASE D!Store(id[x], TRUE) \/ D!Store(id[x], FALSE)
          BY <1>2, <4>1 DEF D!Store
        <4>2. CASE UNCHANGED depositVars
          BY <1>2, <2>1, <4>2 DEF depositVars, SendInductive, TypeOK
        <4>. QED
          BY <2>3, <4>1, <4>2 DEF Complete, CompleteFails
      <3>2. bytes[i] # None
        BY <1>2, <2>3 DEF Complete, CompleteFails, SendInductive, FilesOK
      <3>3. PICK status \in Statuses : Finish(x, status)
        BY <2>3 DEF Complete, CompleteFails, Statuses
      <3>. QED
        BY <3>1, <3>2, <3>3
    <2>. QED
      BY <2>2, <2>3
  <1>4. /\ UNCHANGED <<clientVars, gatewayVars, broken, id, bytes, up, of>>
        /\ faults' \in 0 .. MaxFaults
    <2>1. UNCHANGED <<clientVars, gatewayVars, broken, id, bytes, up, of>>
      BY DEF Reject, StorageFails, Complete, CompleteFails, D!Decline, D!Store
    <2>2. faults' = faults \/ (faults < MaxFaults /\ faults' = faults + 1)
      BY DEF Reject, StorageFails, Complete, CompleteFails, Fault
    <2>. QED
      BY <2>1, <2>2, BoundsAssumption DEF SendInductive, TypeOK
  <1>5. \A y \in Exchanges : y # x /\ wr[y] \in {"reading", "published"} => id[y] # i
    BY <1>1, <1>2 DEF SendInductive, HandlersOK
  <1>6. /\ wr'[x] = "over" /\ ans'[x] = status
        /\ \A y \in Exchanges : y # x => wr'[y] = wr[y] /\ ans'[y] = ans[y]
    BY <1>3 DEF Finish, SendInductive, TypeOK
  <1>7. TypeOK'
    BY <1>2, <1>3, <1>4 DEF Finish, SendInductive, TypeOK, clientVars, gatewayVars, D!Phases
  <1>8. \A y \in Exchanges :
          /\ wr'[y] = wr[y] \/ (wr[y] \notin {"none", "admit"} /\ wr'[y] = "over")
          /\ wr'[y] \in {"reading", "published"} => id[y] # i
          /\ ans'[y] = ans[y] \/ ans'[y] # Created \/ (p = "stored" /\ of[i].idem = y[1])
    BY <1>1, <1>2, <1>3, <1>5, <1>6
  <1>9. \/ phase[i] = "offered" /\ p = "refused"
        \/ phase[i] = "offered" /\ p = "stored" /\ bytes[i] # None
        \/ phase[i] = "stored" /\ p = "retired"
    BY <1>2, <1>3
  <1>10. UNCHANGED <<clientVars, gatewayVars, id, bytes, up, of>>
    BY <1>4
  <1>11. p \in {"refused", "stored", "retired"} /\ phase' = [phase EXCEPT ![i] = p]
    BY <1>3
  <1>. QED
    BY <1>7, <1>8, <1>9, <1>10, <1>11, RowStep

\* Reconcile settles a row that no handler survived on, and retention takes a
\* stored row.
LEMMA RowSettles ==
    ASSUME SendInductive, NEW i \in Ids, Settle(i) \/ Retire(i)
    PROVE  SendInductive'
  <1>1. PICK p \in {"refused", "stored", "retired"} :
          /\ phase' = [phase EXCEPT ![i] = p]
          /\ \/ phase[i] = "offered" /\ p = "refused" /\ ~up
             \/ phase[i] = "offered" /\ p = "stored" /\ bytes[i] # None /\ ~up
             \/ phase[i] = "stored" /\ p = "retired"
    BY DEF Settle, Retire, D!Decline, D!Store, D!Retire
  <1>2. UNCHANGED <<clientVars, gatewayVars, broken, wr, ans, id, bytes, up, of>>
    BY DEF Settle, Retire, D!Decline, D!Store, D!Retire, writerVars
  <1>3. faults' \in 0 .. MaxFaults
    <2>1. CASE Settle(i)
      BY <2>1 DEF Settle, SendInductive, TypeOK
    <2>2. CASE Retire(i)
      BY <2>2, BoundsAssumption DEF Retire, Fault, SendInductive, TypeOK
    <2>. QED
      BY <2>1, <2>2
  <1>4. TypeOK'
    BY <1>1, <1>2, <1>3 DEF SendInductive, TypeOK, clientVars, gatewayVars, D!Phases
  <1>5. \A y \in Exchanges : wr[y] \in {"reading", "published"} => id[y] # i
    BY <1>1 DEF SendInductive, HandlersOK
  <1>6. \A y \in Exchanges :
          /\ wr'[y] = wr[y] \/ (wr[y] \notin {"none", "admit"} /\ wr'[y] = "over")
          /\ wr'[y] \in {"reading", "published"} => id[y] # i
          /\ ans'[y] = ans[y] \/ ans'[y] # Created \/ (p = "stored" /\ of[i].idem = y[1])
    BY <1>2, <1>5
  <1>7. \/ phase[i] = "offered" /\ p = "refused"
        \/ phase[i] = "offered" /\ p = "stored" /\ bytes[i] # None
        \/ phase[i] = "stored" /\ p = "retired"
    BY <1>1
  <1>8. UNCHANGED <<clientVars, gatewayVars, id, bytes, up, of>>
    BY <1>2
  <1>. QED
    BY <1>1, <1>4, <1>6, <1>7, <1>8, RowStep

\* A death of the writer ends its handlers; the rows wait for the next start.
LEMMA CrashInductive ==
    ASSUME SendInductive, Crash \/ Restart
    PROVE  SendInductive'
  <1>1. UNCHANGED <<clientVars, gatewayVars, ans, id, bytes, depositVars>>
    BY DEF Crash, Restart
  <1>2. \A y \in Exchanges : wr'[y] = wr[y] \/ (wr[y] # "none" /\ wr'[y] = "over")
    BY DEF Crash, Restart, SendInductive, TypeOK
  <1>3. \A y \in Exchanges : wr'[y] \notin {"reading", "published"}
    BY DEF Crash, Restart, SendInductive, HandlersOK
  <1>4. TypeOK'
    <2>1. wr' \in [Exchanges -> {"none", "admit", "reading", "published", "over"}]
      BY DEF Crash, Restart, SendInductive, TypeOK
    <2>2. up' \in BOOLEAN
      BY Zenon DEF Crash, Restart
    <2>3. broken' \subseteq Exchanges
      BY DEF Crash, Restart, SendInductive, TypeOK
    <2>4. faults' \in 0 .. MaxFaults
      BY BoundsAssumption DEF Crash, Restart, Fault, SendInductive, TypeOK
    <2>. QED
      BY <1>1, <2>1, <2>2, <2>3, <2>4
         DEF SendInductive, TypeOK, clientVars, gatewayVars, depositVars
  <1>5. ClientOK' /\ ExchangeOK'
    <2>1. \A y \in Exchanges : /\ wr[y] = "none" => wr'[y] = "none"
                               /\ wr'[y] \in {"none", "admit"} => id'[y] = None
      BY <1>1, <1>2 DEF SendInductive, ExchangeOK
    <2>. QED
      BY <1>1, <2>1, WriterFrame
  <1>6. RowsOK' /\ AnswersOK'
    BY <1>1 DEF SendInductive, RowsOK, AnswersOK, Kept, clientVars, gatewayVars, depositVars
  <1>7. HandlersOK' /\ FilesOK'
    BY <1>1, <1>3 DEF SendInductive, HandlersOK, FilesOK, clientVars, depositVars
  <1>. QED
    BY <1>4, <1>5, <1>6, <1>7 DEF SendInductive

-----------------------------------------------------------------------------
LEMMA NextSendInductive == SendInductive /\ [Next]_vars => SendInductive'
  <1>. SUFFICES ASSUME SendInductive, [Next]_vars PROVE SendInductive'
    OBVIOUS
  <1>1. ASSUME NEW c \in Clients,
               \/ FileChanges(c) \/ Hash(c) \/ Attempt(c)
               \/ AttemptFails(c) \/ Interrupted(c) \/ Answered(c)
        PROVE  SendInductive'
    BY <1>1, FileChangesInductive, HashInductive, AttemptInductive, WaitInductive
  <1>2. ASSUME NEW x \in Exchanges,
               Gateway(x) \/ RelayFails(x) \/ Transport(x) \/ BodyArrives(x)
        PROVE  SendInductive'
    BY <1>2, GatewayInductive, ForwardInductive, TransportInductive
  <1>3. ASSUME NEW x \in Exchanges,
               Writer(x) \/ AdmitRefused(x) \/ StorageFails(x) \/ CompleteFails(x)
        PROVE  SendInductive'
    <2>1. CASE AdmitTransfer(x) \/ Publish(x)
      BY <2>1, AdmitTransferInductive, PublishInductive
    <2>2. CASE AdmitExisting(x) \/ AdmitRefused(x)
      BY <2>2, AdmitInductive DEF LeavesRow
    <2>3. CASE Reject(x) \/ StorageFails(x) \/ Complete(x) \/ CompleteFails(x)
      <3>1. CASE UNCHANGED depositVars /\ ~Complete(x)
        BY <2>3, <3>1, AdmitInductive DEF LeavesRow
      <3>2. CASE D!Decline(id[x]) \/ D!Store(id[x], TRUE) \/ D!Store(id[x], FALSE)
        BY <2>3, <3>2, HandlerSettles
      <3>3. \/ UNCHANGED depositVars /\ ~Complete(x)
            \/ D!Decline(id[x]) \/ D!Store(id[x], TRUE) \/ D!Store(id[x], FALSE)
        BY <2>3 DEF Reject, StorageFails, Complete, CompleteFails
      <3>. QED
        BY <3>1, <3>2, <3>3
    <2>. QED
      BY <1>3, <2>1, <2>2, <2>3 DEF Writer
  <1>4. ASSUME NEW i \in Ids, Settle(i) \/ Retire(i)
        PROVE  SendInductive'
    BY <1>4, RowSettles
  <1>5. CASE UNCHANGED vars
    <2>. USE <1>5 DEF vars, clientVars, gatewayVars, writerVars, depositVars, SendInductive
    <2>1. TypeOK'
      BY DEF TypeOK
    <2>2. ClientOK' /\ ExchangeOK' /\ RowsOK'
      BY DEF ClientOK, ExchangeOK, RowsOK
    <2>3. HandlersOK' /\ FilesOK' /\ AnswersOK'
      BY DEF HandlersOK, FilesOK, AnswersOK, Kept
    <2>. QED
      BY <2>1, <2>2, <2>3
  <1>. QED
    BY <1>1, <1>2, <1>3, <1>4, <1>5, CrashInductive DEF Next

\* One row per send, one handler per row in progress, and a file of the hashed
\* bytes behind every 201, in every reachable state.
THEOREM SendInvariant == Spec => []SendInductive
  BY InitSendInductive, NextSendInductive, PTL DEF Spec

\* A set with no two different members has at most one.
LEMMA AtMostOne ==
    ASSUME NEW S, \A u, v \in S : u = v
    PROVE  Cardinality(S) <= 1
  <1>1. CASE S = {}
    BY <1>1, FS_EmptySet
  <1>2. CASE S # {}
    <2>1. PICK u \in S : TRUE
      BY <1>2
    <2>2. S = {u}
      BY <2>1
    <2>3. Cardinality({u}) = 1
      BY FS_Singleton
    <2>. QED
      BY <2>2, <2>3
  <1>. QED
    BY <1>1, <1>2

\* "Backup ricevuto e salvato" is printed only for a backup that is, or was until
\* retention took it, in the archive with the bytes the client hashed: for any
\* number of clients, attempts, identifiers and failures.
THEOREM ReportIsTrue == Spec => []ReportedIsSaved
  <1>1. SendInductive => ReportedIsSaved
    <2>. SUFFICES ASSUME SendInductive, NEW c \in Clients, pc[c] = "saved"
                  PROVE  \E i \in Ids : /\ phase[i] \in {"stored", "retired"}
                                        /\ \E a \in 1 .. Attempts : id[<<c, a>>] = i
                                        /\ bytes[i] = digest[c]
      BY DEF ReportedIsSaved
    <2>1. PICK i \in Ids : phase[i] \in {"stored", "retired"} /\ of[i].idem = c
      BY DEF SendInductive, AnswersOK, Kept
    <2>2. bytes[i] = digest[c]
      BY <2>1 DEF SendInductive, FilesOK
    <2>3. \E a \in 1 .. Attempts : id[<<c, a>>] = i
      BY <2>1 DEF SendInductive, RowsOK
    <2>. QED
      BY <2>1, <2>2, <2>3
  <1>. QED
    BY <1>1, SendInvariant, PTL

\* The attempts of a send, however many are under way, share one identifier and
\* never two of them receive or publish at the same time.
THEOREM SendsOnce == Spec => []SentOnce
  <1>1. SendInductive => SentOnce
    <2>. SUFFICES ASSUME SendInductive, NEW c \in Clients
                  PROVE  /\ Cardinality({i \in Ids : \E a \in 1 .. Attempts : id[<<c, a>>] = i}) <= 1
                         /\ Cardinality({a \in 1 .. Attempts : wr[<<c, a>>] \in {"reading", "published"}}) <= 1
      BY DEF SentOnce
    <2>1. \A a \in 1 .. Attempts : id[<<c, a>>] \in Ids =>
             phase[id[<<c, a>>]] # "free" /\ of[id[<<c, a>>]].idem = c
      BY Pairs, ValuesAssumption DEF SendInductive, RowsOK
    <2>2. \A a, b \in 1 .. Attempts :
             id[<<c, a>>] \in Ids /\ id[<<c, b>>] \in Ids => id[<<c, a>>] = id[<<c, b>>]
      BY <2>1 DEF SendInductive, RowsOK
    <2>3. ASSUME NEW a \in 1 .. Attempts, NEW b \in 1 .. Attempts,
                 wr[<<c, a>>] \in {"reading", "published"},
                 wr[<<c, b>>] \in {"reading", "published"}
          PROVE  a = b
      <3>1. id[<<c, a>>] \in Ids /\ id[<<c, b>>] \in Ids
        BY <2>3, Pairs DEF SendInductive, HandlersOK, TypeOK
      <3>2. id[<<c, a>>] = id[<<c, b>>]
        BY <2>2, <3>1
      <3>3. <<c, a>> = <<c, b>>
        BY <2>3, <3>2, Pairs DEF SendInductive, HandlersOK
      <3>. QED
        BY <3>3
    <2>4. \A i, j \in {i \in Ids : \E a \in 1 .. Attempts : id[<<c, a>>] = i} : i = j
      BY <2>2
    <2>5. \A a, b \in {a \in 1 .. Attempts : wr[<<c, a>>] \in {"reading", "published"}} : a = b
      BY <2>3
    <2>. QED
      BY <2>4, <2>5, AtMostOne
  <1>. QED
    BY <1>1, SendInvariant, PTL

\* The writer that gateway, connections and clients meet here is the service of
\* module Deposit: every step, a crash, a lost answer or a retry included, is a
\* step of it or leaves it alone.  Ingest implements the same service.
THEOREM SendUsesDeposit == Spec => D!Spec
  <1>1. Init => D!Init
    BY DEF Init
  <1>2. SendInductive /\ [Next]_vars => [D!Next]_(D!vars)
    <2>. SUFFICES ASSUME SendInductive, Next PROVE D!Next \/ UNCHANGED depositVars
      BY DEF vars, depositVars, D!vars
    <2>1. ASSUME NEW c \in Clients,
                 \/ FileChanges(c) \/ Hash(c) \/ Attempt(c)
                 \/ AttemptFails(c) \/ Interrupted(c) \/ Answered(c)
          PROVE  UNCHANGED depositVars
      BY <2>1 DEF FileChanges, Hash, Attempt, AttemptFails, Interrupted, Answered
    <2>2. ASSUME NEW x \in Exchanges,
                 Gateway(x) \/ RelayFails(x) \/ Transport(x) \/ BodyArrives(x)
          PROVE  UNCHANGED depositVars
      BY <2>2 DEF Gateway, GatewayBusy, Forward, CollectResponse, CollectError,
                  ConnFailed, Unblock, CancelOutbound, GiveUp, Relay, RelayFails,
                  Transport, RoundTripAnswers, RoundTripLoses, RoundTripAborts,
                  BodyArrives
    <2>3. ASSUME NEW x \in Exchanges, AdmitTransfer(x) PROVE D!Next
      <3>1. Request(x) \in D!Request
        BY <2>3, RequestIsBound DEF AdmitTransfer
      <3>. QED
        BY <2>3, <3>1 DEF AdmitTransfer, D!Next
    <2>4. ASSUME NEW x \in Exchanges, AdmitExisting(x)
          PROVE  D!Next \/ UNCHANGED depositVars
      BY <2>4 DEF AdmitExisting, Existing, D!Next
    <2>5. ASSUME NEW x \in Exchanges,
                 Reject(x) \/ StorageFails(x) \/ Complete(x) \/ CompleteFails(x)
          PROVE  D!Next \/ UNCHANGED depositVars
      <3>1. id[x] \in Ids
        BY <2>5 DEF Reject, StorageFails, Complete, CompleteFails, SendInductive, HandlersOK, TypeOK
      <3>2. D!Decline(id[x]) \/ D!Store(id[x], TRUE) \/ D!Store(id[x], FALSE) \/ UNCHANGED depositVars
        BY <2>5 DEF Reject, StorageFails, Complete, CompleteFails
      <3>. QED
        BY <3>1, <3>2 DEF D!Next
    <2>6. ASSUME NEW x \in Exchanges, Publish(x) \/ AdmitRefused(x)
          PROVE  UNCHANGED depositVars
      BY <2>6 DEF Publish, AdmitRefused
    <2>7. ASSUME NEW i \in Ids, Settle(i) \/ Retire(i) PROVE D!Next
      <3>1. D!Decline(i) \/ D!Store(i, FALSE) \/ D!Retire(i)
        BY <2>7 DEF Settle, Retire
      <3>. QED
        BY <3>1 DEF D!Next
    <2>8. CASE Crash \/ Restart
      BY <2>8 DEF Crash, Restart
    <2>. QED
      BY <2>1, <2>2, <2>3, <2>4, <2>5, <2>6, <2>7, <2>8 DEF Next, Writer
  <1>. QED
    BY <1>1, <1>2, SendInvariant, PTL DEF Spec, D!Spec
=============================================================================

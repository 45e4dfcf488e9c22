------------------------- MODULE NwcPaymentsProofs -------------------------
(* Theorems about outgoing payments, for any number of workers, hashes,    *)
(* wallets and faults: the ledger and LND agree on what was paid.          *)
EXTENDS NwcPayments, NwcStoreProofs, FiniteSetTheorems

\* The part of PaymentsTypeOK about requests in hand.
JobsOK ==
  \A w \in Worker : job[w].pc # "idle" =>
    /\ job[w].tx \in 1..lastTx \ internal
    /\ job[w].hash \in Hash
    /\ \A v \in Worker \ {w} : job[v].tx # job[w].tx
    /\ job[w].tx \in DOMAIN txs =>
         txs[job[w].tx] = Row(job[w].app, "outgoing", "pending", job[w].amount,
                              job[w].reserve, job[w].hash)

\* LND knows a payment by the row it was asked for, which is an outgoing row of
\* this hash, not one that was settled inside the ledger; its fee stays below
\* the limit it was given.  A row that was not settled inside has a hash.
AttemptsOK ==
  /\ \A h \in Hash :
       /\ lnd[h].tx \in (0..lastTx) \ internal
       /\ lnd[h].state # "none" => lnd[h].tx # 0
       /\ lnd[h].fee <= lnd[h].limit
       /\ lnd[h].tx \in DOMAIN txs =>
            txs[lnd[h].tx].type = "outgoing" /\ txs[lnd[h].tx].hash = h
  /\ \A t \in DOMAIN txs \ internal : txs[t].type = "outgoing" => txs[t].hash \in Hash

\* What a worker knows of LND's payment: before the call there is none for its
\* row, afterwards it has the figures of the request; a paid one is paid, and a
\* failed one failed or is somebody else's, unless the answer was lost.  An idle
\* worker knows of none.
AnswersOK ==
  /\ \A w \in Worker : job[w].pc = "idle" => job[w] = Idle
  /\ \A w \in Worker, h \in Hash :
       /\ job[w].pc # "idle" /\ lnd[h].tx = job[w].tx =>
            /\ job[w].pc # "calling" /\ h = job[w].hash
            /\ lnd[h].amount = job[w].amount /\ lnd[h].limit = job[w].reserve
            /\ job[w].pc = "failed" => lnd[h].state = "failed" \/ job[w].tx \in lost
       /\ job[w].pc = "paid" /\ h = job[w].hash =>
            /\ lnd[h].tx = job[w].tx /\ lnd[h].state = "paid"
            /\ lnd[h].fee = job[w].fee

\* The inductive invariant.
Agreement == /\ PaymentsTypeOK /\ AttemptsOK /\ AnswersOK
             /\ PaidIsCharged /\ ChargesAreReal

-----------------------------------------------------------------------------
(* Every step of the handlers is one of the store's general client.        *)

LEMMA HandlersUseTheStore ==
  ASSUME Agreement, [Next]_vars
  PROVE  [StoreNext]_storeVars
<1> USE StoreAssumption DEF storeVars
<1>1. ASSUME NEW w \in Worker, NEW a \in AppId, NEW h \in Hash, NEW amt \in Amount,
             PayInternally(w, a, h, amt) \/ Reserve(w, a, h, amt)
      PROVE  StoreNext
  BY <1>1 DEF PayInternally, Reserve, StoreNext, Pay
<1>2. ASSUME NEW w \in Worker, BookPaid(w) PROVE [StoreNext]_storeVars
  <2> DEFINE t == job[w].tx
             h == job[w].hash
  <2>1. CASE FinalizeSucceeded(t, job[w].fee)
    <3>1. job[w].pc = "paid" /\ job[w].pc # "idle" /\ t \in DOMAIN txs
      BY <1>2, <2>1 DEF BookPaid, FinalizeSucceeded
    <3>2. txs[t] = Row(job[w].app, "outgoing", "pending", job[w].amount,
                       job[w].reserve, h) /\ h \in Hash
      BY <3>1 DEF Agreement, PaymentsTypeOK
    <3>3. lnd[h].fee = job[w].fee /\ lnd[h].tx = t /\ lnd[h].limit = job[w].reserve
      BY <3>1, <3>2 DEF Agreement, AnswersOK
    <3>4. lnd[h].fee \in Nat /\ job[w].reserve \in Nat /\ lnd[h].fee <= lnd[h].limit
      BY <3>2 DEF Agreement, PaymentsTypeOK, AttemptsOK, Job, Payment
    <3>5. job[w].fee \in 0..txs[t].reserve BY <3>2, <3>3, <3>4 DEF Row
    <3>6. t \in PendingOutgoing BY <3>1, <3>2 DEF PendingOutgoing, Row
    <3> QED BY <2>1, <3>5, <3>6 DEF StoreNext, Pay
  <2>2. CASE UNCHANGED storeVars BY <2>2
  <2> QED BY <1>2, <2>1, <2>2 DEF BookPaid
<1>3. ASSUME NEW w \in Worker, BookFailed(w) PROVE [StoreNext]_storeVars
  <2> DEFINE t == job[w].tx
  <2>1. CASE FinalizeFailed(t)
    <3>1. job[w].pc # "idle" /\ t \in DOMAIN txs
      BY <1>3, <2>1 DEF BookFailed, FinalizeFailed
    <3>a. txs[t] = Row(job[w].app, "outgoing", "pending", job[w].amount,
                       job[w].reserve, job[w].hash)
      BY <3>1 DEF Agreement, PaymentsTypeOK
    <3>2. t \in PendingOutgoing BY <3>1, <3>a DEF PendingOutgoing, Row
    <3> QED BY <2>1, <3>2 DEF StoreNext, Pay
  <2>2. CASE UNCHANGED storeVars BY <2>2
  <2> QED BY <1>3, <2>1, <2>2 DEF BookFailed
<1>4. ASSUME NEW a \in AppId, NEW h \in Hash, NEW amt \in Amount, MakeInvoice(a, h, amt)
      PROVE  StoreNext
  BY <1>4 DEF MakeInvoice, StoreNext, Receive
<1>5. ASSUME NEW a \in AppId, DeleteWallet(a) PROVE StoreNext
  BY <1>5 DEF DeleteWallet, StoreNext, Operator
<1>6. ASSUME NEW w \in Worker, WorkerStep(w), ~BookPaid(w), ~BookFailed(w)
      PROVE  UNCHANGED storeVars
  BY <1>6 DEF WorkerStep, LndAccepts, LndRefuses, ReceivePaid, ReceiveFailed, LoseAnswer,
              Escape
<1>7. ASSUME NEW h \in Hash, LndPays(h) \/ LndFails(h) PROVE UNCHANGED storeVars
  BY <1>7 DEF LndPays, LndFails
<1>8. CASE Crash BY <1>8 DEF Crash
<1>9. CASE UNCHANGED vars BY <1>9 DEF vars
<1> QED BY <1>1, <1>2, <1>3, <1>4, <1>5, <1>6, <1>7, <1>8, <1>9 DEF Next

-----------------------------------------------------------------------------
(* The invariant is inductive.                                             *)

\* The types without what JobsOK says.
Types == /\ job \in [Worker -> Job] /\ lnd \in [Hash -> Payment]
         /\ internal \subseteq 1..lastTx /\ lost \subseteq (1..lastTx) \ internal
         /\ dropped \subseteq 1..lastTx /\ faults \in 0..MaxFault

LEMMA TypesAndJobs == PaymentsTypeOK <=> StoreTypeOK /\ Types /\ JobsOK
BY DEF PaymentsTypeOK, Types, JobsOK

\* A step on the table that the handlers know nothing of: outgoing rows stay as
\* they are or disappear, and new rows have new ids and charge nobody for
\* anything that was not settled inside the ledger.
LEMMA RowsAside ==
  ASSUME Agreement, StoreTypeOK', UNCHANGED <<job, lnd, lost, dropped, faults>>,
         lastTx <= lastTx', internal \subseteq internal',
         internal' \subseteq internal \cup (lastTx + 1)..lastTx',
         \A t \in DOMAIN txs' \cap DOMAIN txs :
           IF txs[t].type = "outgoing" THEN txs'[t] = txs[t]
                                       ELSE txs'[t].type = txs[t].type,
         \A t \in DOMAIN txs' \ DOMAIN txs :
           /\ t > lastTx
           /\ txs'[t].type = "outgoing" => t \in internal'
  PROVE  Agreement'
<1>0. /\ StoreTypeOK /\ Types /\ JobsOK /\ lastTx \in Nat /\ lastTx' \in Nat
      /\ DOMAIN txs \subseteq 1..lastTx
  BY TypesAndJobs DEF Agreement, StoreTypeOK
<1>1. Types'
  BY <1>0 DEF Types
<1>2. JobsOK'
  BY <1>0 DEF JobsOK, Row, Types, Job
<1>3. AttemptsOK'
  BY <1>0 DEF Agreement, AttemptsOK, Types, Payment
<1>4. AnswersOK'
  BY DEF Agreement, AnswersOK
<1>5. PaidIsCharged'
  BY <1>0 DEF Agreement, AttemptsOK, PaidIsCharged, Types, Payment
<1>6. ChargesAreReal'
  BY <1>0 DEF Agreement, ChargesAreReal
<1> QED BY <1>1, <1>2, <1>3, <1>4, <1>5, <1>6 DEF Agreement, PaymentsTypeOK, Types, JobsOK

\* A step that leaves the ledger, and with it the attempts' rows, alone.
LEMMA LedgerAside ==
  ASSUME Agreement, UNCHANGED <<storeVars, internal>>, Types',
         AttemptsOK', AnswersOK', PaidIsCharged', ChargesAreReal',
         \A w \in Worker :
           \/ job'[w] = Idle \/ job'[w] = job[w]
           \/ /\ job[w].pc # "idle"
              /\ \A f \in {"tx", "app", "hash", "amount", "reserve"} : job'[w][f] = job[w][f]
  PROVE  Agreement'
<1>1. StoreTypeOK' BY DEF Agreement, PaymentsTypeOK, StoreTypeOK, storeVars
<1>2. /\ job' \in [Worker -> Job] /\ job \in [Worker -> Job]
  BY DEF Agreement, PaymentsTypeOK, Types
<1>3. ASSUME NEW w \in Worker, job'[w].pc # "idle"
      PROVE  /\ job[w].pc # "idle" /\ job'[w].tx = job[w].tx /\ job'[w].app = job[w].app
             /\ job'[w].hash = job[w].hash /\ job'[w].amount = job[w].amount
             /\ job'[w].reserve = job[w].reserve
  BY <1>2, <1>3 DEF Job, Idle
<1>4. JobsOK'
  <2> SUFFICES ASSUME NEW w \in Worker, job'[w].pc # "idle"
               PROVE  /\ job'[w].tx \in 1..lastTx \ internal /\ job'[w].hash \in Hash
                      /\ \A v \in Worker \ {w} : job'[v].tx # job'[w].tx
                      /\ job'[w].tx \in DOMAIN txs =>
                           txs[job'[w].tx] =
                             Row(job'[w].app, "outgoing", "pending", job'[w].amount,
                                 job'[w].reserve, job'[w].hash)
    BY DEF JobsOK, storeVars
  <2>1. \A v \in Worker : job'[v].tx \in {0, job[v].tx}
    BY <1>2 DEF Job, Idle
  <2> QED BY <1>3, <2>1 DEF Agreement, PaymentsTypeOK
<1> QED BY <1>1, <1>4 DEF Agreement, PaymentsTypeOK, Types, JobsOK

\* The exchange with LND: the call, its outcome, and its answer or the loss of it.
LEMMA WorkerAgrees ==
  ASSUME Agreement, NEW w \in Worker, WorkerStep(w), ~BookPaid(w), ~BookFailed(w)
  PROVE  Agreement'
<1> DEFINE g == job[w].hash
           t == job[w].tx
<1> USE StoreAssumption, PaymentsAssumption DEF storeVars
<1>0. /\ StoreTypeOK /\ Types /\ JobsOK /\ AttemptsOK /\ AnswersOK /\ PaidIsCharged
      /\ ChargesAreReal /\ lastTx \in 0..MaxTx /\ DOMAIN txs \subseteq 1..lastTx
  BY TypesAndJobs DEF Agreement, StoreTypeOK
<1>1. CASE LndAccepts(w)
  <2>0. /\ job[w].pc = "calling" /\ lnd[g].state \in {"none", "failed"}
        /\ lnd' = [lnd EXCEPT ![g] =
             [state |-> "inflight", tx |-> t, app |-> job[w].app,
              amount |-> job[w].amount, limit |-> job[w].reserve, fee |-> 0]]
        /\ job' = [job EXCEPT ![w].pc = "waiting"]
        /\ UNCHANGED <<storeVars, internal, lost, dropped, faults>>
    BY <1>1 DEF LndAccepts
  <2>1. /\ g \in Hash /\ t \in 1..lastTx \ internal
        /\ t \in DOMAIN txs => /\ txs[t].type = "outgoing" /\ txs[t].hash = g
                               /\ txs[t].state = "pending"
    <3>1. /\ g \in Hash /\ t \in 1..lastTx \ internal
          /\ t \in DOMAIN txs => txs[t] = Row(job[w].app, "outgoing", "pending",
                                              job[w].amount, job[w].reserve, g)
      BY <1>0, <2>0 DEF JobsOK
    <3> QED BY <3>1 DEF Row
  <2>2. Types' BY <1>0, <2>0, <2>1 DEF Types, Job, Payment
  <2>3. AttemptsOK'
    BY <1>0, <2>0, <2>1 DEF AttemptsOK, Types, Job, Payment
  <2>4. AnswersOK'
    BY <1>0, <2>0, <2>1 DEF AnswersOK, JobsOK, Types, Job, Payment
  <2>5. PaidIsCharged'
    BY <1>0, <2>0, <2>1 DEF PaidIsCharged, Types, Payment
  <2>6. ChargesAreReal'
    BY <1>0, <2>0, <2>1 DEF ChargesAreReal, Types, Payment
  <2>7. \A v \in Worker : \/ job'[v] = job[v]
                          \/ /\ job[v].pc # "idle"
                             /\ \A f \in {"tx", "app", "hash", "amount", "reserve"} :
                                  job'[v][f] = job[v][f]
    BY <1>0, <2>0 DEF Types, Job
  <2> QED BY <2>0, <2>2, <2>3, <2>4, <2>5, <2>6, <2>7, LedgerAside
<1>2. CASE LndRefuses(w) \/ ReceivePaid(w) \/ ReceiveFailed(w) \/ LoseAnswer(w)
  <2>0. /\ job[w].pc \in {"calling", "waiting"} /\ lost \subseteq lost'
        /\ lost' \subseteq lost \cup {t}
        /\ \/ /\ job' = [job EXCEPT ![w].pc = "failed"]
              /\ job[w].pc = "calling" \/ AnswerFailed(w) \/ t \in lost'
           \/ /\ job' = [job EXCEPT ![w].pc = "paid", ![w].fee = lnd[g].fee]
              /\ AnswerPaid(w)
        /\ faults' = faults \/ Fault
        /\ UNCHANGED <<storeVars, internal, lnd, dropped>>
    BY <1>2 DEF LndRefuses, ReceivePaid, ReceiveFailed, LoseAnswer
  <2>1. g \in Hash /\ t \in 1..lastTx \ internal
    BY <1>0, <2>0 DEF JobsOK
  <2>2. faults' \in 0..MaxFault BY <1>0, <2>0 DEF Types, Fault
  <2>3. Types' BY <1>0, <2>0, <2>1, <2>2 DEF Types, Job, Payment
  <2>4. AttemptsOK' BY <1>0, <2>0 DEF AttemptsOK
  <2>5. AnswersOK'
    BY <1>0, <2>0, <2>1 DEF AnswersOK, AnswerFailed, AnswerPaid, Types, Job
  <2>6. PaidIsCharged' BY <1>0, <2>0 DEF PaidIsCharged
  <2>7. ChargesAreReal' BY <1>0, <2>0 DEF ChargesAreReal
  <2>8. \A v \in Worker : \/ job'[v] = job[v]
                          \/ /\ job[v].pc # "idle"
                             /\ \A f \in {"tx", "app", "hash", "amount", "reserve"} :
                                  job'[v][f] = job[v][f]
    BY <1>0, <2>0 DEF Types, Job
  <2> QED BY <2>0, <2>3, <2>4, <2>5, <2>6, <2>7, <2>8, LedgerAside
<1>3. CASE Escape(w)
  <2>0. /\ job[w].pc # "idle" /\ job' = [job EXCEPT ![w] = Idle] /\ Fault
        /\ dropped' = dropped \cup {t}
        /\ UNCHANGED <<storeVars, internal, lnd, lost>>
    BY <1>3 DEF Escape
  <2>1. t \in 1..lastTx BY <1>0, <2>0 DEF JobsOK
  <2>2. Types'
    <3>1. dropped' \subseteq 1..lastTx /\ UNCHANGED <<lastTx, internal, lost, lnd>>
      BY <1>0, <2>0, <2>1 DEF Types
    <3>2. job' \in [Worker -> Job] BY <1>0, <2>0 DEF Types, Job, Idle
    <3>3. faults' \in 0..MaxFault BY <1>0, <2>0 DEF Types, Fault
    <3> QED BY <1>0, <3>1, <3>2, <3>3 DEF Types
  <2>3. AttemptsOK' /\ PaidIsCharged' /\ ChargesAreReal'
    BY <1>0, <2>0 DEF AttemptsOK, PaidIsCharged, ChargesAreReal
  <2>4. AnswersOK' BY <1>0, <2>0 DEF AnswersOK, Types, Idle
  <2>5. \A v \in Worker : job'[v] = Idle \/ job'[v] = job[v] BY <1>0, <2>0 DEF Types
  <2> QED BY <2>0, <2>2, <2>3, <2>4, <2>5, LedgerAside
<1> QED BY <1>1, <1>2, <1>3 DEF WorkerStep

\* LND ends a payment.
LEMMA LndAgrees ==
  ASSUME Agreement, NEW h \in Hash, LndPays(h) \/ LndFails(h)
  PROVE  Agreement'
<1>0. /\ StoreTypeOK /\ Types /\ JobsOK /\ AttemptsOK /\ AnswersOK /\ PaidIsCharged
      /\ ChargesAreReal
  BY TypesAndJobs DEF Agreement
<1>1. PICK state \in {"paid", "failed"}, fee \in 0..lnd[h].limit :
        /\ lnd[h].state = "inflight"
        /\ \/ lnd' = [lnd EXCEPT ![h].state = state, ![h].fee = fee]
           \/ state = "failed" /\ lnd' = [lnd EXCEPT ![h].state = state]
        /\ UNCHANGED <<storeVars, job, internal, lost, dropped, faults>>
  <2>1. lnd[h].limit \in Nat BY <1>0 DEF Types, Payment
  <2>2. 0 \in 0..lnd[h].limit BY <2>1
  <2> QED BY <2>2 DEF LndPays, LndFails, storeVars
<1>2. Types' BY <1>0, <1>1 DEF Types, Payment, storeVars
<1>3. AttemptsOK' BY <1>0, <1>1 DEF AttemptsOK, Types, Payment, storeVars
<1>4. AnswersOK' BY <1>0, <1>1 DEF AnswersOK, Types, Payment
<1>5. PaidIsCharged' BY <1>0, <1>1 DEF PaidIsCharged, Types, Payment, storeVars
<1>6. ChargesAreReal'
  <2>1. ASSUME NEW g \in Hash, lnd[g].state = "paid" PROVE lnd'[g] = lnd[g]
    <3>1. g # h BY <1>1, <2>1
    <3> QED BY <1>0, <1>1, <3>1 DEF Types
  <2>2. \A t \in DOMAIN txs \ internal : txs[t].type = "outgoing" => txs[t].hash \in Hash
    BY <1>0 DEF AttemptsOK
  <2> QED BY <1>0, <1>1, <2>1, <2>2 DEF ChargesAreReal, storeVars
<1> QED BY <1>1, <1>2, <1>3, <1>4, <1>5, <1>6, LedgerAside

\* The booking of an outcome: the row of this worker and no other is closed, the
\* way LND's payment ended unless the answer was lost.
LEMMA BookingAgrees ==
  ASSUME Agreement, StoreTypeOK', NEW w \in Worker, BookPaid(w) \/ BookFailed(w)
  PROVE  Agreement'
<1> DEFINE g == job[w].hash
           t == job[w].tx
<1>0. /\ StoreTypeOK /\ Types /\ JobsOK /\ AttemptsOK /\ AnswersOK /\ PaidIsCharged
      /\ ChargesAreReal
  BY TypesAndJobs DEF Agreement
<1>1. /\ job[w].pc \in {"paid", "failed"}
      /\ job' = [job EXCEPT ![w] = Idle]
      /\ UNCHANGED <<lnd, internal, lost, dropped, faults>>
  BY DEF BookPaid, BookFailed
<1>2. Types' BY <1>0, <1>1, StoreAssumption DEF Types, Job, Idle, BookPaid,
                BookFailed, FinalizeSucceeded, FinalizeFailed, storeVars
<1>3. AnswersOK' BY <1>0, <1>1 DEF AnswersOK, Types, Job, Idle
<1>4. CASE UNCHANGED storeVars
  <2>1. AttemptsOK' /\ PaidIsCharged' /\ ChargesAreReal'
    BY <1>0, <1>1, <1>4 DEF AttemptsOK, PaidIsCharged, ChargesAreReal, storeVars
  <2>2. \A v \in Worker : job'[v] = Idle \/ job'[v] = job[v]
    BY <1>0, <1>1 DEF Types
  <2> QED BY <1>1, <1>2, <1>3, <1>4, <2>1, <2>2, LedgerAside
<1>5. CASE t \in DOMAIN txs /\ ~UNCHANGED storeVars
  <2>1. /\ g \in Hash /\ t \in 1..lastTx \ internal
        /\ txs[t] = Row(job[w].app, "outgoing", "pending", job[w].amount,
                       job[w].reserve, g)
        /\ \A v \in Worker \ {w} : job[v].tx # t
    BY <1>0, <1>1, <1>5 DEF JobsOK
  <2>2. /\ txs[t].type = "outgoing" /\ txs[t].hash = g /\ txs[t].amount = job[w].amount
        /\ txs[t] \in TxRow
    BY <1>0, <1>5, <2>1 DEF Row, StoreTypeOK
  <2>3. /\ UNCHANGED lastTx /\ DOMAIN txs' = DOMAIN txs
        /\ \A u \in DOMAIN txs \ {t} : txs'[u] = txs[u]
        /\ txs'[t].type = "outgoing" /\ txs'[t].hash = g
        /\ \/ /\ job[w].pc = "paid" /\ txs'[t].state = "settled"
              /\ txs'[t].amount = job[w].amount /\ txs'[t].fees = job[w].fee
           \/ job[w].pc = "failed" /\ txs'[t].state = "failed"
    <3>0. txs \in [DOMAIN txs -> TxRow] BY <1>0 DEF StoreTypeOK
    <3>1. CASE BookPaid(w)
      <4>1. /\ job[w].pc = "paid" /\ UNCHANGED lastTx
            /\ txs' = [txs EXCEPT ![t].state = "settled", ![t].fees = job[w].fee,
                                  ![t].reserve = 0]
        BY <1>5, <3>1 DEF BookPaid, FinalizeSucceeded
      <4> QED BY <1>5, <2>2, <3>0, <4>1 DEF TxRow
    <3>2. CASE BookFailed(w)
      <4>1. /\ job[w].pc = "failed" /\ UNCHANGED lastTx
            /\ txs' = [txs EXCEPT ![t].state = "failed", ![t].reserve = 0]
        BY <1>5, <3>2 DEF BookFailed, FinalizeFailed
      <4> QED BY <1>5, <2>2, <3>0, <4>1 DEF TxRow
    <3> QED BY <3>1, <3>2
  <2>4. JobsOK'
    <3>1. \A v \in Worker : \/ v = w /\ job'[v] = Idle
                            \/ v # w /\ job'[v] = job[v]
      BY <1>0, <1>1 DEF Types
    <3> QED BY <1>0, <1>1, <2>1, <2>3, <3>1 DEF JobsOK, Idle
  <2>5. AttemptsOK' BY <1>0, <1>1, <2>1, <2>2, <2>3 DEF AttemptsOK
  <2>6. PaidIsCharged'
    BY <1>0, <1>1, <2>1, <2>3 DEF PaidIsCharged, AnswersOK
  <2>7. ChargesAreReal'
    BY <1>0, <1>1, <2>1, <2>3 DEF ChargesAreReal, AnswersOK
  <2> QED BY <1>2, <1>3, <2>4, <2>5, <2>6, <2>7
          DEF Agreement, PaymentsTypeOK, Types, JobsOK
<1> QED
  BY <1>4, <1>5 DEF BookPaid, BookFailed, FinalizeSucceeded, FinalizeFailed

\* A reservation: a new row, which LND has not heard of.
LEMMA ReservationAgrees ==
  ASSUME Agreement, StoreTypeOK', NEW w \in Worker, NEW a \in AppId, NEW h \in Hash,
         NEW amt \in Amount, Reserve(w, a, h, amt)
  PROVE  Agreement'
<1> DEFINE reserve == FeeReserve(amt)
           row == Row(a, "outgoing", "pending", amt, reserve, h)
<1>0. /\ StoreTypeOK /\ Types /\ JobsOK /\ AttemptsOK /\ AnswersOK /\ PaidIsCharged
      /\ ChargesAreReal /\ lastTx \in Nat /\ DOMAIN txs \subseteq 1..lastTx
  BY TypesAndJobs DEF Agreement, StoreTypeOK
<1>1. reserve \in Nat /\ amt \in Nat BY FeeReserveNat, StoreAssumption
<1>2. /\ InsertTx(row) /\ job[w] = Idle
      /\ job' = [job EXCEPT ![w] =
           [pc |-> "calling", tx |-> lastTx + 1, app |-> a, hash |-> h,
            amount |-> amt, reserve |-> reserve, fee |-> 0]]
      /\ UNCHANGED <<lnd, internal, lost, dropped, faults>>
  BY DEF Reserve, ReserveExternal
<1>3. row.type = "outgoing" /\ row.state = "pending" BY DEF Row
<1> HIDE DEF reserve, row
<1>4. /\ lastTx' = lastTx + 1 /\ lastTx + 1 \notin DOMAIN txs
      /\ DOMAIN txs' = DOMAIN txs \cup {lastTx + 1}
      /\ txs'[lastTx + 1] = row
      /\ \A t \in DOMAIN txs : txs'[t] = txs[t]
  BY <1>0, <1>2, InsertRow
<1>5. lastTx + 1 \in 0..MaxTx BY <1>4 DEF StoreTypeOK
<1>6. Types'
  BY <1>0, <1>1, <1>2, <1>4, <1>5, StoreAssumption DEF Types, Job, AppId
<1>7. JobsOK'
  <2>1. \A v \in Worker \ {w} : job'[v] = job[v] BY <1>0, <1>2 DEF Types
  <2>2. /\ job'[w].tx = lastTx + 1 /\ job'[w].hash = h
        /\ row = Row(job'[w].app, "outgoing", "pending", job'[w].amount,
                     job'[w].reserve, h)
    BY <1>0, <1>2 DEF Types, row
  <2>3. \A v \in Worker : job[v].tx \in 0..lastTx
    BY <1>0 DEF JobsOK, AnswersOK, Idle
  <2> QED BY <1>0, <1>2, <1>4, <2>1, <2>2, <2>3 DEF JobsOK, Types
<1>8. AttemptsOK'
  <2>1. row.hash = h BY DEF row, Row
  <2> QED BY <1>0, <1>2, <1>4, <2>1 DEF AttemptsOK
<1>9. AnswersOK'
  BY <1>0, <1>2 DEF AnswersOK, AttemptsOK, Types, Job
<1>10. PaidIsCharged' BY <1>0, <1>2, <1>4 DEF PaidIsCharged, AttemptsOK
<1>11. ChargesAreReal' BY <1>0, <1>2, <1>3, <1>4 DEF ChargesAreReal
<1> QED BY <1>6, <1>7, <1>8, <1>9, <1>10, <1>11
        DEF Agreement, PaymentsTypeOK, Types, JobsOK

-----------------------------------------------------------------------------
(* The theorems.                                                           *)

LEMMA AgreementStep == Agreement /\ [Next]_vars => Agreement'
<1> SUFFICES ASSUME Agreement, [Next]_vars PROVE Agreement'
  OBVIOUS
<1>0. StoreTypeOK /\ Types /\ JobsOK /\ lastTx \in Nat /\ DOMAIN txs \subseteq 1..lastTx
  BY TypesAndJobs DEF Agreement, StoreTypeOK
<1>a. StoreTypeOK' BY <1>0, HandlersUseTheStore, StoreTypeStep
<1>1. ASSUME NEW w \in Worker, NEW a \in AppId, NEW h \in Hash, NEW amt \in Amount,
             PayInternally(w, a, h, amt)
      PROVE  Agreement'
  <2>1. /\ SettleInternally(a, amt, h) /\ internal' = internal \cup {lastTx + 1}
        /\ UNCHANGED <<job, lnd, lost, dropped, faults>>
    BY <1>1 DEF PayInternally
  <2>2. /\ lastTx' = lastTx + 1
        /\ DOMAIN txs' = DOMAIN txs \cup {lastTx + 1}
        /\ \E inc \in PendingIncoming(h) :
             /\ txs'[inc] = [txs[inc] EXCEPT !.state = "settled", !.amount = amt]
             /\ \A t \in DOMAIN txs \ {inc} : txs'[t] = txs[t]
    BY <1>0, <2>1, InternalRows
  <2>3. \A t \in DOMAIN txs :
          IF txs[t].type = "outgoing" THEN txs'[t] = txs[t]
                                      ELSE txs'[t].type = txs[t].type
    <3>1. PICK inc \in PendingIncoming(h) :
            /\ txs'[inc] = [txs[inc] EXCEPT !.state = "settled", !.amount = amt]
            /\ \A t \in DOMAIN txs \ {inc} : txs'[t] = txs[t]
      BY <2>2
    <3>2. txs[inc] \in TxRow /\ txs[inc].type = "incoming"
      BY <1>0 DEF PendingIncoming, Incoming, StoreTypeOK
    <3>3. txs'[inc].type = "incoming" BY <3>1, <3>2 DEF TxRow
    <3> QED BY <3>1, <3>2, <3>3
  <2> QED BY <1>0, <1>a, <2>1, <2>2, <2>3, RowsAside
<1>2. ASSUME NEW w \in Worker, NEW a \in AppId, NEW h \in Hash, NEW amt \in Amount,
             Reserve(w, a, h, amt)
      PROVE  Agreement'
  BY <1>2, <1>a, ReservationAgrees
<1>3. ASSUME NEW w \in Worker, WorkerStep(w) PROVE Agreement'
  BY <1>3, <1>a, WorkerAgrees, BookingAgrees
<1>4. ASSUME NEW h \in Hash, LndPays(h) \/ LndFails(h) PROVE Agreement'
  BY <1>4, LndAgrees
<1>5. ASSUME NEW a \in AppId, NEW h \in Hash, NEW amt \in Amount, MakeInvoice(a, h, amt)
      PROVE  Agreement'
  <2> DEFINE row == Row(a, "incoming", "pending", amt, 0, h)
  <2>1. InsertTx(row) /\ UNCHANGED <<job, lnd, internal, lost, dropped, faults>>
    BY <1>5 DEF MakeInvoice, RecordIncomingInvoice
  <2>2. row.type = "incoming" BY DEF Row
  <2> HIDE DEF row
  <2>3. /\ lastTx' = lastTx + 1
        /\ DOMAIN txs' = DOMAIN txs \cup {lastTx + 1}
        /\ txs'[lastTx + 1] = row
        /\ \A t \in DOMAIN txs : txs'[t] = txs[t]
    BY <1>0, <2>1, InsertRow
  <2> QED BY <1>0, <1>a, <2>1, <2>2, <2>3, RowsAside
<1>6. ASSUME NEW a \in AppId, DeleteWallet(a) PROVE Agreement'
  <2>1. DeleteApp(a) /\ UNCHANGED <<job, lnd, internal, lost, dropped, faults>>
    BY <1>6 DEF DeleteWallet
  <2>2. /\ UNCHANGED lastTx /\ DOMAIN txs' \subseteq DOMAIN txs
        /\ \A t \in DOMAIN txs' : txs'[t] = txs[t]
    BY <2>1, DeletedRows
  <2> QED BY <1>0, <1>a, <2>1, <2>2, RowsAside
<1>7. CASE Crash
  <2>1. /\ job' = [w \in Worker |-> Idle] /\ Fault
        /\ dropped' = dropped \cup {job[w].tx : w \in {v \in Worker : job[v] # Idle}}
        /\ UNCHANGED <<storeVars, lnd, internal, lost>>
    BY <1>7 DEF Crash, storeVars
  <2>2. Types'
    <3>1. \A w \in Worker : job[w] # Idle => job[w].tx \in 1..lastTx
      BY <1>0 DEF Agreement, AnswersOK, JobsOK
    <3>2. dropped' \subseteq 1..lastTx /\ UNCHANGED <<lastTx, internal, lost, lnd>>
      BY <1>0, <2>1, <3>1 DEF Types, storeVars
    <3>3. job' \in [Worker -> Job] BY <2>1, StoreAssumption DEF Job, Idle
    <3>4. faults' \in 0..MaxFault BY <1>0, <2>1, PaymentsAssumption DEF Types, Fault
    <3> QED BY <1>0, <3>2, <3>3, <3>4 DEF Types
  <2>3. AttemptsOK' /\ PaidIsCharged' /\ ChargesAreReal'
    BY <2>1 DEF Agreement, AttemptsOK, PaidIsCharged, ChargesAreReal, storeVars
  <2>4. AnswersOK' BY <2>1 DEF AnswersOK, Idle
  <2> QED BY <2>1, <2>2, <2>3, <2>4, LedgerAside DEF Agreement
<1>8. CASE UNCHANGED vars
  <2>1. UNCHANGED <<storeVars, job, lnd, internal, lost, dropped, faults>>
    BY <1>8 DEF vars, storeVars
  <2> QED BY <1>0, <1>a, <2>1, RowsAside DEF storeVars
<1> QED BY <1>1, <1>2, <1>3, <1>4, <1>5, <1>6, <1>7, <1>8 DEF Next

LEMMA AgreementInit == Init => Agreement
<1> SUFFICES ASSUME Init PROVE Agreement
  OBVIOUS
<1> USE StoreAssumption, PaymentsAssumption
<1>1. StoreTypeOK
  BY DEF Init, StoreTypeOK, AppId, AppRow, TxRow, Row
<1>2. Types
  BY DEF Init, Types, Job, Payment, Idle, Nothing
<1>3. \A w \in Worker : job[w] = Idle BY DEF Init
<1>4. \A h \in Hash : lnd[h] = Nothing BY DEF Init
<1>5. \A t \in DOMAIN txs : txs[t].type = "incoming" BY DEF Init, Row
<1>6. /\ DOMAIN txs = 1..MaxApp /\ lastTx = MaxApp /\ internal = {}
  BY DEF Init, AppId
<1>7. JobsOK /\ AnswersOK BY <1>3 DEF JobsOK, AnswersOK, Idle
<1>8. AttemptsOK BY <1>4, <1>5, <1>6 DEF AttemptsOK, Nothing
<1>9. PaidIsCharged BY <1>4 DEF PaidIsCharged, Nothing
<1>10. ChargesAreReal BY <1>5 DEF ChargesAreReal
<1> QED BY <1>1, <1>2, <1>7, <1>8, <1>9, <1>10 DEF Agreement, PaymentsTypeOK, Types, JobsOK

LEMMA AgreementHolds == Spec => []Agreement
BY AgreementInit, AgreementStep, PTL DEF Spec

\* Requests in hand, rows and LND's payments have their types, and no two
\* workers work on one row, however many requests race and restarts happen.
THEOREM PaymentsTypeCorrect == Spec => []PaymentsTypeOK
<1>1. Agreement => PaymentsTypeOK BY DEF Agreement
<1> QED BY <1>1, AgreementHolds, PTL

\* What LND paid or may still pay is never refunded, whatever order calls,
\* answers, bookings, retries and restarts come in, unless an answer is lost.
THEOREM PaymentsAreCharged == Spec => []PaidIsCharged
<1>1. Agreement => PaidIsCharged BY DEF Agreement
<1> QED BY <1>1, AgreementHolds, PTL

\* No wallet is charged for a payment LND did not make, or at another price.
THEOREM ChargesAreForPayments == Spec => []ChargesAreReal
<1>1. Agreement => ChargesAreReal BY DEF Agreement
<1> QED BY <1>1, AgreementHolds, PTL

\* The handlers are a client of the ledger: each of their steps is one of
\* StoreNext or leaves the tables alone, so what holds of each such step, as
\* ClosedRowsFinal does, holds of payments.
THEOREM PaymentsUseTheStore == Spec => [][StoreNext]_storeVars
<1>1. Agreement /\ [Next]_vars => [StoreNext]_storeVars BY HandlersUseTheStore
<1> QED BY <1>1, AgreementHolds, PTL DEF Spec

-----------------------------------------------------------------------------
(* What LND and the ledger pay out for a wallet is covered by what it      *)
(* received.                                                               *)

\* A payment that was settled inside the ledger is a settled outgoing row, and
\* a row that is pending holds the amount and, as fee reserve, the fee limit
\* that LND's payment for it was given.
FiguresOK ==
  /\ \A t \in internal \cap DOMAIN txs :
       txs[t].type = "outgoing" /\ txs[t].state = "settled"
  /\ \A h \in Hash :
       lnd[h].tx \in DOMAIN txs /\ txs[lnd[h].tx].state = "pending" =>
         /\ lnd[h].amount = txs[lnd[h].tx].amount
         /\ lnd[h].limit = txs[lnd[h].tx].reserve

\* A step on the tables that LND's payments have no part in: outgoing rows stay
\* as they are, are closed or disappear.
LEMMA FiguresAside ==
  ASSUME Agreement, FiguresOK, UNCHANGED lnd,
         \A t \in internal' \ internal : t > lastTx,
         \A t \in internal' \ internal :
           t \in DOMAIN txs' => txs'[t].type = "outgoing" /\ txs'[t].state = "settled",
         \A t \in DOMAIN txs' : t \in DOMAIN txs \/ t > lastTx,
         \A t \in DOMAIN txs \cap DOMAIN txs' :
           txs[t].type = "outgoing" =>
             \/ txs'[t] = txs[t]
             \/ txs[t].state = "pending" /\ txs'[t].state # "pending"
  PROVE  FiguresOK'
<1>0. /\ StoreTypeOK /\ Types /\ AttemptsOK /\ lastTx \in Nat
  BY TypesAndJobs DEF Agreement, StoreTypeOK
<1>1. \A t \in internal' \cap DOMAIN txs' :
        txs'[t].type = "outgoing" /\ txs'[t].state = "settled"
  <2> SUFFICES ASSUME NEW t \in internal' \cap DOMAIN txs', t \in internal
               PROVE  txs'[t].type = "outgoing" /\ txs'[t].state = "settled"
    OBVIOUS
  <2>1. t \in 1..lastTx BY <1>0 DEF Types
  <2>2. ~(t > lastTx) BY <1>0, <2>1
  <2>3. t \in DOMAIN txs BY <2>2
  <2>4. txs[t].type = "outgoing" /\ txs[t].state = "settled" BY <2>3 DEF FiguresOK
  <2> QED BY <2>3, <2>4
<1>2. ASSUME NEW h \in Hash, lnd[h].tx \in DOMAIN txs', txs'[lnd[h].tx].state = "pending"
      PROVE  /\ lnd[h].amount = txs'[lnd[h].tx].amount
             /\ lnd[h].limit = txs'[lnd[h].tx].reserve
  <2>1. PICK t : t = lnd[h].tx OBVIOUS
  <2>2. t \in 0..lastTx BY <1>0, <2>1 DEF AttemptsOK
  <2>3. ~(t > lastTx) BY <1>0, <2>2
  <2>4. t \in DOMAIN txs BY <1>2, <2>1, <2>3
  <2>5. txs[t].type = "outgoing" BY <1>0, <2>1, <2>4 DEF AttemptsOK
  <2>6. txs'[t] = txs[t] BY <1>2, <2>1, <2>4, <2>5
  <2> QED BY <1>2, <2>1, <2>4, <2>6 DEF FiguresOK
<1> QED BY <1>1, <1>2 DEF FiguresOK

LEMMA FiguresStep == Agreement /\ FiguresOK /\ [Next]_vars => FiguresOK'
<1> SUFFICES ASSUME Agreement, FiguresOK, [Next]_vars PROVE FiguresOK'
  OBVIOUS
<1>0. /\ StoreTypeOK /\ Types /\ JobsOK /\ lastTx \in Nat /\ DOMAIN txs \subseteq 1..lastTx
  BY TypesAndJobs DEF Agreement, StoreTypeOK
<1>1. ASSUME NEW w \in Worker, NEW a \in AppId, NEW h \in Hash, NEW amt \in Amount,
             PayInternally(w, a, h, amt)
      PROVE  FiguresOK'
  <2>1. /\ SettleInternally(a, amt, h) /\ internal' = internal \cup {lastTx + 1}
        /\ UNCHANGED lnd
    BY <1>1 DEF PayInternally
  <2>2. /\ lastTx' = lastTx + 1 /\ lastTx + 1 \notin DOMAIN txs
        /\ DOMAIN txs' = DOMAIN txs \cup {lastTx + 1}
        /\ txs'[lastTx + 1] = Row(a, "outgoing", "settled", amt, 0, h)
        /\ \E inc \in PendingIncoming(h) :
             /\ txs'[inc] = [txs[inc] EXCEPT !.state = "settled", !.amount = amt]
             /\ \A t \in DOMAIN txs \ {inc} : txs'[t] = txs[t]
    BY <1>0, <2>1, InternalRows
  <2>3. \A t \in DOMAIN txs : txs[t].type = "outgoing" => txs'[t] = txs[t]
    BY <2>2 DEF PendingIncoming, Incoming
  <2>4. txs'[lastTx + 1].type = "outgoing" /\ txs'[lastTx + 1].state = "settled"
    BY <2>2 DEF Row
  <2> QED BY <1>0, <2>1, <2>2, <2>3, <2>4, FiguresAside
<1>2. ASSUME NEW row, InsertTx(row), UNCHANGED <<lnd, internal>> PROVE FiguresOK'
  <2>1. /\ DOMAIN txs' = DOMAIN txs \cup {lastTx + 1}
        /\ \A t \in DOMAIN txs : txs'[t] = txs[t]
    BY <1>0, <1>2, InsertRow
  <2> QED BY <1>0, <1>2, <2>1, FiguresAside
<1>3. ASSUME NEW w \in Worker, BookPaid(w) \/ BookFailed(w) PROVE FiguresOK'
  <2>1. UNCHANGED <<lnd, internal>> BY <1>3 DEF BookPaid, BookFailed
  <2>2. CASE UNCHANGED storeVars
    BY <1>0, <2>1, <2>2, FiguresAside DEF storeVars
  <2>3. ASSUME NEW t \in DOMAIN txs, txs[t].state = "pending",
               NEW row, row.state # "pending", txs' = [txs EXCEPT ![t] = row]
        PROVE  FiguresOK'
    BY <1>0, <2>1, <2>3, FiguresAside
  <2>4. ASSUME NEW fee, FinalizeSucceeded(job[w].tx, fee) PROVE FiguresOK'
    <3>1. PICK t \in DOMAIN txs : t = job[w].tx BY <2>4 DEF FinalizeSucceeded
    <3> DEFINE row == [txs[t] EXCEPT !.state = "settled", !.fees = fee, !.reserve = 0]
    <3>2. txs[t] \in TxRow BY <1>0 DEF StoreTypeOK
    <3>3. row.state # "pending" BY <3>2 DEF TxRow
    <3>4. txs[t].state = "pending" /\ txs' = [txs EXCEPT ![t] = row]
      BY <2>4, <3>1 DEF FinalizeSucceeded
    <3> HIDE DEF row
    <3> QED BY <2>3, <3>3, <3>4
  <2>5. ASSUME FinalizeFailed(job[w].tx) PROVE FiguresOK'
    <3>1. PICK t \in DOMAIN txs : t = job[w].tx BY <2>5 DEF FinalizeFailed
    <3> DEFINE row == [txs[t] EXCEPT !.state = "failed", !.reserve = 0]
    <3>2. txs[t] \in TxRow BY <1>0 DEF StoreTypeOK
    <3>3. row.state # "pending" BY <3>2 DEF TxRow
    <3>4. txs[t].state = "pending" /\ txs' = [txs EXCEPT ![t] = row]
      BY <2>5, <3>1 DEF FinalizeFailed
    <3> HIDE DEF row
    <3> QED BY <2>3, <3>3, <3>4
  <2> QED BY <1>3, <2>2, <2>4, <2>5 DEF BookPaid, BookFailed
<1>4. ASSUME NEW w \in Worker, LndAccepts(w) PROVE FiguresOK'
  <2>1. /\ job[w].pc = "calling" /\ UNCHANGED <<txs, internal>>
        /\ lnd' = [lnd EXCEPT ![job[w].hash] =
             [state |-> "inflight", tx |-> job[w].tx, app |-> job[w].app,
              amount |-> job[w].amount, limit |-> job[w].reserve, fee |-> 0]]
    BY <1>4 DEF LndAccepts
  <2>2. /\ job[w].hash \in Hash
        /\ job[w].tx \in DOMAIN txs =>
             txs[job[w].tx] = Row(job[w].app, "outgoing", "pending", job[w].amount,
                                  job[w].reserve, job[w].hash)
    BY <1>0, <2>1 DEF JobsOK
  <2>3. /\ lnd'[job[w].hash].tx = job[w].tx
        /\ lnd'[job[w].hash].amount = job[w].amount
        /\ lnd'[job[w].hash].limit = job[w].reserve
        /\ \A h \in Hash \ {job[w].hash} : lnd'[h] = lnd[h]
    BY <1>0, <2>1, <2>2 DEF Types
  <2> QED BY <2>1, <2>2, <2>3 DEF FiguresOK, Row
<1>5. ASSUME NEW w \in Worker, WorkerStep(w), ~BookPaid(w), ~BookFailed(w), ~LndAccepts(w)
      PROVE  FiguresOK'
  BY <1>5 DEF WorkerStep, LndRefuses, ReceivePaid, ReceiveFailed, LoseAnswer, Escape,
              FiguresOK
<1>6. ASSUME NEW h \in Hash, LndPays(h) \/ LndFails(h) PROVE FiguresOK'
  <2>1. /\ UNCHANGED <<txs, internal>>
        /\ \A g \in Hash : /\ lnd'[g].tx = lnd[g].tx /\ lnd'[g].amount = lnd[g].amount
                           /\ lnd'[g].limit = lnd[g].limit
    BY <1>0, <1>6 DEF LndPays, LndFails, Types, Payment
  <2> QED BY <2>1 DEF FiguresOK
<1>7. ASSUME NEW a \in AppId, DeleteWallet(a) PROVE FiguresOK'
  <2>1. DeleteApp(a) /\ UNCHANGED <<lnd, internal>> BY <1>7 DEF DeleteWallet
  <2>2. /\ DOMAIN txs' \subseteq DOMAIN txs
        /\ \A t \in DOMAIN txs' : txs'[t] = txs[t]
    BY <2>1, DeletedRows
  <2> QED BY <2>1, <2>2, FiguresAside
<1>8. CASE Crash \/ UNCHANGED vars
  BY <1>8 DEF Crash, vars, FiguresOK
<1>9. ASSUME NEW w \in Worker, NEW a \in AppId, NEW h \in Hash, NEW amt \in Amount,
             Reserve(w, a, h, amt)
      PROVE  FiguresOK'
  BY <1>2, <1>9 DEF Reserve, ReserveExternal
<1>10. ASSUME NEW a \in AppId, NEW h \in Hash, NEW amt \in Amount, MakeInvoice(a, h, amt)
       PROVE  FiguresOK'
  BY <1>2, <1>10 DEF MakeInvoice, RecordIncomingInvoice
<1> QED
  BY <1>1, <1>3, <1>4, <1>5, <1>6, <1>7, <1>8, <1>9, <1>10 DEF Next, WorkerStep

\* The funded wallets' books are right at the start.
LEMMA BooksInit == Init => BalanceMatchesRows /\ FiguresOK
<1> SUFFICES ASSUME Init PROVE BalanceMatchesRows /\ FiguresOK OBVIOUS
<1>1. FiguresOK BY DEF Init, FiguresOK, Row
<1>2. ASSUME NEW a \in DOMAIN apps PROVE apps[a].balance = RowsSum(txs, a)
  <2>1. a \in AppId /\ apps[a].balance = Funding BY DEF Init
  <2>2. /\ DOMAIN txs = AppId
        /\ \A t \in AppId : txs[t] = Row(t, "incoming", "settled", Funding, 0, NoHash)
    BY DEF Init
  <2>3. AppRows(txs, a) = {a} BY <2>1, <2>2 DEF AppRows, Row
  <2>4. Effects(txs)[a] = Funding /\ Funding \in Nat
    BY <2>1, <2>2, PaymentsAssumption DEF Effects, Effect, Row
  <2>5. SumFunctionOnSet(Effects(txs), {a}) = Funding BY <2>4, SumOne
  <2> QED BY <2>1, <2>3, <2>5 DEF RowsSum
<1> QED BY <1>1, <1>2 DEF BalanceMatchesRows

\* LND's payments, made or under way, for the rows of T; what each costs; the
\* rows' amounts; the receipts in T.
Attempts(T) == {h \in Hash : /\ lnd[h].tx \in T \ lost
                             /\ lnd[h].state \in {"inflight", "paid"}}
Costs == [h \in Hash |-> lnd[h].amount + lnd[h].fee]
Amounts == [t \in DOMAIN txs |-> txs[t].amount]
Receipts(T) == {t \in T : txs[t].type = "incoming" /\ txs[t].state = "settled"}

\* What a row has added to the balance, LND's payment for it and its internal
\* settlement together are at most what the row received.
LEMMA RowCovered ==
  ASSUME Agreement, FiguresOK, NEW t \in DOMAIN txs,
         NEW s, s = 0 \/ \E h \in Attempts({t}) : s = Costs[h]
  PROVE  /\ Effect(txs[t]) \in Int /\ s \in Int /\ txs[t].amount \in Nat
         /\ Effect(txs[t]) + s + Worth(Amounts, internal, t)
              <= Worth(Amounts, Receipts({t}), t)
<1>0. /\ StoreTypeOK /\ Types /\ AttemptsOK /\ PaidIsCharged /\ ChargesAreReal
      /\ txs[t] \in TxRow
  BY TypesAndJobs DEF Agreement, StoreTypeOK
<1>1. Effect(txs[t]) \in Int /\ txs[t].amount \in Nat BY <1>0, EffectType DEF TxRow
<1>2. Amounts[t] = txs[t].amount BY DEF Amounts
<1>3. CASE s = 0
  <2>1. /\ t \in internal => txs[t].type = "outgoing" /\ txs[t].state = "settled"
    BY DEF FiguresOK
  <2>2. CASE txs[t].type = "incoming"
    <3>1. t \notin internal BY <2>1, <2>2
    <3>2. CASE txs[t].state = "settled"
      <4>1. Effect(txs[t]) = txs[t].amount BY <2>2, <3>2 DEF Effect
      <4> QED BY <1>1, <1>2, <1>3, <2>2, <3>1, <3>2, <4>1 DEF Worth, Receipts
    <3>3. CASE txs[t].state # "settled"
      <4>1. Effect(txs[t]) = 0 BY <2>2, <3>3 DEF Effect
      <4> QED BY <1>1, <1>2, <1>3, <2>2, <3>1, <3>3, <4>1 DEF Worth, Receipts
    <3> QED BY <3>2, <3>3
  <2>3. CASE txs[t].type = "outgoing"
    <3>1. Worth(Amounts, Receipts({t}), t) = 0 BY <2>3 DEF Worth, Receipts
    <3>2. Effect(txs[t]) <= 0 /\ (txs[t].state = "settled" => Effect(txs[t]) <= -txs[t].amount)
      BY <1>0, <2>3 DEF Effect, BudgetUse, TxRow
    <3>3. Worth(Amounts, internal, t) \in {0, txs[t].amount}
          /\ (Worth(Amounts, internal, t) # 0 => txs[t].state = "settled")
      BY <1>2, <2>1 DEF Worth
    <3> QED BY <1>1, <1>3, <3>1, <3>2, <3>3
  <2> QED BY <1>0, <2>2, <2>3 DEF TxRow
<1>4. ASSUME NEW h \in Attempts({t}), s = Costs[h]
      PROVE  /\ s \in Int
             /\ Effect(txs[t]) + s + Worth(Amounts, internal, t)
                  <= Worth(Amounts, Receipts({t}), t)
  <2>1. /\ h \in Hash /\ lnd[h].tx = t /\ t \notin lost /\ t \notin internal
        /\ lnd[h].state \in {"inflight", "paid"}
        /\ txs[t].type = "outgoing" /\ txs[t].hash = h
        /\ lnd[h].fee <= lnd[h].limit
    BY <1>0, <1>4 DEF Attempts, AttemptsOK
  <2>2. /\ lnd[h].amount \in Nat /\ lnd[h].fee \in Nat /\ lnd[h].limit \in Nat
        /\ s = lnd[h].amount + lnd[h].fee
    BY <1>0, <1>4, <2>1 DEF Types, Payment, Costs
  <2>3. Worth(Amounts, internal, t) = 0 /\ Worth(Amounts, Receipts({t}), t) = 0
    BY <2>1 DEF Worth, Receipts
  <2>4. txs[t].state \in {"pending", "settled"} BY <1>0, <2>1 DEF PaidIsCharged
  <2>5. Effect(txs[t]) = -(txs[t].amount + txs[t].fees + txs[t].reserve)
    BY <2>1, <2>4 DEF Effect, BudgetUse
  <2>6. /\ txs[t].amount \in Nat /\ txs[t].fees \in Nat /\ txs[t].reserve \in Nat
    BY <1>0 DEF TxRow
  <2>7. lnd[h].amount + lnd[h].fee <= txs[t].amount + txs[t].fees + txs[t].reserve
    <3>1. CASE txs[t].state = "pending"
      <4>1. lnd[h].amount = txs[t].amount /\ lnd[h].limit = txs[t].reserve
        BY <2>1, <3>1 DEF FiguresOK
      <4> QED BY <2>1, <2>2, <2>6, <4>1
    <3>2. CASE txs[t].state = "settled"
      <4>1. lnd[h].amount = txs[t].amount /\ lnd[h].fee = txs[t].fees
        BY <1>0, <2>1, <3>2 DEF ChargesAreReal
      <4> QED BY <2>2, <2>6, <4>1
    <3> QED BY <2>4, <3>1, <3>2
  <2> QED BY <2>2, <2>3, <2>5, <2>6, <2>7
<1> QED BY <1>1, <1>3, <1>4

\* Row by row: what a wallet's rows added to its balance, and what was paid out
\* for them, is at most what they received.
LEMMA RowsCovered ==
  ASSUME Agreement, FiguresOK, NEW S \in SUBSET DOMAIN txs
  PROVE  /\ IsFiniteSet(Attempts(S))
         /\ SumFunctionOnSet(Costs, Attempts(S)) \in Int
         /\ SumFunctionOnSet(Amounts, internal \cap S) \in Int
         /\ SumFunctionOnSet(Amounts, Receipts(S)) \in Int
         /\ SumFunctionOnSet(Effects(txs), S) + SumFunctionOnSet(Costs, Attempts(S))
              + SumFunctionOnSet(Amounts, internal \cap S)
              <= SumFunctionOnSet(Amounts, Receipts(S))
<1>0. /\ StoreTypeOK /\ Types /\ AttemptsOK BY TypesAndJobs DEF Agreement
<1>1. IsFiniteSet(S)
  <2>1. IsFiniteSet(DOMAIN txs) BY <1>0, TypedTables DEF StoreTypeOK, TypedTable
  <2> QED BY <2>1, FS_Subset
<1>2. /\ \A h \in Hash : Costs[h] \in Int
      /\ \A t \in DOMAIN txs : /\ Amounts[t] \in Int /\ Effects(txs)[t] \in Int
                               /\ Effects(txs)[t] = Effect(txs[t])
  BY <1>0, EffectType DEF Costs, Amounts, Effects, Types, Payment, StoreTypeOK, TxRow
<1> DEFINE Balanced(T) ==
             SumFunctionOnSet(Effects(txs), T) + SumFunctionOnSet(Costs, Attempts(T))
               + SumFunctionOnSet(Amounts, internal \cap T)
               <= SumFunctionOnSet(Amounts, Receipts(T))
           F == {T \in SUBSET S : IsFiniteSet(Attempts(T)) /\ Balanced(T)}
<1>3. ASSUME NEW T \in SUBSET S, \A x \in T : T \ {x} \in F
      PROVE  T \in F
  <2>1. CASE T = {}
    <3>1. Attempts(T) = {} /\ internal \cap T = {} /\ Receipts(T) = {}
      BY <2>1 DEF Attempts, Receipts
    <3> QED BY <2>1, <3>1, SumEmpty, FS_EmptySet
  <2>2. CASE T # {}
    <3>1. PICK t : t \in T BY <2>2
    <3>2. PICK U : U = T \ {t} OBVIOUS
    <3>3. U \in SUBSET S /\ IsFiniteSet(Attempts(U)) /\ Balanced(U) BY <1>3, <3>1, <3>2
    <3>4. IsFiniteSet(T) /\ T \subseteq DOMAIN txs /\ t \in DOMAIN txs
      BY <1>1, <3>1, FS_Subset
    <3>5. PICK s \in Int :
            /\ s = 0 \/ \E h \in Attempts({t}) : s = Costs[h]
            /\ IsFiniteSet(Attempts(T))
            /\ SumFunctionOnSet(Costs, Attempts(T)) = SumFunctionOnSet(Costs, Attempts(U)) + s
      <4>1. CASE Attempts({t}) = {}
        <5>1. Attempts(T) = Attempts(U) BY <3>2, <4>1 DEF Attempts
        <5>2. SumFunctionOnSet(Costs, Attempts(U)) \in Int
          BY <1>2, <3>3, SumInt DEF Attempts
        <5>3. SumFunctionOnSet(Costs, Attempts(T)) = SumFunctionOnSet(Costs, Attempts(U)) + 0
          BY <5>1, <5>2
        <5> QED BY <3>3, <5>1, <5>3
      <4>2. CASE Attempts({t}) # {}
        <5>1. PICK h : h \in Attempts({t}) BY <4>2
        <5>2. \A g \in Attempts({t}) : g = txs[t].hash
          BY <1>0, <3>4 DEF Attempts, AttemptsOK
        <5>3. Attempts({t}) = {h} BY <5>1, <5>2
        <5>4. Attempts(T) = Attempts(U) \cup Attempts({t}) /\ h \notin Attempts(U)
          BY <3>1, <3>2, <5>1 DEF Attempts
        <5>5. Attempts(T) = Attempts(U) \cup {h} BY <5>3, <5>4
        <5>6. /\ \A g \in Attempts(U) \cup {h} : Costs[g] \in Int
              /\ IsFiniteSet(Attempts(U) \cup {h})
          BY <1>2, <3>3, <5>1, FS_AddElement DEF Attempts
        <5>7. SumFunctionOnSet(Costs, Attempts(U) \cup {h}) =
                SumFunctionOnSet(Costs, Attempts(U)) + Costs[h]
          BY <3>3, <5>4, <5>6, SumAdd
        <5> QED BY <5>1, <5>5, <5>6, <5>7
      <4> QED BY <4>1, <4>2
    <3>6. /\ SumFunctionOnSet(Costs, Attempts(U)) \in Int
      BY <1>2, <3>3, SumInt DEF Attempts
    <3>7. PICK e : e = Effect(txs[t]) OBVIOUS
    <3>8. PICK i : i = Worth(Amounts, internal, t) OBVIOUS
    <3>9. PICK r : r = Worth(Amounts, Receipts({t}), t) OBVIOUS
    <3>10. /\ e \in Int /\ i \in Int /\ r \in Int /\ e + s + i <= r
      <4>1. txs[t].amount \in Nat /\ e \in Int /\ e + s + i <= r
        BY <3>4, <3>5, <3>7, <3>8, <3>9, RowCovered
      <4>2. i \in Int /\ r \in Int
        BY <1>2, <3>4, <3>8, <3>9 DEF Worth
      <4> QED BY <4>1, <4>2
    <3>11. /\ SumFunctionOnSet(Effects(txs), U) \in Int
           /\ SumFunctionOnSet(Effects(txs), T) = SumFunctionOnSet(Effects(txs), U) + e
      <4>1. Summable(Effects(txs), T) BY <1>2, <3>4 DEF Summable
      <4>2. e = Worth(Effects(txs), T, t) BY <1>2, <3>1, <3>4, <3>7 DEF Worth
      <4> QED BY <3>2, <4>1, <4>2, SumWithout
    <3>12. /\ SumFunctionOnSet(Amounts, internal \cap U) \in Int
           /\ SumFunctionOnSet(Amounts, internal \cap T) =
                SumFunctionOnSet(Amounts, internal \cap U) + i
      <4>1. PICK V : V = internal \cap T OBVIOUS
      <4>2. Summable(Amounts, V) /\ V \ {t} = internal \cap U
        BY <1>2, <3>2, <3>4, <4>1, FS_Subset DEF Summable
      <4>3. i = Worth(Amounts, V, t) BY <3>1, <3>8, <4>1 DEF Worth
      <4>4. /\ SumFunctionOnSet(Amounts, V \ {t}) \in Int
            /\ SumFunctionOnSet(Amounts, V) = SumFunctionOnSet(Amounts, V \ {t}) + i
        BY <4>2, <4>3, SumWithout
      <4> QED BY <4>1, <4>2, <4>4
    <3>13. /\ SumFunctionOnSet(Amounts, Receipts(U)) \in Int
           /\ SumFunctionOnSet(Amounts, Receipts(T)) =
                SumFunctionOnSet(Amounts, Receipts(U)) + r
      <4>1. PICK V : V = Receipts(T) OBVIOUS
      <4>2. Summable(Amounts, V) /\ V \ {t} = Receipts(U)
        BY <1>2, <3>2, <3>4, <4>1, FS_Subset DEF Receipts, Summable
      <4>3. r = Worth(Amounts, V, t) BY <3>1, <3>9, <4>1 DEF Worth, Receipts
      <4>4. /\ SumFunctionOnSet(Amounts, V \ {t}) \in Int
            /\ SumFunctionOnSet(Amounts, V) = SumFunctionOnSet(Amounts, V \ {t}) + r
        BY <4>2, <4>3, SumWithout
      <4> QED BY <4>1, <4>2, <4>4
    <3>14. Balanced(T) BY <3>3, <3>5, <3>6, <3>10, <3>11, <3>12, <3>13
    <3> HIDE DEF Balanced
    <3> QED BY <3>5, <3>14
  <2> QED BY <2>1, <2>2
<1>4. S \in F
  <2> HIDE DEF F
  <2>1. \A T \in SUBSET S : (\A x \in T : T \ {x} \in F) => T \in F BY <1>3
  <2> QED BY <1>1, <2>1, FiniteInduction
<1>5. SumFunctionOnSet(Costs, Attempts(S)) \in Int
  BY <1>2, <1>4, SumInt DEF Attempts
<1>6. /\ SumFunctionOnSet(Amounts, internal \cap S) \in Int
      /\ SumFunctionOnSet(Amounts, Receipts(S)) \in Int
  <2>1. /\ IsFiniteSet(internal \cap S) /\ internal \cap S \subseteq DOMAIN txs
        /\ IsFiniteSet(Receipts(S)) /\ Receipts(S) \subseteq DOMAIN txs
    BY <1>1, FS_Subset DEF Receipts
  <2> QED BY <1>2, <2>1, SumInt
<1> QED BY <1>4, <1>5, <1>6

\* What the ledger and LND hold after each step is what the rows account for.
Books == Agreement /\ BalanceMatchesRows /\ FiguresOK

LEMMA BooksStep == Books /\ [Next]_vars => Books'
<1> SUFFICES ASSUME Books, [Next]_vars PROVE Books' OBVIOUS
<1>1. Agreement /\ Agreement' /\ [StoreNext]_storeVars
  BY AgreementStep, HandlersUseTheStore DEF Books
<1>2. StoreTypeOK BY <1>1, TypesAndJobs DEF Agreement
<1>3. StoreTypeOK' BY <1>1, <1>2, StoreTypeStep
<1>4. BalanceMatchesRows' BY <1>1, <1>2, <1>3, BalanceStep DEF Books
<1>5. FiguresOK' BY FiguresStep DEF Books
<1> QED BY <1>1, <1>4, <1>5 DEF Books

LEMMA BooksCover == Books => NeverOverspends
<1> SUFFICES ASSUME Books, NEW a \in DOMAIN apps
             PROVE  LndSpending(AppRows(txs, a) \ lost) + PaidInternally(a) <= Received(a)
  BY DEF NeverOverspends
<1>1. PICK S : S = AppRows(txs, a) OBVIOUS
<1>2. Agreement /\ FiguresOK /\ StoreTypeOK /\ S \in SUBSET DOMAIN txs
  BY <1>1, TypesAndJobs DEF Agreement, Books, AppRows
<1>3. LndSpending(S \ lost) = SumFunctionOnSet(Costs, Attempts(S))
  BY DEF LndSpending, Costs, Attempts
<1>4. PaidInternally(a) = SumFunctionOnSet(Amounts, internal \cap S)
  BY <1>1 DEF PaidInternally, RowTotal, Amounts
<1>5. Received(a) = SumFunctionOnSet(Amounts, Receipts(S))
  BY <1>1 DEF Received, RowTotal, Amounts, Receipts
<1>6. PICK b : b = SumFunctionOnSet(Effects(txs), S) OBVIOUS
<1>7. b \in Nat
  BY <1>1, <1>2, <1>6 DEF Books, BalanceMatchesRows, RowsSum, StoreTypeOK, AppRow
<1>8. /\ SumFunctionOnSet(Costs, Attempts(S)) \in Int
      /\ SumFunctionOnSet(Amounts, internal \cap S) \in Int
      /\ SumFunctionOnSet(Amounts, Receipts(S)) \in Int
      /\ b + SumFunctionOnSet(Costs, Attempts(S)) + SumFunctionOnSet(Amounts, internal \cap S)
           <= SumFunctionOnSet(Amounts, Receipts(S))
  BY <1>2, <1>6, RowsCovered
<1>9. PICK l, i, r : /\ l = SumFunctionOnSet(Costs, Attempts(S))
                    /\ i = SumFunctionOnSet(Amounts, internal \cap S)
                    /\ r = SumFunctionOnSet(Amounts, Receipts(S))
  OBVIOUS
<1>10. l \in Int /\ i \in Int /\ r \in Int /\ b + l + i <= r BY <1>8, <1>9
<1>11. l + i <= r BY <1>7, <1>10
<1> QED BY <1>1, <1>3, <1>4, <1>5, <1>9, <1>11

LEMMA BooksHold == Spec => []Books
<1>1. Init => Books BY AgreementInit, BooksInit DEF Books
<1> QED BY <1>1, BooksStep, PTL DEF Spec

\* All that LND and the ledger paid out for a wallet, or may still pay, is
\* covered by what the wallet received, for any number of concurrent payments,
\* retries and restarts; payments whose answer was lost are left out.
THEOREM NeverOverspent == Spec => []NeverOverspends
<1> QED BY BooksCover, BooksHold, PTL

\* The ledger that the workers, the retries and the recovery after a restart
\* write together: a wallet's balance is what its rows add up to, a row that was
\* settled or failed is never written again, and only a wallet's own payment
\* takes money from it.
THEOREM PaymentsKeepTheLedger ==
  Spec => []BalanceMatchesRows /\ ClosedRowsFinal /\ OnlyOwnRowsDebit
<1>1. Books => Agreement /\ BalanceMatchesRows /\ StoreTypeOK
  BY TypesAndJobs DEF Books, Agreement
<1>2. Agreement /\ StoreTypeOK /\ [Next]_vars =>
        /\ [\A t \in DOMAIN txs \cap DOMAIN txs' :
              txs[t].state # "pending" => txs'[t] = txs[t]]_storeVars
        /\ [\A a \in DOMAIN apps \cap DOMAIN apps' :
              apps'[a].balance < apps[a].balance =>
                \E t \in DOMAIN txs' \ DOMAIN txs :
                  txs'[t].app = a /\ txs'[t].type = "outgoing"]_storeVars
  BY HandlersUseTheStore, ClosedRowsStep, DebitStep
<1> QED BY <1>1, <1>2, BooksHold, PTL DEF Spec, ClosedRowsFinal, OnlyOwnRowsDebit
=============================================================================

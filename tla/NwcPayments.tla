---------------------------- MODULE NwcPayments ----------------------------
(***************************************************************************)
(* pay_invoice and pay_keysend, from the ledger's reservation over the call *)
(* to LND to the final booking.  The daemon reserves the amount and a fee  *)
(* reserve, asks LND to pay, and finalizes with the answer; each of these  *)
(* steps is atomic, nothing holds between them, and the daemon may be      *)
(* restarted anywhere.  LND is external: it keeps one payment per hash and *)
(* goes on with it whatever becomes of the daemon that asked.              *)
(*                                                                         *)
(* A keysend differs only in where its hash comes from (the payer's        *)
(* preimage), so both are the same request here.                           *)
(***************************************************************************)
EXTENDS NwcStore

CONSTANTS Worker,        \* relay connections: each runs one request at a time
          Funding,       \* what every wallet holds at the start
          MaxFault       \* bound on restarts, lost answers and exceptions together

ASSUME PaymentsAssumption == /\ Funding \in Nat /\ MaxFault \in Nat
                             /\ MaxApp <= MaxTx

VARIABLES job,       \* each worker's request
          lnd,       \* LND's payment for each hash
          internal,  \* history: rows that were settled inside the ledger
          lost,      \* history: rows whose answer from LND did not arrive
          dropped,   \* history: rows whose request ended without a booking
          faults     \* restarts, lost answers and exceptions so far

vars == <<apps, txs, lastApp, lastTx, job, lnd, internal, lost, dropped, faults>>

Idle == [pc |-> "idle", tx |-> 0, app |-> 0, hash |-> NoHash,
         amount |-> 0, reserve |-> 0, fee |-> 0]
Nothing == [state |-> "none", tx |-> 0, app |-> 0, amount |-> 0, limit |-> 0, fee |-> 0]

Job == [pc : {"idle", "calling", "waiting", "paid", "failed"}, tx : 0..MaxTx,
        app : 0..MaxApp, hash : Hash \cup {NoHash}, amount : Nat, reserve : Nat,
        fee : Nat]
Payment == [state : {"none", "inflight", "paid", "failed"}, tx : 0..MaxTx,
            app : 0..MaxApp, amount : Nat, limit : Nat, fee : Nat]

\* Wallets that were created and funded before any request arrives.
Init == /\ apps = [a \in AppId |-> [balance |-> Funding, limit |-> 0]]
        /\ txs = [t \in AppId |-> Row(t, "incoming", "settled", Funding, 0, NoHash)]
        /\ lastApp = MaxApp
        /\ lastTx = MaxApp
        /\ job = [w \in Worker |-> Idle]
        /\ lnd = [h \in Hash |-> Nothing]
        /\ internal = {}
        /\ lost = {}
        /\ dropped = {}
        /\ faults = 0

-----------------------------------------------------------------------------
(* The daemon.  A request the store refuses (unknown wallet, balance,      *)
(* quota) or LND cannot decode is answered with an error and changes       *)
(* nothing.                                                                *)

PayInternally(w, a, h, amt) ==
  /\ job[w] = Idle
  /\ SettleInternally(a, amt, h)
  /\ internal' = internal \cup {lastTx + 1}
  /\ UNCHANGED <<job, lnd, lost, dropped, faults>>

Reserve(w, a, h, amt) ==
  /\ job[w] = Idle
  /\ ReserveExternal(a, amt, FeeReserve(amt), h)
  /\ job' = [job EXCEPT ![w] =
               [pc |-> "calling", tx |-> lastTx + 1, app |-> a, hash |-> h,
                amount |-> amt, reserve |-> FeeReserve(amt), fee |-> 0]]
  /\ UNCHANGED <<lnd, internal, lost, dropped, faults>>

\* LND's answer to w's own attempt; an attempt that another one for the same
\* hash has replaced had failed before.
AnswerPaid(w) == /\ lnd[job[w].hash].state = "paid"
                 /\ lnd[job[w].hash].tx = job[w].tx
AnswerFailed(w) == \/ lnd[job[w].hash].tx # job[w].tx
                   \/ lnd[job[w].hash].state = "failed"

ReceivePaid(w) ==
  /\ job[w].pc = "waiting"
  /\ AnswerPaid(w)
  /\ job' = [job EXCEPT ![w].pc = "paid", ![w].fee = lnd[job[w].hash].fee]
  /\ UNCHANGED <<apps, txs, lastApp, lastTx, lnd, internal, lost, dropped, faults>>

\* Mutant: any answer to the call is taken for a failure.
ReceiveAnyFailure(w) ==
  /\ job[w].pc = "waiting"
  /\ job' = [job EXCEPT ![w].pc = "failed"]
  /\ UNCHANGED <<apps, txs, lastApp, lastTx, lnd, internal, lost, dropped, faults>>

ReceiveFailed(w) ==
  /\ job[w].pc = "waiting"
  /\ AnswerFailed(w)
  /\ job' = [job EXCEPT ![w].pc = "failed"]
  /\ UNCHANGED <<apps, txs, lastApp, lastTx, lnd, internal, lost, dropped, faults>>

Fault == faults < MaxFault /\ faults' = faults + 1

\* Every LndError counts as a failed payment: request_text's 120 s timeout, a
\* dropped connection and a stream without a final state are LndErrors too.
LoseAnswer(w) ==
  /\ Fault
  /\ job[w].pc = "waiting"
  /\ job' = [job EXCEPT ![w].pc = "failed"]
  /\ lost' = lost \cup {job[w].tx}
  /\ UNCHANGED <<apps, txs, lastApp, lastTx, lnd, internal, dropped>>

\* An exception that is no LndError: an answer cut off in the middle
\* (http.client.IncompleteRead) or that is no HTTP, a fee that is no number, a
\* database that stays locked.  It leaves the handler for the relay loop, which
\* gives the request up; nobody looks at its row again.
Escape(w) ==
  /\ Fault
  /\ job[w].pc # "idle"
  /\ job' = [job EXCEPT ![w] = Idle]
  /\ dropped' = dropped \cup {job[w].tx}
  /\ UNCHANGED <<apps, txs, lastApp, lastTx, lnd, internal, lost>>

\* Mutant: LND's fee is not handed on to the ledger.
BookPaidWithoutFee(w) ==
  /\ job[w].pc = "paid"
  /\ \/ FinalizeSucceeded(job[w].tx, 0)
     \/ job[w].tx \notin DOMAIN txs /\ UNCHANGED storeVars
  /\ job' = [job EXCEPT ![w] = Idle]
  /\ UNCHANGED <<lnd, internal, lost, dropped, faults>>

\* The row may be gone with its wallet: finalize raises NOT_FOUND.
BookPaid(w) ==
  /\ job[w].pc = "paid"
  /\ \/ FinalizeSucceeded(job[w].tx, job[w].fee)
     \/ job[w].tx \notin DOMAIN txs /\ UNCHANGED storeVars
  /\ job' = [job EXCEPT ![w] = Idle]
  /\ UNCHANGED <<lnd, internal, lost, dropped, faults>>

\* Mutant: the error reply is sent, the reservation stays.
ReplyWithoutRefund(w) ==
  /\ job[w].pc = "failed"
  /\ job' = [job EXCEPT ![w] = Idle]
  /\ UNCHANGED <<apps, txs, lastApp, lastTx, lnd, internal, lost, dropped, faults>>

BookFailed(w) ==
  /\ job[w].pc = "failed"
  /\ \/ FinalizeFailed(job[w].tx)
     \/ job[w].tx \notin DOMAIN txs /\ UNCHANGED storeVars
  /\ job' = [job EXCEPT ![w] = Idle]
  /\ UNCHANGED <<lnd, internal, lost, dropped, faults>>

\* A restart loses every request that is being worked on; main() looks at no
\* pending row when it starts.
Crash ==
  /\ Fault
  /\ job' = [w \in Worker |-> Idle]
  /\ dropped' = dropped \cup {job[w].tx : w \in {v \in Worker : job[v] # Idle}}
  /\ UNCHANGED <<apps, txs, lastApp, lastTx, lnd, internal, lost>>

-----------------------------------------------------------------------------
(* LND (external): one payment per hash, retried only after it failed.     *)

LndAccepts(w) ==
  /\ job[w].pc = "calling"
  /\ lnd[job[w].hash].state \in {"none", "failed"}
  /\ lnd' = [lnd EXCEPT ![job[w].hash] =
               [state |-> "inflight", tx |-> job[w].tx, app |-> job[w].app,
                amount |-> job[w].amount, limit |-> job[w].reserve, fee |-> 0]]
  /\ job' = [job EXCEPT ![w].pc = "waiting"]
  /\ UNCHANGED <<apps, txs, lastApp, lastTx, internal, lost, dropped, faults>>

\* Paid or in flight already, or LND cannot be reached or refuses the request.
LndRefuses(w) ==
  /\ job[w].pc = "calling"
  /\ job' = [job EXCEPT ![w].pc = "failed"]
  /\ UNCHANGED <<apps, txs, lastApp, lastTx, lnd, internal, lost, dropped, faults>>

LndPays(h) ==
  /\ lnd[h].state = "inflight"
  /\ \E fee \in 0..lnd[h].limit :
       lnd' = [lnd EXCEPT ![h].state = "paid", ![h].fee = fee]
  /\ UNCHANGED <<apps, txs, lastApp, lastTx, job, internal, lost, dropped, faults>>

LndFails(h) ==
  /\ lnd[h].state = "inflight"
  /\ lnd' = [lnd EXCEPT ![h].state = "failed"]
  /\ UNCHANGED <<apps, txs, lastApp, lastTx, job, internal, lost, dropped, faults>>

-----------------------------------------------------------------------------
(* What else happens to the ledger meanwhile.                              *)

MakeInvoice(a, h, amt) ==
  /\ Incoming(h) = {}
  /\ RecordIncomingInvoice(a, h, amt)
  /\ UNCHANGED <<job, lnd, internal, lost, dropped, faults>>

DeleteWallet(a) ==
  /\ DeleteApp(a)
  /\ UNCHANGED <<job, lnd, internal, lost, dropped, faults>>

WorkerStep(w) == \/ LndAccepts(w) \/ LndRefuses(w)
                 \/ ReceivePaid(w) \/ ReceiveFailed(w) \/ LoseAnswer(w) \/ Escape(w)
                 \/ BookPaid(w) \/ BookFailed(w)

Next == \/ \E w \in Worker, a \in AppId, h \in Hash, amt \in Amount :
             PayInternally(w, a, h, amt) \/ Reserve(w, a, h, amt)
        \/ \E w \in Worker : WorkerStep(w)
        \/ \E h \in Hash : LndPays(h) \/ LndFails(h)
        \/ \E a \in AppId, h \in Hash, amt \in Amount : MakeInvoice(a, h, amt)
        \/ \E a \in AppId : DeleteWallet(a)
        \/ Crash

Spec == Init /\ [][Next]_vars

\* Threads run, and LND ends every payment it took on (an HTLC settles or
\* times out): the fairness of a worker and of LND, none for new requests.
FairSpec == /\ Spec
            /\ \A w \in Worker : WF_vars(WorkerStep(w))
            /\ \A h \in Hash : WF_vars(LndPays(h) \/ LndFails(h))

-----------------------------------------------------------------------------
(* Properties.                                                             *)

\* Jobs and LND's payments are records of their types, no two workers work on
\* the same row, and a row somebody works on is still a pending payment with
\* the figures of the request.
PaymentsTypeOK ==
  /\ StoreTypeOK
  /\ job \in [Worker -> Job] /\ lnd \in [Hash -> Payment]
  /\ internal \subseteq 1..lastTx /\ lost \subseteq (1..lastTx) \ internal
  /\ dropped \subseteq 1..lastTx /\ faults \in 0..MaxFault
  /\ \A w \in Worker : job[w].pc # "idle" =>
       /\ job[w].tx \in 1..lastTx \ internal
       /\ job[w].hash \in Hash
       /\ \A v \in Worker \ {w} : job[v].tx # job[w].tx
       /\ job[w].tx \in DOMAIN txs =>
            txs[job[w].tx] = Row(job[w].app, "outgoing", "pending", job[w].amount,
                                 job[w].reserve, job[w].hash)

\* A payment LND made or may still make is on the books of the wallet that
\* asked for it: the row is pending or settled, never refunded, through every
\* race and restart, unless the wallet was deleted or LND's answer was lost.
PaidIsCharged ==
  \A h \in Hash :
    lnd[h].tx \in DOMAIN txs \ lost =>
      /\ lnd[h].state = "inflight" => txs[lnd[h].tx].state = "pending"
      /\ lnd[h].state = "paid" => txs[lnd[h].tx].state \in {"pending", "settled"}

\* A wallet is charged for good only for what happened: LND made this very
\* payment, at this price, or the ledger settled it internally.  Two workers
\* paying one invoice never both end up charged for the one payment.
ChargesAreReal ==
  \A t \in DOMAIN txs :
    /\ txs[t].type = "outgoing" /\ txs[t].state = "settled"
    /\ t \notin internal
    => /\ lnd[txs[t].hash].state = "paid"
       /\ lnd[txs[t].hash].tx = t
       /\ lnd[txs[t].hash].amount = txs[t].amount
       /\ lnd[txs[t].hash].fee = txs[t].fees

\* What LND has spent or may still spend for the rows S.
LndSpending(S) ==
  SumFunctionOnSet([h \in Hash |-> lnd[h].amount + lnd[h].fee],
                   {h \in Hash : lnd[h].tx \in S /\ lnd[h].state \in {"inflight", "paid"}})

RowTotal(S) == SumFunctionOnSet([t \in DOMAIN txs |-> txs[t].amount], S)

Received(a) == RowTotal({t \in AppRows(txs, a) : /\ txs[t].type = "incoming"
                                                /\ txs[t].state = "settled"})

PaidInternally(a) == RowTotal(internal \cap AppRows(txs, a))

\* All that LND and the ledger paid out for a wallet is covered by what the
\* wallet received, apart from payments whose answer was lost.
NeverOverspends ==
  \A a \in DOMAIN apps :
    LndSpending(AppRows(txs, a) \ lost) + PaidInternally(a) <= Received(a)

\* "An isolated wallet cannot spend more than it holds" (nwc_hub_manager.py),
\* with no exception.
CannotSpendMoreThanItHolds ==
  \A a \in DOMAIN apps :
    LndSpending(AppRows(txs, a)) + PaidInternally(a) <= Received(a)

\* Money reserved for a payment does not stay reserved: the row is settled,
\* refunded, or deleted with its wallet.  The exception is a row whose own
\* request was cut off by a restart or by an exception that is no LndError,
\* while other rows are released whatever happened to that one.
HoldsReleased ==
  \A t \in TxId : t \in PendingOutgoing ~> (t \notin PendingOutgoing \/ t \in dropped)
=============================================================================

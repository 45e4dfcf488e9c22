---------------------------- MODULE NwcInvoices ----------------------------
(***************************************************************************)
(* The receiving side of the daemon: make_invoice and POST /api/invoices,  *)
(* reconcile_pending_invoices - run by the invoice watcher every 3 seconds *)
(* and by every request that shows a balance or a transaction - and the    *)
(* internal settlement of a wallet's invoice by another wallet, with the   *)
(* payment_received notifications of both.  Between the calls to LND and   *)
(* to the store nothing is locked, so any two threads may interleave, a    *)
(* wallet may be deleted in between, and the daemon may be restarted.      *)
(*                                                                         *)
(* LND is external: an invoice is handed out, then paid or canceled there. *)
(* Whether a row has a preimage is modelled, the preimage is not: every    *)
(* one is the preimage LND reports for the hash.                           *)
(***************************************************************************)
EXTENDS NwcStore

CONSTANTS Worker,    \* relay connections and HTTP requests
          Watcher,   \* the invoice watcher thread
          Funding,   \* what every wallet holds at the start
          MaxCrash   \* bound on restarts of the daemon

ASSUME InvoicesAssumption == /\ Watcher \notin Worker
                             /\ Funding \in Nat
                             /\ MaxCrash \in Nat
                             /\ MaxApp <= MaxTx

VARIABLES job,       \* what each thread is doing
          inv,       \* LND's invoices
          known,     \* rows whose preimage column is filled
          internal,  \* history: incoming rows another wallet paid
          debited,   \* history: what payers were charged for each invoice
          notified,  \* history: payment_received notifications per invoice
          crashes    \* restarts so far

vars == <<apps, txs, lastApp, lastTx, job, inv, known, internal, debited, notified, crashes>>

Thread == Worker \cup {Watcher}

Idle == [pc |-> "idle", app |-> 0, hash |-> NoHash, amount |-> 0,
         todo |-> {}, due |-> {}]
NoInvoice == [state |-> "none", app |-> 0, amount |-> 0, paid |-> 0]

Job == [pc : {"idle", "created", "recorded", "reconciling", "settling", "notifying",
              "finishing", "announcing"},
        app : 0..MaxApp, hash : Hash \cup {NoHash}, amount : Nat,
        todo : SUBSET Hash, due : SUBSET Hash]
Invoice == [state : {"none", "draft", "open", "settled", "canceled"},
            app : 0..MaxApp, amount : Nat, paid : Nat]

\* Wallets that were created and funded before any request arrives.
Init == /\ apps = [a \in AppId |-> [balance |-> Funding, limit |-> 0]]
        /\ txs = [t \in AppId |-> Row(t, "incoming", "settled", Funding, 0, NoHash)]
        /\ lastApp = MaxApp
        /\ lastTx = MaxApp
        /\ job = [th \in Thread |-> Idle]
        /\ inv = [h \in Hash |-> NoInvoice]
        /\ known = {}
        /\ internal = {}
        /\ debited = [h \in Hash |-> 0]
        /\ notified = [h \in Hash |-> 0]
        /\ crashes = 0

RowsOf(h) == {t \in DOMAIN txs : txs[t].hash = h}

-----------------------------------------------------------------------------
(* Issuing an invoice.  It is given to the client with the reply, so nobody *)
(* can pay it before: it is a draft until then.                             *)

CreateInvoice(w, a, h, amt) ==
  /\ job[w] = Idle
  /\ a \in DOMAIN apps
  /\ inv[h].state = "none"
  /\ inv' = [inv EXCEPT ![h] = [state |-> "draft", app |-> a, amount |-> amt, paid |-> 0]]
  /\ job' = [job EXCEPT ![w] = [Idle EXCEPT !.pc = "created", !.app = a, !.hash = h,
                                            !.amount = amt]]
  /\ UNCHANGED <<storeVars, known, internal, debited, notified, crashes>>

\* The HTTP handler replies at once, make_invoice fetches the preimage first.
RecordInvoice(w) ==
  /\ job[w].pc = "created"
  /\ RecordIncomingInvoice(job[w].app, job[w].hash, job[w].amount)
  /\ \/ /\ job' = [job EXCEPT ![w].pc = "recorded"]
        /\ UNCHANGED inv
     \/ /\ job' = [job EXCEPT ![w] = Idle]
        /\ inv' = [inv EXCEPT ![job[w].hash].state = "open"]
  /\ UNCHANGED <<known, internal, debited, notified, crashes>>

\* The wallet went away: an error reply, and an invoice nobody ever sees.
RecordRefused(w) ==
  /\ job[w].pc = "created"
  /\ job[w].app \notin DOMAIN apps
  /\ job' = [job EXCEPT ![w] = Idle]
  /\ UNCHANGED <<storeVars, inv, known, internal, debited, notified, crashes>>

\* Mutant: the preimage is written to the newest row of the hash only.
PreimageOnNewestRow(h) ==
  known' \in {known, known \cup {t \in RowsOf(h) : Newest(t, RowsOf(h))}}

\* lookup_invoice and set_preimage_for_hash, or an LndError.
PreimageFetched(h) == known' \in {known, known \cup RowsOf(h)}

KeepPreimage(w) ==
  /\ job[w].pc = "recorded"
  /\ PreimageFetched(job[w].hash)
  /\ job' = [job EXCEPT ![w] = Idle]
  /\ inv' = [inv EXCEPT ![job[w].hash].state = "open"]
  /\ UNCHANGED <<storeVars, internal, debited, notified, crashes>>

-----------------------------------------------------------------------------
(* reconcile_pending_invoices.                                              *)

\* list_pending_incoming: for one wallet in a request, for all in the watcher.
\* due are the invoices that LND has been paid already.
Reconcile(th, A) ==
  LET pending == {h \in Hash : \E t \in PendingIncoming(h) : txs[t].app \in A}
  IN /\ job[th] = Idle
     /\ job' = [job EXCEPT ![th] =
                  [Idle EXCEPT !.pc = "reconciling", !.todo = pending,
                               !.due = {h \in pending : inv[h].state = "settled"}]]
     /\ UNCHANGED <<storeVars, inv, known, internal, debited, notified, crashes>>

\* Mutant: an invoice that was overpaid is not taken for a settled one.
LookupSettledExactly(th, h) ==
  /\ job[th].pc = "reconciling" /\ h \in job[th].todo
  /\ inv[h].state = "settled" /\ inv[h].paid = inv[h].amount
  /\ job' = [job EXCEPT ![th].pc = "settling", ![th].hash = h, ![th].amount = inv[h].paid]
  /\ UNCHANGED <<storeVars, inv, known, internal, debited, notified, crashes>>

LookupSettled(th, h) ==
  /\ job[th].pc = "reconciling" /\ h \in job[th].todo
  /\ inv[h].state = "settled"
  /\ job' = [job EXCEPT ![th].pc = "settling", ![th].hash = h, ![th].amount = inv[h].paid]
  /\ UNCHANGED <<storeVars, inv, known, internal, debited, notified, crashes>>

\* Mutant: LND's "SETTLED" is not recognised.
LookupWithoutState(th, h) ==
  /\ job[th].pc = "reconciling" /\ h \in job[th].todo
  /\ job' = [job EXCEPT ![th].todo = @ \ {h}]
  /\ UNCHANGED <<storeVars, inv, known, internal, debited, notified, crashes>>

LookupUnpaid(th, h) ==
  /\ job[th].pc = "reconciling" /\ h \in job[th].todo
  /\ inv[h].state # "settled"
  /\ job' = [job EXCEPT ![th].todo = @ \ {h}]
  /\ UNCHANGED <<storeVars, inv, known, internal, debited, notified, crashes>>

\* An LndError is skipped; the next reconciliation asks again.
LookupFails(th, h) ==
  /\ job[th].pc = "reconciling" /\ h \in job[th].todo
  /\ job' = [job EXCEPT ![th].todo = @ \ {h}, ![th].due = @ \ {h}]
  /\ UNCHANGED <<storeVars, inv, known, internal, debited, notified, crashes>>

\* Mutant: the notification is sent whether or not this call settled the row.
SettleAndNotify(th) ==
  LET h == job[th].hash
  IN /\ job[th].pc = "settling"
     /\ \/ SettleIncoming(h, job[th].amount)
        \/ (\A t \in Incoming(h) : txs[t].state = "settled") /\ UNCHANGED storeVars
     /\ job' = [job EXCEPT ![th].pc = "notifying"]
     /\ known' = known \cup {t \in DOMAIN txs : Newest(t, Incoming(h))}
     /\ UNCHANGED <<inv, internal, debited, notified, crashes>>

\* settle_incoming_by_payment_hash: another thread may have settled the row
\* since it was listed, or the wallet is gone; then nothing is announced.
Settle(th) ==
  LET h == job[th].hash
  IN /\ job[th].pc = "settling"
     /\ \/ /\ SettleIncoming(h, job[th].amount)
           /\ known' = known \cup {t \in DOMAIN txs : Newest(t, Incoming(h))}
           /\ job' = [job EXCEPT ![th].pc = "notifying"]
        \/ /\ \A t \in Incoming(h) : txs[t].state = "settled"
           /\ job' = [job EXCEPT ![th].pc = "reconciling", ![th].todo = @ \ {h}]
           /\ UNCHANGED <<apps, txs, lastApp, lastTx, known>>
     /\ UNCHANGED <<inv, internal, debited, notified, crashes>>

\* _emit_notification finds no key to encrypt to when the wallet is gone.
Announced(h, a) ==
  notified' = [notified EXCEPT ![h] = IF a \in DOMAIN apps THEN @ + 1 ELSE @]

Notify(th) ==
  LET h == job[th].hash
  IN /\ job[th].pc = "notifying"
     /\ Announced(h, inv[h].app)
     /\ job' = [job EXCEPT ![th].pc = "reconciling", ![th].todo = @ \ {h}]
     /\ UNCHANGED <<storeVars, inv, known, internal, debited, crashes>>

\* The request replies with what the ledger says now; the watcher sleeps.
Reconciled(th) ==
  /\ job[th].pc = "reconciling" /\ job[th].todo = {}
  /\ job' = [job EXCEPT ![th] = Idle]
  /\ UNCHANGED <<storeVars, inv, known, internal, debited, notified, crashes>>

-----------------------------------------------------------------------------
(* A wallet pays another wallet's (or its own) invoice inside the ledger.   *)

\* Only the ledger's row decides: LND is not asked whether the invoice is
\* still open.  The payer's row takes the preimage of the payee's.  pay_invoice
\* pays what the invoice asks for; pay_keysend with the preimage of an invoice
\* finds the same row and pays whatever amount the client chose.
PayInternally(w, a, h, amt) ==
  /\ job[w] = Idle
  /\ inv[h].state \in {"open", "settled", "canceled"}
  /\ SettleInternally(a, amt, h)
  /\ internal' = internal \cup PendingIncoming(h)
  /\ debited' = [debited EXCEPT ![h] = @ + txs'[lastTx'].amount]
  /\ known' = known \cup (IF PendingIncoming(h) \subseteq known THEN {lastTx + 1} ELSE {})
  /\ job' = [job EXCEPT ![w] = [Idle EXCEPT !.pc = "finishing", !.app = a, !.hash = h]]
  /\ UNCHANGED <<inv, notified, crashes>>

\* _finish_internal_payment asks LND for a preimage the payer's row lacks.
FinishPayment(w) ==
  LET mine == {t \in RowsOf(job[w].hash) : txs[t].app = job[w].app}
  IN /\ job[w].pc = "finishing"
     /\ \/ mine \cap known = {} /\ PreimageFetched(job[w].hash)
        \/ mine \cap known # {} /\ UNCHANGED known
     /\ job' = [job EXCEPT ![w].pc = "announcing"]
     /\ UNCHANGED <<storeVars, inv, internal, debited, notified, crashes>>

AnnouncePayment(w) ==
  /\ job[w].pc = "announcing"
  /\ Announced(job[w].hash, inv[job[w].hash].app)
  /\ job' = [job EXCEPT ![w] = Idle]
  /\ UNCHANGED <<storeVars, inv, known, internal, debited, crashes>>

-----------------------------------------------------------------------------
(* LND (external), the operator and restarts.                               *)

\* A payer may overpay.
LndIsPaid(h) ==
  /\ inv[h].state = "open"
  /\ \E x \in {x \in Amount : x >= inv[h].amount} :
       inv' = [inv EXCEPT ![h].state = "settled", ![h].paid = x]
  /\ UNCHANGED <<storeVars, job, known, internal, debited, notified, crashes>>

LndCancels(h) ==
  /\ inv[h].state = "open"
  /\ inv' = [inv EXCEPT ![h].state = "canceled"]
  /\ UNCHANGED <<storeVars, job, known, internal, debited, notified, crashes>>

DeleteWallet(a) ==
  /\ DeleteApp(a)
  /\ known' = {t \in known : txs[t].app # a}
  /\ UNCHANGED <<job, inv, internal, debited, notified, crashes>>

Crash ==
  /\ crashes < MaxCrash
  /\ crashes' = crashes + 1
  /\ job' = [th \in Thread |-> Idle]
  /\ UNCHANGED <<storeVars, inv, known, internal, debited, notified>>

-----------------------------------------------------------------------------
IssueStep(w) == RecordInvoice(w) \/ RecordRefused(w) \/ KeepPreimage(w)
PayStep(w) == FinishPayment(w) \/ AnnouncePayment(w)
ReconcileStep(th) == \/ \E h \in Hash : \/ LookupSettled(th, h)
                                        \/ LookupUnpaid(th, h)
                                        \/ LookupFails(th, h)
                     \/ Settle(th) \/ Notify(th) \/ Reconciled(th)
WatcherStep == Reconcile(Watcher, AppId) \/ ReconcileStep(Watcher)

Next == \/ \E w \in Worker, a \in AppId, h \in Hash, amt \in Amount :
             PayInternally(w, a, h, amt) \/ CreateInvoice(w, a, h, amt)
        \/ \E w \in Worker : IssueStep(w) \/ PayStep(w) \/ ReconcileStep(w)
        \/ \E w \in Worker, a \in AppId : Reconcile(w, {a})
        \/ WatcherStep
        \/ \E h \in Hash : LndIsPaid(h) \/ LndCancels(h)
        \/ \E a \in AppId : DeleteWallet(a)
        \/ Crash

Spec == Init /\ [][Next]_vars

\* The watcher keeps running, and LND answers its lookup of an invoice now and
\* then; nothing is assumed of clients, requests or payers.
FairSpec == /\ Spec
            /\ WF_vars(WatcherStep)
            /\ \A h \in Hash : SF_vars(LookupSettled(Watcher, h))

-----------------------------------------------------------------------------
(* Properties.                                                              *)

\* Jobs and invoices are records of their types; only the watcher has invoices
\* of several wallets to look at, and a row of an invoice belongs to the wallet
\* the invoice was made for.
InvoicesTypeOK ==
  /\ StoreTypeOK
  /\ job \in [Thread -> Job] /\ inv \in [Hash -> Invoice]
  /\ known \subseteq DOMAIN txs /\ internal \subseteq 1..lastTx
  /\ debited \in [Hash -> Nat] /\ notified \in [Hash -> Nat] /\ crashes \in 0..MaxCrash
  /\ \A th \in Thread : job[th].due \subseteq {h \in Hash : inv[h].state = "settled"}
  /\ \A h \in Hash : \A t \in Incoming(h) : txs[t].app = inv[h].app

\* A wallet is credited for an invoice only against money: what LND was paid
\* for it, to the msat, or what wallets were charged for it inside the ledger,
\* all of it and no more - and for one of the two only, whoever settles first.
\* That the payer inside the ledger pays what the invoice asks for is not said:
\* a keysend with its preimage settles it for any amount.
CreditsAreBacked ==
  \A h \in Hash : \A t \in Incoming(h) :
    IF t \in internal
    THEN txs[t].state = "settled" /\ txs[t].amount = debited[h]
    ELSE /\ debited[h] = 0
         /\ txs[t].state = "settled" =>
              inv[h].state = "settled" /\ txs[t].amount = inv[h].paid

\* The client hears of a receipt at most once, and never before the balance
\* has it, however many threads reconcile the same invoice.
NotifiedOnce ==
  \A h \in Hash : /\ notified[h] <= 1
                  /\ notified[h] = 1 => PendingIncoming(h) = {}

\* A reply that shows a balance counts every invoice of the wallet that LND had
\* been paid when the request began and could be asked about.
RepliesAreFresh ==
  \A th \in Thread :
    job[th].pc = "reconciling" =>
      \A h \in job[th].due \ job[th].todo : PendingIncoming(h) = {}

\* The two rows of an internal payment both have the preimage or both lack it:
\* payer and payee can prove the same.
PreimageOnBothRows ==
  \A h \in Hash :
    (\E t \in Incoming(h) : t \in internal) => RowsOf(h) \subseteq known
                                               \/ RowsOf(h) \cap known = {}

\* An invoice that was paid through LND does not stay pending: the watcher
\* credits it, whatever requests, restarts and deletions come between.
PaidIsCredited ==
  \A h \in Hash : inv[h].state = "settled" ~> PendingIncoming(h) = {}
=============================================================================

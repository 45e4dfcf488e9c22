------------------------- MODULE NwcInvoicesProofs -------------------------
(* Theorems about receiving, for any number of wallets, invoices, requests *)
(* and restarts: an invoice is credited for what was paid, and announced   *)
(* at most once.                                                           *)
EXTENDS NwcInvoices, NwcStoreProofs

\* The records of InvoicesTypeOK.
Types ==
  /\ job \in [Thread -> Job] /\ inv \in [Hash -> Invoice]
  /\ known \subseteq DOMAIN txs /\ internal \subseteq 1..lastTx
  /\ debited \in [Hash -> Nat] /\ notified \in [Hash -> Nat] /\ crashes \in 0..MaxCrash
  /\ \A th \in Thread : job[th].due \subseteq {h \in Hash : inv[h].state = "settled"}

\* Nobody has seen the invoice yet.
Unseen(h) == inv[h].state \in {"none", "draft"}

\* An invoice has one row at most, of the wallet it was made for; what pays
\* it inside the ledger comes after it was seen and leaves nothing pending.
RowsOK ==
  \A h \in Hash : \A t \in RowsOf(h) :
    /\ inv[h].state # "none"
    /\ txs[t].type = "incoming" =>
         /\ txs[t].app = inv[h].app
         /\ \A u \in Incoming(h) : u = t
    /\ txs[t].type = "outgoing" => ~Unseen(h) /\ PendingIncoming(h) = {}

\* What LND's invoices were made with.
InvoicesOK ==
  \A h \in Hash :
    /\ inv[h].state # "none" => inv[h].app \in AppId /\ inv[h].amount \in Amount
    /\ inv[h].state = "settled" => inv[h].paid \in Amount
    /\ Unseen(h) => notified[h] = 0 /\ debited[h] = 0

\* A thread that is issuing an invoice is the only one that knows of it.
Issuing == {"created", "recorded"}
IssuersOK ==
  \A th \in Thread :
    /\ job[th].pc \in Issuing =>
         /\ job[th].hash \in Hash /\ inv[job[th].hash].state = "draft"
         /\ \A other \in Thread \ {th} :
              job[other].pc \in Issuing => job[other].hash # job[th].hash
    /\ job[th].pc = "created" =>
         /\ inv[job[th].hash].app = job[th].app
         /\ inv[job[th].hash].amount = job[th].amount
         /\ Incoming(job[th].hash) = {}

\* The thread that settled an invoice is the only one to announce it.
Announcing == {"notifying", "finishing", "announcing"}
SettlersOK ==
  \A th \in Thread :
    /\ job[th].pc = "settling" =>
         /\ job[th].hash \in Hash /\ inv[job[th].hash].state = "settled"
         /\ job[th].amount = inv[job[th].hash].paid
    /\ job[th].pc \in Announcing =>
         /\ job[th].hash \in Hash /\ ~Unseen(job[th].hash)
         /\ notified[job[th].hash] = 0 /\ PendingIncoming(job[th].hash) = {}
         /\ \A other \in Thread \ {th} :
              job[other].pc \in Announcing => job[other].hash # job[th].hash
    /\ job[th].pc \in {"reconciling", "settling", "notifying"} =>
         \A h \in job[th].due \ job[th].todo : PendingIncoming(h) = {}

\* The inductive invariant.
Settlement ==
  /\ StoreTypeOK /\ Types /\ RowsOK /\ InvoicesOK /\ IssuersOK /\ SettlersOK
  /\ CreditsAreBacked /\ NotifiedOnce /\ PreimageOnBothRows

-----------------------------------------------------------------------------
(* Every step of the threads is one of the store's general client.         *)

LEMMA ThreadsUseTheStore ==
  ASSUME Settlement, [Next]_vars
  PROVE  [StoreNext]_storeVars
<1> USE DEF storeVars
<1>0. Types /\ IssuersOK /\ InvoicesOK /\ SettlersOK BY DEF Settlement
<1>1. ASSUME NEW w \in Worker, RecordInvoice(w) PROVE StoreNext
  <2> DEFINE h == job[w].hash
  <2>1. job[w].pc = "created" /\ RecordIncomingInvoice(job[w].app, h, job[w].amount)
    BY <1>1 DEF RecordInvoice
  <2>2. /\ h \in Hash /\ inv[h].state = "draft" /\ inv[h].app = job[w].app
        /\ inv[h].amount = job[w].amount /\ Incoming(h) = {}
    BY <1>0, <2>1 DEF IssuersOK, Issuing, Thread
  <2>3. job[w].app \in AppId /\ job[w].amount \in Amount
    BY <1>0, <2>2 DEF InvoicesOK
  <2> QED BY <2>1, <2>2, <2>3 DEF StoreNext, Receive
<1>2. ASSUME NEW th \in Thread, Settle(th) PROVE [StoreNext]_storeVars
  <2> DEFINE h == job[th].hash
  <2>1. CASE SettleIncoming(h, job[th].amount)
    <3>1. job[th].pc = "settling" BY <1>2 DEF Settle
    <3>2. h \in Hash /\ inv[h].state = "settled" /\ job[th].amount = inv[h].paid
      BY <1>0, <3>1 DEF SettlersOK
    <3>3. job[th].amount \in Amount BY <1>0, <3>2 DEF InvoicesOK
    <3> QED BY <2>1, <3>2, <3>3 DEF StoreNext, Receive
  <2>2. CASE UNCHANGED storeVars BY <2>2
  <2> QED BY <1>2, <2>1, <2>2 DEF Settle
<1>3. ASSUME NEW w \in Worker, NEW a \in AppId, NEW h \in Hash, NEW amt \in Amount,
             PayInternally(w, a, h, amt)
      PROVE  StoreNext
  BY <1>3 DEF PayInternally, StoreNext, Pay
<1>4. ASSUME NEW a \in AppId, DeleteWallet(a) PROVE StoreNext
  BY <1>4 DEF DeleteWallet, StoreNext, Operator
<1>5. ASSUME \/ \E w \in Worker, a \in AppId, h \in Hash, amt \in Amount :
                  CreateInvoice(w, a, h, amt)
             \/ \E w \in Worker : RecordRefused(w) \/ KeepPreimage(w) \/ PayStep(w)
             \/ \E th \in Thread, A \in SUBSET AppId : Reconcile(th, A)
             \/ \E th \in Thread : ReconcileStep(th) /\ ~Settle(th)
             \/ \E h \in Hash : LndIsPaid(h) \/ LndCancels(h)
             \/ Crash \/ UNCHANGED vars
      PROVE  UNCHANGED storeVars
  BY <1>5 DEF CreateInvoice, RecordRefused, KeepPreimage, PayStep, FinishPayment,
              AnnouncePayment, Reconcile, ReconcileStep, LookupSettled, LookupUnpaid,
              LookupFails, Notify, Reconciled, LndIsPaid, LndCancels, Crash, vars
<1> QED BY <1>1, <1>2, <1>3, <1>4, <1>5 DEF Next, IssueStep, WatcherStep, Thread

-----------------------------------------------------------------------------
(* The invariant is inductive: the threads' own records.                   *)

\* One thread moves on, the others stay where they are.
LEMMA OneJob ==
  ASSUME job \in [Thread -> Job], NEW th \in Thread, NEW j \in Job,
         job' = [job EXCEPT ![th] = j]
  PROVE  /\ job' \in [Thread -> Job] /\ job'[th] = j
         /\ \A v \in Thread \ {th} : job'[v] = job[v]
OBVIOUS

\* A thread with nothing to do.
LEMMA IdleJob == /\ Idle \in Job /\ Idle.pc = "idle" /\ Idle.due = {}
BY StoreAssumption DEF Idle, Job

\* A step that leaves the ledger, the invoices and what was announced alone.
LEMMA RecordsAside ==
  ASSUME Settlement,
         UNCHANGED <<storeVars, inv, known, internal, debited, notified>>,
         crashes' \in 0..MaxCrash,
         job' \in [Thread -> Job],
         \A th \in Thread : job'[th].due \subseteq {h \in Hash : inv[h].state = "settled"},
         IssuersOK', SettlersOK'
  PROVE  Settlement'
<1>1. StoreTypeOK' BY DEF Settlement, StoreTypeOK, storeVars
<1>2. Types'
  <2>1. inv' = inv /\ known' = known /\ internal' = internal
      /\ debited' = debited /\ notified' = notified
        /\ txs' = txs /\ lastTx' = lastTx
    BY DEF storeVars
  <2> QED BY <2>1 DEF Settlement, Types
<1>3. RowsOK' /\ InvoicesOK' /\ CreditsAreBacked' /\ NotifiedOnce'
  BY DEF Settlement, RowsOK, InvoicesOK, CreditsAreBacked, NotifiedOnce, RowsOf, Incoming,
         PendingIncoming, Unseen, storeVars
<1>4. PreimageOnBothRows'
  BY DEF Settlement, PreimageOnBothRows, RowsOf, Incoming, storeVars
<1> QED BY <1>1, <1>2, <1>3, <1>4 DEF Settlement

\* What a thread may go on with that issues nothing and announces nothing new.
Continues(th, j) ==
  /\ j \in Job /\ j.pc \notin Issuing
  /\ j.due \subseteq {h \in Hash : inv[h].state = "settled"}
  /\ j.pc = "settling" => /\ j.hash \in Hash /\ inv[j.hash].state = "settled"
                          /\ j.amount = inv[j.hash].paid
  /\ j.pc \in Announcing => job[th].pc \in Announcing /\ j.hash = job[th].hash
  /\ j.pc \in {"reconciling", "settling", "notifying"} =>
       \A h \in j.due \ j.todo : PendingIncoming(h) = {}

\* A thread that goes on like that keeps the invariant.
LEMMA ContinuesSettles ==
  ASSUME Settlement, NEW th \in Thread, NEW j, Continues(th, j),
         job' = [job EXCEPT ![th] = j],
         UNCHANGED <<storeVars, inv, known, internal, debited, notified, crashes>>
  PROVE  Settlement'
<1>0. Types /\ IssuersOK /\ SettlersOK BY DEF Settlement
<1>1. /\ job' \in [Thread -> Job] /\ job'[th] = j
      /\ \A v \in Thread \ {th} : job'[v] = job[v]
  BY <1>0, OneJob DEF Continues, Types
<1>2. \A v \in Thread : job'[v].due \subseteq {h \in Hash : inv[h].state = "settled"}
  BY <1>0, <1>1 DEF Continues, Types
<1>3. inv' = inv /\ notified' = notified /\ txs' = txs BY DEF storeVars
<1>4. IssuersOK'
  BY <1>0, <1>1, <1>3 DEF IssuersOK, Continues, Incoming, Issuing
<1>5. \A h : PendingIncoming(h)' = PendingIncoming(h)
  BY <1>3 DEF PendingIncoming, Incoming
<1>6. \A h : Unseen(h)' <=> Unseen(h) BY <1>3 DEF Unseen
<1>7. SettlersOK'
  <2> SUFFICES ASSUME NEW v \in Thread
               PROVE  /\ job'[v].pc = "settling" =>
                           /\ job'[v].hash \in Hash /\ inv[job'[v].hash].state = "settled"
                           /\ job'[v].amount = inv[job'[v].hash].paid
                      /\ job'[v].pc \in Announcing =>
                           /\ job'[v].hash \in Hash /\ ~Unseen(job'[v].hash)
                           /\ notified[job'[v].hash] = 0
                           /\ PendingIncoming(job'[v].hash) = {}
                           /\ \A other \in Thread \ {v} :
                                job'[other].pc \in Announcing =>
                                  job'[other].hash # job'[v].hash
                      /\ job'[v].pc \in {"reconciling", "settling", "notifying"} =>
                           \A h \in job'[v].due \ job'[v].todo : PendingIncoming(h) = {}
    BY <1>3, <1>5, <1>6 DEF SettlersOK
  <2>1. CASE v = th
    BY <2>1, <1>0, <1>1 DEF SettlersOK, Continues
  <2>2. CASE v # th
    BY <2>2, <1>0, <1>1 DEF SettlersOK, Continues
  <2> QED BY <2>1, <2>2
<1>8. crashes' \in 0..MaxCrash BY <1>0 DEF Types
<1> QED BY <1>1, <1>2, <1>4, <1>7, <1>8, RecordsAside

\* A thread that is done keeps the invariant.
LEMMA IdleContinues ==
  ASSUME NEW th \in Thread
  PROVE  Continues(th, Idle)
BY IdleJob DEF Continues, Issuing, Announcing

\* The steps of a reconciliation that settle nothing, a refused invoice and a
\* restart.
LEMMA ReconcileSettles ==
  ASSUME Settlement, NEW th \in Thread, NEW A, Reconcile(th, A)
  PROVE  Settlement'
<1> DEFINE pending == {h \in Hash : \E t \in PendingIncoming(h) : txs[t].app \in A}
           j == [Idle EXCEPT !.pc = "reconciling", !.todo = pending,
                             !.due = {h \in pending : inv[h].state = "settled"}]
<1>1. /\ job' = [job EXCEPT ![th] = j]
      /\ UNCHANGED <<storeVars, inv, known, internal, debited, notified, crashes>>
  BY DEF Reconcile, storeVars
<1>2. /\ j.pc = "reconciling" /\ j.todo = pending
      /\ j.due = {h \in pending : inv[h].state = "settled"} /\ j \in Job
  BY IdleJob, StoreAssumption DEF Idle, Job
<1> HIDE DEF j
<1>3. Continues(th, j) BY <1>2 DEF Continues, Issuing, Announcing
<1> QED BY <1>1, <1>3, ContinuesSettles

LEMMA LookupSettles ==
  ASSUME Settlement, NEW th \in Thread, NEW h \in Hash,
         LookupSettled(th, h) \/ LookupUnpaid(th, h) \/ LookupFails(th, h)
  PROVE  Settlement'
<1>0. Types /\ SettlersOK /\ InvoicesOK /\ job[th] \in Job /\ inv[h] \in Invoice
  BY DEF Settlement, Types
<1>1. /\ job[th].pc = "reconciling"
      /\ UNCHANGED <<storeVars, inv, known, internal, debited, notified, crashes>>
  BY DEF LookupSettled, LookupUnpaid, LookupFails, storeVars
<1>2. CASE LookupSettled(th, h)
  <2> DEFINE j == [job[th] EXCEPT !.pc = "settling", !.hash = h, !.amount = inv[h].paid]
  <2>1. job' = [job EXCEPT ![th] = j] /\ inv[h].state = "settled"
    BY <1>0, <1>2 DEF LookupSettled, Types
  <2>2. /\ j.pc = "settling" /\ j.hash = h /\ j.amount = inv[h].paid
        /\ j.due = job[th].due /\ j.todo = job[th].todo /\ j \in Job
    BY <1>0 DEF Job, Invoice
  <2> HIDE DEF j
  <2>3. Continues(th, j)
    BY <1>0, <1>1, <2>1, <2>2 DEF Continues, Issuing, Announcing, Types, SettlersOK
  <2> QED BY <1>1, <2>1, <2>3, ContinuesSettles
<1>3. CASE LookupUnpaid(th, h)
  <2> DEFINE j == [job[th] EXCEPT !.todo = @ \ {h}]
  <2>1. job' = [job EXCEPT ![th] = j] /\ inv[h].state # "settled"
    BY <1>0, <1>3 DEF LookupUnpaid, Types
  <2>2. /\ j.pc = "reconciling" /\ j.due = job[th].due /\ j.todo = job[th].todo \ {h}
        /\ j \in Job
    BY <1>0, <1>1 DEF Job
  <2> HIDE DEF j
  <2>3. j.due \ j.todo \subseteq job[th].due \ job[th].todo
    BY <1>0, <2>1, <2>2 DEF Types
  <2>4. Continues(th, j)
    BY <1>0, <1>1, <2>2, <2>3 DEF Continues, Issuing, Announcing, Types, SettlersOK
  <2> QED BY <1>1, <2>1, <2>4, ContinuesSettles
<1>4. CASE LookupFails(th, h)
  <2> DEFINE j == [job[th] EXCEPT !.todo = @ \ {h}, !.due = @ \ {h}]
  <2>1. job' = [job EXCEPT ![th] = j]
    BY <1>0, <1>4 DEF LookupFails, Types
  <2>2. /\ j.pc = "reconciling" /\ j.due = job[th].due \ {h}
        /\ j.todo = job[th].todo \ {h} /\ j \in Job
    BY <1>0, <1>1 DEF Job
  <2> HIDE DEF j
  <2>3. j.due \ j.todo \subseteq job[th].due \ job[th].todo
    BY <2>2
  <2>4. Continues(th, j)
    BY <1>0, <1>1, <2>2, <2>3 DEF Continues, Issuing, Announcing, Types, SettlersOK
  <2> QED BY <1>1, <2>1, <2>4, ContinuesSettles
<1> QED BY <1>2, <1>3, <1>4

LEMMA ReconciledSettles ==
  ASSUME Settlement, NEW th \in Thread, Reconciled(th) \/ RecordRefused(th)
  PROVE  Settlement'
<1>1. /\ job' = [job EXCEPT ![th] = Idle]
      /\ UNCHANGED <<storeVars, inv, known, internal, debited, notified, crashes>>
  BY DEF Reconciled, RecordRefused, storeVars
<1> QED BY <1>1, IdleContinues, ContinuesSettles

LEMMA CrashSettles ==
  ASSUME Settlement, Crash
  PROVE  Settlement'
<1>1. /\ job' = [v \in Thread |-> Idle] /\ crashes' = crashes + 1 /\ crashes < MaxCrash
      /\ UNCHANGED <<storeVars, inv, known, internal, debited, notified>>
  BY DEF Crash, storeVars
<1>2. job' \in [Thread -> Job] /\ \A v \in Thread : job'[v] = Idle
  BY <1>1, IdleJob
<1>3. crashes' \in 0..MaxCrash
  BY <1>1, InvoicesAssumption DEF Settlement, Types
<1>4. \A v \in Thread : job'[v].due \subseteq {h \in Hash : inv[h].state = "settled"}
  BY <1>2, IdleJob
<1>5. IssuersOK' /\ SettlersOK'
  BY <1>2, IdleJob DEF IssuersOK, SettlersOK, Issuing, Announcing
<1> QED BY <1>1, <1>2, <1>3, <1>4, <1>5, RecordsAside

-----------------------------------------------------------------------------
(* The invariant is inductive: issuing.                                    *)

LEMMA CreateSettles ==
  ASSUME Settlement, NEW w \in Worker, NEW a \in AppId, NEW h \in Hash, NEW amt \in Amount,
         CreateInvoice(w, a, h, amt)
  PROVE  Settlement'
<1> DEFINE j == [Idle EXCEPT !.pc = "created", !.app = a, !.hash = h, !.amount = amt]
           i == [state |-> "draft", app |-> a, amount |-> amt, paid |-> 0]
<1>0. /\ StoreTypeOK /\ Types /\ RowsOK /\ InvoicesOK /\ IssuersOK /\ SettlersOK
      /\ CreditsAreBacked /\ NotifiedOnce /\ PreimageOnBothRows /\ w \in Thread
  BY DEF Settlement, Thread
<1>1. /\ job[w] = Idle /\ inv[h].state = "none"
      /\ inv' = [inv EXCEPT ![h] = i] /\ job' = [job EXCEPT ![w] = j]
      /\ UNCHANGED <<storeVars, known, internal, debited, notified, crashes>>
  BY DEF CreateInvoice, storeVars
<1>2. RowsOf(h) = {} /\ Incoming(h) = {} /\ notified[h] = 0 /\ debited[h] = 0
  BY <1>0, <1>1 DEF RowsOK, RowsOf, Incoming, InvoicesOK, Unseen
<1>3. /\ j.pc = "created" /\ j.app = a /\ j.hash = h /\ j.amount = amt /\ j.due = {}
      /\ j \in Job
  <2>1. a \in 0..MaxApp /\ amt \in Nat BY StoreAssumption DEF AppId
  <2>2. j \in Job BY <2>1, IdleJob DEF Job
  <2>3. j.pc = "created" /\ j.app = a /\ j.hash = h /\ j.amount = amt /\ j.due = {}
    BY DEF Idle
  <2> QED BY <2>2, <2>3
<1>4. i.state = "draft" /\ i.app = a /\ i.amount = amt /\ i \in Invoice
  BY StoreAssumption DEF Invoice, AppId
<1> HIDE DEF i, j
<1>5. /\ job' \in [Thread -> Job] /\ job'[w] = j
      /\ \A v \in Thread \ {w} : job'[v] = job[v]
  BY <1>0, <1>1, <1>3, OneJob DEF Types
<1>6. /\ inv' \in [Hash -> Invoice] /\ inv'[h] = i
      /\ \A g \in Hash \ {h} : inv'[g] = inv[g]
  BY <1>0, <1>1, <1>4 DEF Types
<1>7. \A g : RowsOf(g)' = RowsOf(g) /\ Incoming(g)' = Incoming(g)
             /\ PendingIncoming(g)' = PendingIncoming(g)
  BY <1>1 DEF RowsOf, Incoming, PendingIncoming, storeVars
<1>8. txs' = txs /\ known' = known /\ internal' = internal
      /\ debited' = debited /\ notified' = notified
      /\ lastTx' = lastTx /\ crashes' = crashes
  BY <1>1 DEF storeVars
<1>9. StoreTypeOK' BY <1>0, <1>1 DEF StoreTypeOK, storeVars
<1>10. Types'
  <2>1. \A v \in Thread : job'[v].due \subseteq {g \in Hash : inv'[g].state = "settled"}
    BY <1>0, <1>1, <1>3, <1>5, <1>6 DEF Types
  <2> QED BY <1>0, <1>5, <1>6, <1>8, <2>1 DEF Types
<1>11. RowsOK'
  BY <1>0, <1>2, <1>6, <1>7, <1>8 DEF RowsOK, Unseen
<1>12. InvoicesOK' BY <1>0, <1>2, <1>4, <1>6, <1>8 DEF InvoicesOK, Unseen
<1>13. IssuersOK'
  <2>1. \A v \in Thread : job[v].pc \in Issuing => job[v].hash # h
    BY <1>0, <1>1 DEF IssuersOK
  <2> QED BY <1>0, <1>2, <1>3, <1>4, <1>5, <1>6, <1>7, <2>1 DEF IssuersOK, Issuing
<1>14. SettlersOK'
  <2>1. \A v \in Thread : /\ job[v].pc \in Announcing \cup {"settling"} => job[v].hash # h
                          /\ h \notin job[v].due
    BY <1>0, <1>1 DEF SettlersOK, Unseen, Types
  <2>2. \A g \in Hash \ {h} : Unseen(g)' <=> Unseen(g) BY <1>6 DEF Unseen
  <2> QED BY <1>0, <1>3, <1>5, <1>6, <1>7, <1>8, <2>1, <2>2 DEF SettlersOK, Announcing
<1>15. CreditsAreBacked'
  BY <1>0, <1>2, <1>6, <1>7, <1>8 DEF CreditsAreBacked
<1>16. NotifiedOnce' /\ PreimageOnBothRows'
  BY <1>0, <1>7, <1>8 DEF NotifiedOnce, PreimageOnBothRows
<1> QED BY <1>9, <1>10, <1>11, <1>12, <1>13, <1>14, <1>15, <1>16 DEF Settlement

\* A step about one invoice nobody is settling leaves the settlers alone.
LEMMA SettlersKept ==
  ASSUME SettlersOK, Types, NEW h,
         \A v \in Thread : /\ job'[v] # job[v] => job'[v].pc \in Issuing \cup {"idle"}
                           /\ job[v].pc \in Announcing \cup {"settling"} => job[v].hash # h
                           /\ h \notin job[v].due,
         \A g \in Hash \ {h} : /\ inv'[g] = inv[g] /\ notified'[g] = notified[g]
                               /\ PendingIncoming(g)' = PendingIncoming(g)
  PROVE  SettlersOK'
<1>1. \A g \in Hash \ {h} : Unseen(g)' <=> Unseen(g) BY DEF Unseen
<1>2. \A v \in Thread : job[v].due \subseteq Hash BY DEF Types
<1> SUFFICES ASSUME NEW v \in Thread, job'[v] = job[v]
             PROVE  /\ job[v].pc = "settling" =>
                         /\ job[v].hash \in Hash /\ inv'[job[v].hash].state = "settled"
                         /\ job[v].amount = inv'[job[v].hash].paid
                    /\ job[v].pc \in Announcing =>
                         /\ job[v].hash \in Hash /\ ~Unseen(job[v].hash)'
                         /\ notified'[job[v].hash] = 0
                         /\ PendingIncoming(job[v].hash)' = {}
                         /\ \A other \in Thread \ {v} :
                              job'[other].pc \in Announcing => job'[other].hash # job[v].hash
                    /\ job[v].pc \in {"reconciling", "settling", "notifying"} =>
                         \A g \in job[v].due \ job[v].todo : PendingIncoming(g)' = {}
  BY DEF SettlersOK, Issuing, Announcing, Unseen, PendingIncoming, Incoming
<1>3. job[v].pc = "settling" =>
        /\ job[v].hash \in Hash /\ inv'[job[v].hash].state = "settled"
        /\ job[v].amount = inv'[job[v].hash].paid
  BY DEF SettlersOK
<1>4. job[v].pc \in Announcing =>
        /\ job[v].hash \in Hash /\ ~Unseen(job[v].hash)'
        /\ notified'[job[v].hash] = 0
        /\ PendingIncoming(job[v].hash)' = {}
  BY <1>1 DEF SettlersOK
<1>5. ASSUME job[v].pc \in Announcing, NEW other \in Thread \ {v},
             job'[other].pc \in Announcing
      PROVE  job'[other].hash # job[v].hash
  <2>1. job'[other] = job[other] BY <1>5 DEF Announcing, Issuing
  <2> QED BY <1>5, <2>1 DEF SettlersOK
<1>6. job[v].pc \in {"reconciling", "settling", "notifying"} =>
        \A g \in job[v].due \ job[v].todo : PendingIncoming(g)' = {}
  BY <1>2 DEF SettlersOK
<1> QED BY <1>3, <1>4, <1>5, <1>6

\* The row of an issued invoice: the only one of its hash, pending, and of a
\* wallet that is still there.
LEMMA RecordSettles ==
  ASSUME Settlement, StoreTypeOK', NEW w \in Worker, RecordInvoice(w)
  PROVE  Settlement'
<1> DEFINE h == job[w].hash
           row == Row(job[w].app, "incoming", "pending", job[w].amount, 0, h)
<1>0. /\ StoreTypeOK /\ Types /\ RowsOK /\ InvoicesOK /\ IssuersOK /\ SettlersOK
      /\ CreditsAreBacked /\ NotifiedOnce /\ PreimageOnBothRows /\ w \in Thread
      /\ lastTx \in Nat /\ job[w] \in Job
  BY DEF Settlement, Thread, StoreTypeOK, Types
<1>1. /\ job[w].pc = "created" /\ InsertTx(row)
      /\ \/ /\ job' = [job EXCEPT ![w].pc = "recorded"]
            /\ UNCHANGED inv
         \/ /\ job' = [job EXCEPT ![w] = Idle]
            /\ inv' = [inv EXCEPT ![h].state = "open"]
      /\ UNCHANGED <<known, internal, debited, notified, crashes>>
  BY DEF RecordInvoice, RecordIncomingInvoice
<1>2. /\ h \in Hash /\ inv[h].state = "draft" /\ Incoming(h) = {}
      /\ inv[h].app = job[w].app
  BY <1>0, <1>1 DEF IssuersOK, Issuing
<1>3. /\ row.type = "incoming" /\ row.state = "pending" /\ row.hash = h
      /\ row.app = inv[h].app
  BY <1>2 DEF Row
<1>4. RowsOf(h) = {} /\ notified[h] = 0
  BY <1>0, <1>2 DEF RowsOK, RowsOf, Incoming, InvoicesOK, Unseen, StoreTypeOK, TxRow
<1> HIDE DEF row
<1>5. /\ lastTx' = lastTx + 1 /\ lastTx + 1 \notin DOMAIN txs
      /\ DOMAIN txs' = DOMAIN txs \cup {lastTx + 1}
      /\ txs'[lastTx + 1] = row
      /\ \A t \in DOMAIN txs : txs'[t] = txs[t]
  BY <1>0, <1>1, InsertRow
<1>6. \A g \in Hash :
        IF g = h THEN /\ RowsOf(g)' = {lastTx + 1} /\ Incoming(g)' = {lastTx + 1}
                      /\ PendingIncoming(g)' = {lastTx + 1}
                 ELSE /\ RowsOf(g)' = RowsOf(g) /\ Incoming(g)' = Incoming(g)
                      /\ PendingIncoming(g)' = PendingIncoming(g)
  BY <1>2, <1>3, <1>4, <1>5 DEF RowsOf, Incoming, PendingIncoming
<1>7. \A g \in Hash : RowsOf(g) \subseteq DOMAIN txs /\ Incoming(g) \subseteq RowsOf(g)
  BY DEF RowsOf, Incoming
<1>8. /\ job' \in [Thread -> Job] /\ \A v \in Thread \ {w} : job'[v] = job[v]
      /\ job'[w].due \subseteq job[w].due
      /\ inv' \in [Hash -> Invoice] /\ \A g \in Hash \ {h} : inv'[g] = inv[g]
      /\ inv'[h].app = inv[h].app /\ inv'[h].amount = inv[h].amount
      /\ \/ job'[w].pc = "recorded" /\ job'[w].hash = h /\ inv'[h].state = "draft"
         \/ job'[w].pc = "idle" /\ inv'[h].state = "open"
  <2>1. CASE job' = [job EXCEPT ![w].pc = "recorded"] /\ UNCHANGED inv
    <3> DEFINE j == [job[w] EXCEPT !.pc = "recorded"]
    <3>1. j \in Job /\ j.pc = "recorded" /\ j.hash = h /\ j.due = job[w].due
      BY <1>0 DEF Job
    <3>2. job' = [job EXCEPT ![w] = j] BY <2>1
    <3> HIDE DEF j
    <3>3. /\ job' \in [Thread -> Job] /\ job'[w] = j
          /\ \A v \in Thread \ {w} : job'[v] = job[v]
      BY <1>0, <3>1, <3>2, OneJob DEF Types
    <3> QED BY <1>0, <1>2, <2>1, <3>1, <3>3 DEF Types
  <2>2. CASE job' = [job EXCEPT ![w] = Idle] /\ inv' = [inv EXCEPT ![h].state = "open"]
    <3>1. /\ job' \in [Thread -> Job] /\ job'[w] = Idle
          /\ \A v \in Thread \ {w} : job'[v] = job[v]
      BY <1>0, <2>2, IdleJob, OneJob DEF Types
    <3>2. /\ inv' \in [Hash -> Invoice] /\ \A g \in Hash \ {h} : inv'[g] = inv[g]
          /\ inv'[h].app = inv[h].app /\ inv'[h].amount = inv[h].amount
          /\ inv'[h].state = "open"
      BY <1>0, <1>2, <2>2 DEF Types, Invoice
    <3> QED BY <3>1, <3>2, IdleJob
  <2> QED BY <1>1, <2>1, <2>2
<1> HIDE DEF h
<1>9. Types'
  <2>1. \A v \in Thread : job'[v].due \subseteq {g \in Hash : inv'[g].state = "settled"}
    BY <1>0, <1>2, <1>8 DEF Types
  <2>2. 1..lastTx \subseteq 1..lastTx' BY <1>0, <1>5
  <2> QED BY <1>0, <1>1, <1>5, <1>8, <2>1, <2>2 DEF Types
<1>10. RowsOK'
  <2>1. \A g \in Hash : inv[g].state # "none" => inv'[g].state # "none"
    BY <1>2, <1>8
  <2>2. \A g \in Hash : inv'[g].app = inv[g].app BY <1>8
  <2> SUFFICES ASSUME NEW g \in Hash, NEW t \in RowsOf(g)'
               PROVE  /\ inv'[g].state # "none"
                      /\ txs'[t].type = "incoming" =>
                           /\ txs'[t].app = inv'[g].app
                           /\ \A u \in Incoming(g)' : u = t
                      /\ txs'[t].type = "outgoing" => ~Unseen(g)' /\ PendingIncoming(g)' = {}
    BY DEF RowsOK
  <2>3. CASE g = h BY <1>2, <1>3, <1>5, <1>6, <2>1, <2>2, <2>3
  <2>4. CASE g # h
    BY <1>0, <1>5, <1>6, <1>7, <1>8, <2>1, <2>2, <2>4 DEF RowsOK, Unseen
  <2> QED BY <2>3, <2>4
<1>11. InvoicesOK' BY <1>0, <1>1, <1>2, <1>4, <1>8 DEF InvoicesOK, Unseen
<1>12. IssuersOK'
  <2>1. \A v \in Thread \ {w} : job[v].pc \in Issuing => job[v].hash # h
    BY <1>0, <1>1 DEF IssuersOK, Issuing, h
  <2> QED BY <1>0, <1>2, <1>6, <1>8, <2>1 DEF IssuersOK, Issuing
<1>13. SettlersOK'
  <2>1. \A v \in Thread : /\ job[v].pc \in Announcing \cup {"settling"} => job[v].hash # h
                          /\ h \notin job[v].due
    BY <1>0, <1>2 DEF SettlersOK, Unseen, Types
  <2>2. \A g \in Hash \ {h} : /\ inv'[g] = inv[g] /\ notified'[g] = notified[g]
                              /\ PendingIncoming(g)' = PendingIncoming(g)
    BY <1>1, <1>6, <1>8
  <2>3. \A v \in Thread : job'[v] # job[v] => job'[v].pc \in Issuing \cup {"idle"}
    BY <1>8 DEF Issuing
  <2> QED BY <1>0, <2>1, <2>2, <2>3, SettlersKept
<1>14. CreditsAreBacked'
  <2>1. /\ internal' = internal /\ internal \subseteq 1..lastTx /\ lastTx + 1 \notin internal
        /\ debited' = debited /\ debited[h] = 0
    BY <1>0, <1>1, <1>2 DEF Types, InvoicesOK, Unseen
  <2> SUFFICES ASSUME NEW g \in Hash, NEW t \in Incoming(g)'
               PROVE  IF t \in internal
                      THEN txs'[t].state = "settled" /\ txs'[t].amount = debited[g]
                      ELSE /\ debited[g] = 0
                           /\ txs'[t].state = "settled" =>
                                inv'[g].state = "settled" /\ txs'[t].amount = inv'[g].paid
    BY <2>1 DEF CreditsAreBacked
  <2>2. CASE g = h BY <1>3, <1>5, <1>6, <2>1, <2>2
  <2>3. CASE g # h
    BY <1>0, <1>5, <1>6, <1>7, <1>8, <2>3 DEF CreditsAreBacked
  <2> QED BY <2>2, <2>3
<1>15. NotifiedOnce' BY <1>0, <1>1, <1>4, <1>6 DEF NotifiedOnce
<1>16. PreimageOnBothRows'
  <2>1. internal' = internal /\ known' = known /\ lastTx + 1 \notin internal
    BY <1>0, <1>1 DEF Types
  <2> QED BY <1>0, <1>6, <2>1 DEF PreimageOnBothRows
<1> QED BY <1>9, <1>10, <1>11, <1>12, <1>13, <1>14, <1>15, <1>16 DEF Settlement

\* A preimage that was fetched goes to every row of the hash or to none.
LEMMA PreimageAfterFetch ==
  ASSUME PreimageOnBothRows, NEW h \in Hash, UNCHANGED <<txs, internal>>,
         known' \in {known, known \cup RowsOf(h)}
  PROVE  PreimageOnBothRows'
<1>1. \A g \in Hash : RowsOf(g)' = RowsOf(g) /\ Incoming(g)' = Incoming(g)
  BY DEF RowsOf, Incoming
<1>2. \A g \in Hash \ {h} : RowsOf(g) \cap RowsOf(h) = {} BY DEF RowsOf
<1> SUFFICES ASSUME NEW g \in Hash, \E t \in Incoming(g) : t \in internal
             PROVE  RowsOf(g) \subseteq known' \/ RowsOf(g) \cap known' = {}
  BY <1>1 DEF PreimageOnBothRows
<1>3. RowsOf(g) \subseteq known \/ RowsOf(g) \cap known = {} BY DEF PreimageOnBothRows
<1>4. CASE g = h BY <1>3, <1>4
<1>5. CASE g # h BY <1>2, <1>3, <1>5
<1> QED BY <1>4, <1>5

\* The preimage goes to all rows of the invoice, and the invoice is seen.
LEMMA KeepPreimageSettles ==
  ASSUME Settlement, NEW w \in Worker, KeepPreimage(w)
  PROVE  Settlement'
<1> DEFINE h == job[w].hash
<1>0. /\ StoreTypeOK /\ Types /\ RowsOK /\ InvoicesOK /\ IssuersOK /\ SettlersOK
      /\ CreditsAreBacked /\ NotifiedOnce /\ PreimageOnBothRows /\ w \in Thread
  BY DEF Settlement, Thread
<1>1. /\ job[w].pc = "recorded" /\ known' \in {known, known \cup RowsOf(h)}
      /\ job' = [job EXCEPT ![w] = Idle]
      /\ inv' = [inv EXCEPT ![h].state = "open"]
      /\ UNCHANGED <<storeVars, internal, debited, notified, crashes>>
  BY DEF KeepPreimage, PreimageFetched, storeVars
<1>2. h \in Hash /\ inv[h].state = "draft" BY <1>0, <1>1 DEF IssuersOK, Issuing
<1>3. /\ job' \in [Thread -> Job] /\ job'[w] = Idle
      /\ \A v \in Thread \ {w} : job'[v] = job[v]
  BY <1>0, <1>1, IdleJob, OneJob DEF Types
<1>4. /\ inv' \in [Hash -> Invoice] /\ \A g \in Hash \ {h} : inv'[g] = inv[g]
      /\ inv'[h].app = inv[h].app /\ inv'[h].amount = inv[h].amount
      /\ inv'[h].state = "open"
  BY <1>0, <1>1, <1>2 DEF Types, Invoice
<1> HIDE DEF h
<1>5. \A g : RowsOf(g)' = RowsOf(g) /\ Incoming(g)' = Incoming(g)
             /\ PendingIncoming(g)' = PendingIncoming(g)
  BY <1>1 DEF RowsOf, Incoming, PendingIncoming, storeVars
<1>6. txs' = txs /\ internal' = internal
      /\ debited' = debited /\ notified' = notified
      /\ lastTx' = lastTx /\ crashes' = crashes
  BY <1>1 DEF storeVars
<1>7. StoreTypeOK' BY <1>0, <1>1 DEF StoreTypeOK, storeVars
<1>8. Types'
  <2>1. \A v \in Thread : job'[v].due \subseteq {g \in Hash : inv'[g].state = "settled"}
    BY <1>0, <1>2, <1>3, <1>4, IdleJob DEF Types
  <2>2. known' \subseteq DOMAIN txs BY <1>0, <1>1 DEF Types, RowsOf
  <2> QED BY <1>0, <1>3, <1>4, <1>6, <2>1, <2>2 DEF Types
<1>9. RowsOK'
  <2>1. \A g \in Hash : /\ inv[g].state # "none" => inv'[g].state # "none"
                        /\ inv'[g].app = inv[g].app
                        /\ ~Unseen(g) => ~Unseen(g)'
    BY <1>2, <1>4 DEF Unseen
  <2> QED BY <1>0, <1>5, <1>6, <2>1 DEF RowsOK
<1>10. InvoicesOK' BY <1>0, <1>2, <1>4, <1>6 DEF InvoicesOK, Unseen
<1>11. IssuersOK'
  <2>1. \A v \in Thread \ {w} : job[v].pc \in Issuing => job[v].hash # h
    BY <1>0, <1>1 DEF IssuersOK, Issuing, h
  <2> QED BY <1>0, <1>3, <1>4, <1>5, <2>1, IdleJob DEF IssuersOK, Issuing
<1>12. SettlersOK'
  <2>1. \A v \in Thread : /\ job[v].pc \in Announcing \cup {"settling"} => job[v].hash # h
                          /\ h \notin job[v].due
    BY <1>0, <1>2 DEF SettlersOK, Unseen, Types
  <2>2. \A v \in Thread : job'[v] # job[v] => job'[v].pc \in Issuing \cup {"idle"}
    BY <1>3, IdleJob DEF Issuing
  <2> QED BY <1>0, <1>4, <1>5, <1>6, <2>1, <2>2, SettlersKept
<1>13. CreditsAreBacked'
  <2>1. \A t \in Incoming(h) : t \notin internal => txs[t].state # "settled"
    BY <1>0, <1>2 DEF CreditsAreBacked
  <2> QED BY <1>0, <1>4, <1>5, <1>6, <2>1 DEF CreditsAreBacked
<1>14. NotifiedOnce' BY <1>0, <1>5, <1>6 DEF NotifiedOnce
<1>15. PreimageOnBothRows' BY <1>0, <1>1, <1>2, <1>5, <1>6, PreimageAfterFetch
<1> QED BY <1>7, <1>8, <1>9, <1>10, <1>11, <1>12, <1>13, <1>14, <1>15 DEF Settlement

-----------------------------------------------------------------------------
(* The invariant is inductive: LND.                                        *)

\* What LND does to an open invoice changes neither rows nor threads.
LEMMA LndSettles ==
  ASSUME Settlement, NEW h \in Hash, LndIsPaid(h) \/ LndCancels(h)
  PROVE  Settlement'
<1>0. /\ StoreTypeOK /\ Types /\ RowsOK /\ InvoicesOK /\ IssuersOK /\ SettlersOK
      /\ CreditsAreBacked /\ NotifiedOnce /\ PreimageOnBothRows
  BY DEF Settlement
<1>1. /\ inv[h].state = "open" /\ inv' \in [Hash -> Invoice]
      /\ \A g \in Hash \ {h} : inv'[g] = inv[g]
      /\ inv'[h].app = inv[h].app /\ inv'[h].amount = inv[h].amount
      /\ inv'[h].state \in {"settled", "canceled"}
      /\ inv'[h].state = "settled" => inv'[h].paid \in Amount
      /\ UNCHANGED <<storeVars, job, known, internal, debited, notified, crashes>>
  <2>1. CASE LndIsPaid(h)
    <3>1. PICK x \in Amount :
            inv' = [inv EXCEPT ![h].state = "settled", ![h].paid = x]
      BY <2>1 DEF LndIsPaid
    <3>2. x \in Nat BY StoreAssumption
    <3> QED BY <1>0, <2>1, <3>1, <3>2 DEF LndIsPaid, Types, Invoice, storeVars
  <2>2. CASE LndCancels(h)
    BY <1>0, <2>2 DEF LndCancels, Types, Invoice, storeVars
  <2> QED BY <2>1, <2>2
<1>2. \A g : RowsOf(g)' = RowsOf(g) /\ Incoming(g)' = Incoming(g)
             /\ PendingIncoming(g)' = PendingIncoming(g)
  BY <1>1 DEF RowsOf, Incoming, PendingIncoming, storeVars
<1>3. txs' = txs /\ job' = job /\ known' = known /\ internal' = internal
      /\ debited' = debited
      /\ notified' = notified /\ lastTx' = lastTx /\ crashes' = crashes
  BY <1>1 DEF storeVars
<1>4. StoreTypeOK' BY <1>0, <1>1 DEF StoreTypeOK, storeVars
<1>5. Types'
  <2>1. \A v \in Thread : job[v].due \subseteq {g \in Hash : inv'[g].state = "settled"}
    BY <1>0, <1>1 DEF Types
  <2> QED BY <1>0, <1>1, <1>3, <2>1 DEF Types
<1>6. \A g \in Hash : Unseen(g)' <=> Unseen(g) BY <1>1 DEF Unseen
<1>7. RowsOK' BY <1>0, <1>1, <1>2, <1>3, <1>6 DEF RowsOK
<1>8. InvoicesOK' BY <1>0, <1>1, <1>3, <1>6 DEF InvoicesOK
<1>9. IssuersOK'
  <2>1. \A v \in Thread : job[v].pc \in Issuing => job[v].hash # h
    BY <1>0, <1>1 DEF IssuersOK
  <2> QED BY <1>0, <1>1, <1>2, <1>3, <2>1 DEF IssuersOK, Issuing
<1>10. SettlersOK'
  <2>1. \A v \in Thread : job[v].pc = "settling" => job[v].hash # h
    BY <1>0, <1>1 DEF SettlersOK
  <2> QED BY <1>0, <1>1, <1>2, <1>3, <1>6, <2>1 DEF SettlersOK
<1>11. CreditsAreBacked'
  <2>1. \A t \in Incoming(h) : t \notin internal => txs[t].state # "settled"
    BY <1>0, <1>1 DEF CreditsAreBacked
  <2> QED BY <1>0, <1>1, <1>2, <1>3, <2>1 DEF CreditsAreBacked
<1>12. NotifiedOnce' /\ PreimageOnBothRows'
  BY <1>0, <1>2, <1>3 DEF NotifiedOnce, PreimageOnBothRows
<1> QED BY <1>4, <1>5, <1>7, <1>8, <1>9, <1>10, <1>11, <1>12 DEF Settlement

-----------------------------------------------------------------------------
(* The invariant is inductive: notifications.                              *)

\* Whoever settled the invoice announces it, once, and moves on.
LEMMA AnnouncedSettles ==
  ASSUME Settlement, NEW th \in Thread, NEW a, NEW j \in Job,
         job[th].pc \in Announcing, Announced(job[th].hash, a),
         job' = [job EXCEPT ![th] = j],
         j.pc \in {"idle", "reconciling"}, j.due \subseteq job[th].due,
         j.pc = "reconciling" => \A g \in j.due \ j.todo : PendingIncoming(g) = {},
         UNCHANGED <<storeVars, inv, known, internal, debited, crashes>>
  PROVE  Settlement'
<1> DEFINE h == job[th].hash
<1>0. /\ StoreTypeOK /\ Types /\ RowsOK /\ InvoicesOK /\ IssuersOK /\ SettlersOK
      /\ CreditsAreBacked /\ NotifiedOnce /\ PreimageOnBothRows
  BY DEF Settlement
<1>1. h \in Hash /\ ~Unseen(h) /\ notified[h] = 0 /\ PendingIncoming(h) = {}
  BY <1>0 DEF SettlersOK
<1>2. /\ notified' \in [Hash -> Nat] /\ notified'[h] \in {0, 1}
      /\ \A g \in Hash \ {h} : notified'[g] = notified[g]
  BY <1>0, <1>1 DEF Announced, Types
<1>3. /\ job' \in [Thread -> Job] /\ job'[th] = j
      /\ \A v \in Thread \ {th} : job'[v] = job[v]
  BY <1>0, OneJob DEF Types
<1>4. \A g : RowsOf(g)' = RowsOf(g) /\ Incoming(g)' = Incoming(g)
             /\ PendingIncoming(g)' = PendingIncoming(g)
  BY DEF RowsOf, Incoming, PendingIncoming, storeVars
<1>5. txs' = txs /\ inv' = inv /\ known' = known /\ internal' = internal
      /\ debited' = debited
      /\ lastTx' = lastTx /\ crashes' = crashes
  BY DEF storeVars
<1>6. \A g : Unseen(g)' <=> Unseen(g) BY <1>5 DEF Unseen
<1>7. StoreTypeOK' BY <1>0 DEF StoreTypeOK, storeVars
<1>8. Types'
  <2>1. \A v \in Thread : job'[v].due \subseteq {g \in Hash : inv[g].state = "settled"}
    BY <1>0, <1>3 DEF Types
  <2> QED BY <1>0, <1>2, <1>3, <1>5, <2>1 DEF Types
<1>9. RowsOK' BY <1>0, <1>4, <1>5, <1>6 DEF RowsOK
<1>10. InvoicesOK' BY <1>0, <1>1, <1>2, <1>5, <1>6 DEF InvoicesOK
<1>11. IssuersOK' BY <1>0, <1>3, <1>4, <1>5 DEF IssuersOK, Issuing
<1>12. SettlersOK'
  <2>1. \A v \in Thread \ {th} : job[v].pc \in Announcing => job[v].hash # h
    BY <1>0 DEF SettlersOK
  <2> SUFFICES ASSUME NEW v \in Thread
               PROVE  /\ job'[v].pc = "settling" =>
                           /\ job'[v].hash \in Hash /\ inv[job'[v].hash].state = "settled"
                           /\ job'[v].amount = inv[job'[v].hash].paid
                      /\ job'[v].pc \in Announcing =>
                           /\ job'[v].hash \in Hash /\ ~Unseen(job'[v].hash)
                           /\ notified'[job'[v].hash] = 0
                           /\ PendingIncoming(job'[v].hash) = {}
                           /\ \A other \in Thread \ {v} :
                                job'[other].pc \in Announcing =>
                                  job'[other].hash # job'[v].hash
                      /\ job'[v].pc \in {"reconciling", "settling", "notifying"} =>
                           \A g \in job'[v].due \ job'[v].todo : PendingIncoming(g) = {}
    BY <1>4, <1>5, <1>6 DEF SettlersOK
  <2>2. CASE v = th BY <1>3, <2>2 DEF Announcing
  <2>3. CASE v # th
    <3>1. job'[v] = job[v] BY <1>3, <2>3
    <3>2. job[v].pc \in Announcing =>
            \A other \in Thread \ {v} :
              job'[other].pc \in Announcing => job'[other].hash # job[v].hash
      BY <1>0, <1>3 DEF SettlersOK, Announcing
    <3> QED BY <1>0, <1>2, <2>1, <2>3, <3>1, <3>2 DEF SettlersOK
  <2> QED BY <2>2, <2>3
<1>13. CreditsAreBacked' BY <1>0, <1>4, <1>5 DEF CreditsAreBacked
<1>14. NotifiedOnce' BY <1>0, <1>1, <1>2, <1>4 DEF NotifiedOnce
<1>15. PreimageOnBothRows' BY <1>0, <1>4, <1>5 DEF PreimageOnBothRows
<1> QED BY <1>7, <1>8, <1>9, <1>10, <1>11, <1>12, <1>13, <1>14, <1>15 DEF Settlement

LEMMA NotifySettles ==
  ASSUME Settlement, NEW th \in Thread, Notify(th)
  PROVE  Settlement'
<1> DEFINE h == job[th].hash
           j == [job[th] EXCEPT !.pc = "reconciling", !.todo = @ \ {h}]
<1>0. Types /\ SettlersOK /\ job[th] \in Job BY DEF Settlement, Types
<1>1. /\ job[th].pc = "notifying" /\ Announced(h, inv[h].app)
      /\ job' = [job EXCEPT ![th] = j]
      /\ UNCHANGED <<storeVars, inv, known, internal, debited, crashes>>
  BY <1>0 DEF Notify, storeVars, Types
<1>2. /\ j \in Job /\ j.pc = "reconciling" /\ j.due = job[th].due
      /\ j.todo = job[th].todo \ {h}
  BY <1>0 DEF Job
<1> HIDE DEF j
<1>3. PendingIncoming(h) = {} /\ \A g \in job[th].due \ job[th].todo : PendingIncoming(g) = {}
  BY <1>0, <1>1 DEF SettlersOK, Announcing
<1>4. \A g \in j.due \ j.todo : PendingIncoming(g) = {} BY <1>2, <1>3
<1>5. job[th].pc \in Announcing BY <1>1 DEF Announcing
<1> QED BY <1>1, <1>2, <1>4, <1>5, AnnouncedSettles

LEMMA AnnouncePaymentSettles ==
  ASSUME Settlement, NEW w \in Worker, AnnouncePayment(w)
  PROVE  Settlement'
<1>1. /\ job[w].pc \in Announcing /\ w \in Thread
      /\ Announced(job[w].hash, inv[job[w].hash].app)
      /\ job' = [job EXCEPT ![w] = Idle]
      /\ UNCHANGED <<storeVars, inv, known, internal, debited, crashes>>
  BY DEF AnnouncePayment, Announcing, Thread, storeVars
<1> QED BY <1>1, IdleJob, AnnouncedSettles

\* The payer's side looks for the preimage before the payment is announced.
LEMMA FinishPaymentSettles ==
  ASSUME Settlement, NEW w \in Worker, FinishPayment(w)
  PROVE  Settlement'
<1> DEFINE h == job[w].hash
           j == [job[w] EXCEPT !.pc = "announcing"]
<1>0. /\ StoreTypeOK /\ Types /\ RowsOK /\ InvoicesOK /\ IssuersOK /\ SettlersOK
      /\ CreditsAreBacked /\ NotifiedOnce /\ PreimageOnBothRows
      /\ w \in Thread /\ job[w] \in Job
  BY DEF Settlement, Thread, Types
<1>1. /\ job[w].pc = "finishing" /\ known' \in {known, known \cup RowsOf(h)}
      /\ job' = [job EXCEPT ![w] = j]
      /\ UNCHANGED <<storeVars, inv, internal, debited, notified, crashes>>
  BY <1>0 DEF FinishPayment, PreimageFetched, storeVars, Types
<1>2. /\ j \in Job /\ j.pc = "announcing" /\ j.due = job[w].due /\ j.hash = h
  BY <1>0 DEF Job
<1> HIDE DEF j
<1>3. /\ h \in Hash /\ ~Unseen(h) /\ notified[h] = 0 /\ PendingIncoming(h) = {}
      /\ \A v \in Thread \ {w} : job[v].pc \in Announcing => job[v].hash # h
  BY <1>0, <1>1 DEF SettlersOK, Announcing
<1>4. /\ job' \in [Thread -> Job] /\ job'[w] = j
      /\ \A v \in Thread \ {w} : job'[v] = job[v]
  BY <1>0, <1>1, <1>2, OneJob DEF Types
<1>5. txs' = txs /\ inv' = inv /\ notified' = notified /\ internal' = internal
      /\ debited' = debited
      /\ lastTx' = lastTx /\ crashes' = crashes
  BY <1>1 DEF storeVars
<1>6. \A g : RowsOf(g)' = RowsOf(g) /\ Incoming(g)' = Incoming(g)
             /\ PendingIncoming(g)' = PendingIncoming(g) /\ (Unseen(g)' <=> Unseen(g))
  BY <1>5 DEF RowsOf, Incoming, PendingIncoming, Unseen
<1>7. StoreTypeOK' BY <1>0, <1>1 DEF StoreTypeOK, storeVars
<1>8. Types'
  <2>1. \A v \in Thread : job'[v].due \subseteq {g \in Hash : inv[g].state = "settled"}
    BY <1>0, <1>2, <1>4 DEF Types
  <2>2. known' \subseteq DOMAIN txs BY <1>0, <1>1 DEF Types, RowsOf
  <2> QED BY <1>0, <1>4, <1>5, <2>1, <2>2 DEF Types
<1>9. RowsOK' BY <1>0, <1>5, <1>6 DEF RowsOK
<1>10. InvoicesOK' BY <1>0, <1>5, <1>6 DEF InvoicesOK
<1>11. IssuersOK' BY <1>0, <1>2, <1>4, <1>5, <1>6 DEF IssuersOK, Issuing
<1>12. SettlersOK'
  <2> SUFFICES ASSUME NEW v \in Thread
               PROVE  /\ job'[v].pc = "settling" =>
                           /\ job'[v].hash \in Hash /\ inv[job'[v].hash].state = "settled"
                           /\ job'[v].amount = inv[job'[v].hash].paid
                      /\ job'[v].pc \in Announcing =>
                           /\ job'[v].hash \in Hash /\ ~Unseen(job'[v].hash)
                           /\ notified[job'[v].hash] = 0
                           /\ PendingIncoming(job'[v].hash) = {}
                           /\ \A other \in Thread \ {v} :
                                job'[other].pc \in Announcing =>
                                  job'[other].hash # job'[v].hash
                      /\ job'[v].pc \in {"reconciling", "settling", "notifying"} =>
                           \A g \in job'[v].due \ job'[v].todo : PendingIncoming(g) = {}
    BY <1>5, <1>6 DEF SettlersOK
  <2>1. CASE v = w BY <1>2, <1>3, <1>4, <2>1
  <2>2. CASE v # w
    <3>1. job'[v] = job[v] BY <1>4, <2>2
    <3>2. job[v].pc \in Announcing =>
            \A other \in Thread \ {v} :
              job'[other].pc \in Announcing => job'[other].hash # job[v].hash
      BY <1>0, <1>2, <1>3, <1>4, <2>2 DEF SettlersOK
    <3> QED BY <1>0, <3>1, <3>2 DEF SettlersOK
  <2> QED BY <2>1, <2>2
<1>13. CreditsAreBacked' /\ NotifiedOnce'
  BY <1>0, <1>5, <1>6 DEF CreditsAreBacked, NotifiedOnce
<1>14. PreimageOnBothRows' BY <1>0, <1>1, <1>3, <1>5, PreimageAfterFetch
<1> QED BY <1>7, <1>8, <1>9, <1>10, <1>11, <1>12, <1>13, <1>14 DEF Settlement

-----------------------------------------------------------------------------
(* The invariant is inductive: settling.                                   *)

\* While an invoice is pending its row is the only one of its hash, and nobody
\* has announced it or is about to.
LEMMA PendingIsAlone ==
  ASSUME Settlement, NEW h \in Hash, NEW t \in PendingIncoming(h)
  PROVE  /\ RowsOf(h) = {t} /\ Incoming(h) = {t} /\ notified[h] = 0
         /\ t \in DOMAIN txs /\ txs[t].type = "incoming" /\ txs[t].hash = h
         /\ txs[t].state = "pending" /\ txs[t].app = inv[h].app /\ t \notin internal
         /\ \A v \in Thread : job[v].pc \in Announcing => job[v].hash # h
<1>0. /\ StoreTypeOK /\ Types /\ RowsOK /\ SettlersOK /\ CreditsAreBacked /\ NotifiedOnce
  BY DEF Settlement
<1>1. t \in Incoming(h) /\ t \in RowsOf(h) /\ txs[t].state = "pending" /\ t \in DOMAIN txs
      /\ txs[t].type = "incoming" /\ txs[t].hash = h
  BY DEF PendingIncoming, Incoming, RowsOf
<1>2. \A u \in Incoming(h) : u = t BY <1>0, <1>1 DEF RowsOK
<1>3. \A u \in RowsOf(h) : txs[u].type = "incoming"
  <2>1. \A u \in DOMAIN txs : txs[u].type \in {"incoming", "outgoing"}
    BY <1>0 DEF StoreTypeOK, TxRow
  <2>2. \A u \in RowsOf(h) : txs[u].type # "outgoing" BY <1>0 DEF RowsOK
  <2> QED BY <2>1, <2>2 DEF RowsOf
<1>4. \A u \in RowsOf(h) : u \in Incoming(h) BY <1>3 DEF RowsOf, Incoming
<1>5. notified[h] = 0 BY <1>0 DEF NotifiedOnce, Types
<1>6. t \notin internal BY <1>0, <1>1 DEF CreditsAreBacked
<1>7. \A v \in Thread : job[v].pc \in Announcing => job[v].hash # h
  BY <1>0 DEF SettlersOK
<1>8. txs[t].app = inv[h].app BY <1>0, <1>1 DEF RowsOK
<1> QED BY <1>1, <1>2, <1>4, <1>5, <1>6, <1>7, <1>8

\* When one thread has closed the only row of an invoice, it is the one to
\* announce it, and the other threads find nothing pending any more.
LEMMA SettlersAfter ==
  ASSUME SettlersOK, Types, NEW h \in Hash, NEW th \in Thread, NEW j \in Job,
         job' = [job EXCEPT ![th] = j], UNCHANGED <<inv, notified>>,
         PendingIncoming(h)' = {}, ~Unseen(h), notified[h] = 0,
         \A g \in Hash \ {h} : PendingIncoming(g)' = PendingIncoming(g),
         \A v \in Thread : job[v].pc \in Announcing => job[v].hash # h,
         j.pc \in Announcing, j.hash = h,
         j.pc = "notifying" =>
           job[th].pc = "settling" /\ j.due = job[th].due /\ j.todo = job[th].todo
  PROVE  SettlersOK'
<1>1. /\ job' \in [Thread -> Job] /\ job'[th] = j
      /\ \A v \in Thread \ {th} : job'[v] = job[v]
  BY OneJob DEF Types
<1>2. \A g : Unseen(g)' <=> Unseen(g) BY DEF Unseen
<1>3. \A g \in Hash : PendingIncoming(g) = {} => PendingIncoming(g)' = {} OBVIOUS
<1>4. \A v \in Thread : job[v].due \subseteq Hash BY DEF Types
<1> SUFFICES ASSUME NEW v \in Thread
             PROVE  /\ job'[v].pc = "settling" =>
                         /\ job'[v].hash \in Hash /\ inv[job'[v].hash].state = "settled"
                         /\ job'[v].amount = inv[job'[v].hash].paid
                    /\ job'[v].pc \in Announcing =>
                         /\ job'[v].hash \in Hash /\ ~Unseen(job'[v].hash)
                         /\ notified[job'[v].hash] = 0
                         /\ \A g \in Hash : g = job'[v].hash => PendingIncoming(g)' = {}
                         /\ \A other \in Thread \ {v} :
                              job'[other].pc \in Announcing =>
                                job'[other].hash # job'[v].hash
                    /\ job'[v].pc \in {"reconciling", "settling", "notifying"} =>
                         \A g \in job'[v].due \ job'[v].todo : PendingIncoming(g)' = {}
  BY <1>2 DEF SettlersOK
<1>5. CASE v = th
  <2>1. j.pc # "settling" /\ j.pc # "reconciling" BY DEF Announcing
  <2>2. j.pc = "notifying" => \A g \in j.due \ j.todo : PendingIncoming(g)' = {}
    BY <1>3, <1>4 DEF SettlersOK
  <2>3. \A other \in Thread \ {th} : job'[other].pc \in Announcing =>
                                      job'[other].hash # h
    BY <1>1
  <2> QED BY <1>1, <1>5, <2>1, <2>2, <2>3
<1>6. CASE v # th
  <2>1. job'[v] = job[v] BY <1>1, <1>6
  <2>2. job[v].pc \in Announcing =>
          \A other \in Thread \ {v} :
            job'[other].pc \in Announcing => job'[other].hash # job[v].hash
    BY <1>1, <1>6 DEF SettlersOK
  <2>3. job[v].pc \in Announcing =>
          /\ job[v].hash \in Hash /\ ~Unseen(job[v].hash) /\ notified[job[v].hash] = 0
          /\ \A g \in Hash : g = job[v].hash => PendingIncoming(g)' = {}
    BY <1>3 DEF SettlersOK
  <2>4. job[v].pc \in {"reconciling", "settling", "notifying"} =>
          \A g \in job[v].due \ job[v].todo : PendingIncoming(g)' = {}
    BY <1>3, <1>4 DEF SettlersOK
  <2>5. job[v].pc = "settling" => /\ job[v].hash \in Hash
                                  /\ inv[job[v].hash].state = "settled"
                                  /\ job[v].amount = inv[job[v].hash].paid
    BY DEF SettlersOK
  <2> QED BY <2>1, <2>2, <2>3, <2>4, <2>5
<1> QED BY <1>5, <1>6

LEMMA SettleSettles ==
  ASSUME Settlement, StoreTypeOK', NEW th \in Thread, Settle(th)
  PROVE  Settlement'
<1>0. /\ StoreTypeOK /\ Types /\ RowsOK /\ InvoicesOK /\ IssuersOK /\ SettlersOK
      /\ CreditsAreBacked /\ NotifiedOnce /\ PreimageOnBothRows /\ job[th] \in Job
  BY DEF Settlement, Types
<1>1. job[th].pc = "settling" /\ UNCHANGED <<inv, internal, debited, notified, crashes>>
  BY DEF Settle
<1>2. PICK h \in Hash : /\ h = job[th].hash /\ inv[h].state = "settled"
                       /\ job[th].amount = inv[h].paid
  BY <1>0, <1>1 DEF SettlersOK
<1>3. CASE /\ \A t \in Incoming(h) : txs[t].state = "settled"
           /\ job' = [job EXCEPT ![th].pc = "reconciling", ![th].todo = @ \ {h}]
           /\ UNCHANGED <<apps, txs, lastApp, lastTx, known>>
  <2> DEFINE j == [job[th] EXCEPT !.pc = "reconciling", !.todo = @ \ {h}]
  <2>1. job' = [job EXCEPT ![th] = j] BY <1>0, <1>3 DEF Types
  <2>2. /\ j \in Job /\ j.pc = "reconciling" /\ j.due = job[th].due
        /\ j.todo = job[th].todo \ {h}
    BY <1>0 DEF Job
  <2> HIDE DEF j
  <2>3. PendingIncoming(h) = {} BY <1>3 DEF PendingIncoming
  <2>4. \A g \in j.due \ j.todo : PendingIncoming(g) = {}
    BY <1>0, <1>1, <2>2, <2>3 DEF SettlersOK
  <2>5. Continues(th, j)
    BY <1>0, <2>2, <2>4 DEF Continues, Issuing, Announcing, Types
  <2> QED BY <1>1, <1>3, <2>1, <2>5, ContinuesSettles DEF storeVars
<1>4. CASE /\ SettleIncoming(h, job[th].amount)
           /\ known' = known \cup {t \in DOMAIN txs : Newest(t, Incoming(h))}
           /\ job' = [job EXCEPT ![th].pc = "notifying"]
  <2> DEFINE j == [job[th] EXCEPT !.pc = "notifying"]
  <2>1. PICK t \in Incoming(h) :
          /\ txs[t].state = "pending" /\ DOMAIN txs' = DOMAIN txs /\ lastTx' = lastTx
          /\ txs'[t] = [txs[t] EXCEPT !.state = "settled", !.amount = job[th].amount]
          /\ \A u \in DOMAIN txs \ {t} : txs'[u] = txs[u]
    BY <1>0, <1>4, SettledRow
  <2>2. t \in PendingIncoming(h) BY <2>1 DEF PendingIncoming
  <2>3. /\ RowsOf(h) = {t} /\ Incoming(h) = {t} /\ notified[h] = 0
        /\ t \in DOMAIN txs /\ txs[t].type = "incoming" /\ txs[t].hash = h
        /\ txs[t].app = inv[h].app /\ t \notin internal
        /\ \A v \in Thread : job[v].pc \in Announcing => job[v].hash # h
    BY <1>2, <2>2, PendingIsAlone
  <2>4. /\ txs'[t].state = "settled" /\ txs'[t].amount = inv[h].paid
        /\ txs'[t].type = "incoming" /\ txs'[t].hash = h /\ txs'[t].app = inv[h].app
    BY <1>0, <1>2, <2>1, <2>3 DEF StoreTypeOK, TxRow
  <2>5. /\ j \in Job /\ j.pc = "notifying" /\ j.hash = h /\ j.due = job[th].due
        /\ j.todo = job[th].todo /\ job' = [job EXCEPT ![th] = j]
    BY <1>0, <1>2, <1>4 DEF Job, Types
  <2> HIDE DEF j
  <2>6. /\ job' \in [Thread -> Job] /\ job'[th] = j
        /\ \A v \in Thread \ {th} : job'[v] = job[v]
    BY <1>0, <2>5, OneJob DEF Types
  <2>7. \A g \in Hash :
          IF g = h THEN /\ RowsOf(g)' = {t} /\ Incoming(g)' = {t}
                        /\ PendingIncoming(g)' = {}
                   ELSE /\ RowsOf(g)' = RowsOf(g) /\ Incoming(g)' = Incoming(g)
                        /\ PendingIncoming(g)' = PendingIncoming(g)
                        /\ t \notin RowsOf(g)
    <3>1. \A u \in DOMAIN txs : txs'[u].hash = txs[u].hash /\ txs'[u].type = txs[u].type
      BY <2>1, <2>3, <2>4
    <3>2. \A g : RowsOf(g)' = RowsOf(g) /\ Incoming(g)' = Incoming(g)
      BY <2>1, <3>1 DEF RowsOf, Incoming
    <3>3. PendingIncoming(h)' = {} BY <2>3, <2>4, <3>2 DEF PendingIncoming
    <3>4. \A g \in Hash \ {h} : t \notin RowsOf(g) /\ t \notin Incoming(g)
      BY <2>3 DEF RowsOf, Incoming
    <3>5. \A g \in Hash \ {h} : PendingIncoming(g)' = PendingIncoming(g)
      BY <2>1, <3>2, <3>4 DEF PendingIncoming, Incoming
    <3> QED BY <2>3, <3>2, <3>3, <3>4, <3>5
  <2>8. \A g \in Hash : RowsOf(g) \subseteq DOMAIN txs /\ Incoming(g) \subseteq RowsOf(g)
    BY DEF RowsOf, Incoming
  <2>9. known' = known \cup {t}
    BY <1>0, <1>4, <2>3 DEF Newest, StoreTypeOK
  <2>10. ~Unseen(h) BY <1>2 DEF Unseen
  <2>11. Types'
    <3>1. \A v \in Thread : job'[v].due \subseteq {g \in Hash : inv[g].state = "settled"}
      BY <1>0, <2>5, <2>6 DEF Types
    <3>2. known' \subseteq DOMAIN txs' BY <1>0, <2>1, <2>3, <2>9 DEF Types
    <3> QED BY <1>0, <1>1, <2>1, <2>6, <3>1, <3>2 DEF Types
  <2>12. RowsOK'
    <3>1. \A g : Unseen(g)' <=> Unseen(g) BY <1>1 DEF Unseen
    <3> SUFFICES ASSUME NEW g \in Hash, NEW u \in RowsOf(g)'
                 PROVE  /\ inv[g].state # "none"
                        /\ txs'[u].type = "incoming" =>
                             /\ txs'[u].app = inv[g].app
                             /\ \A x \in Incoming(g)' : x = u
                        /\ txs'[u].type = "outgoing" => ~Unseen(g) /\ PendingIncoming(g)' = {}
      BY <1>1, <3>1 DEF RowsOK
    <3>2. CASE g = h BY <1>2, <2>4, <2>7, <3>2
    <3>3. CASE g # h BY <1>0, <2>1, <2>7, <2>8, <3>3 DEF RowsOK
    <3> QED BY <3>2, <3>3
  <2>13. InvoicesOK' BY <1>0, <1>1 DEF InvoicesOK, Unseen
  <2>14. IssuersOK'
    <3>1. \A v \in Thread : job[v].pc \in Issuing => job[v].hash # h
      BY <1>0, <1>2 DEF IssuersOK
    <3> QED BY <1>0, <1>1, <2>5, <2>6, <2>7, <3>1 DEF IssuersOK, Issuing
  <2>15. SettlersOK'
    BY <1>0, <1>1, <1>2, <2>3, <2>5, <2>7, <2>10, SettlersAfter DEF Announcing
  <2>16. CreditsAreBacked'
    <3> SUFFICES ASSUME NEW g \in Hash, NEW u \in Incoming(g)'
                 PROVE  IF u \in internal
                        THEN txs'[u].state = "settled" /\ txs'[u].amount = debited[g]
                        ELSE /\ debited[g] = 0
                             /\ txs'[u].state = "settled" =>
                                  inv[g].state = "settled" /\ txs'[u].amount = inv[g].paid
      BY <1>1 DEF CreditsAreBacked
    <3>0. debited[h] = 0 BY <1>0, <2>3 DEF CreditsAreBacked
    <3>1. CASE g = h BY <1>2, <2>3, <2>4, <2>7, <3>0, <3>1
    <3>2. CASE g # h BY <1>0, <2>1, <2>7, <2>8, <3>2 DEF CreditsAreBacked
    <3> QED BY <3>1, <3>2
  <2>17. NotifiedOnce' BY <1>0, <1>1, <2>7 DEF NotifiedOnce
  <2>18. PreimageOnBothRows'
    <3> SUFFICES ASSUME NEW g \in Hash, \E u \in Incoming(g)' : u \in internal
                 PROVE  RowsOf(g)' \subseteq known' \/ RowsOf(g)' \cap known' = {}
      BY <1>1 DEF PreimageOnBothRows
    <3>1. CASE g = h BY <2>7, <2>9, <3>1
    <3>2. CASE g # h BY <1>0, <2>7, <2>9, <3>2 DEF PreimageOnBothRows
    <3> QED BY <3>1, <3>2
  <2> QED BY <2>11, <2>12, <2>13, <2>14, <2>15, <2>16, <2>17, <2>18 DEF Settlement
<1> QED BY <1>2, <1>3, <1>4 DEF Settle

\* An internal payment closes the invoice's row and adds the payer's; both
\* rows have the preimage or both lack it.
LEMMA PayInternallySettles ==
  ASSUME Settlement, StoreTypeOK', NEW w \in Worker, NEW a \in AppId, NEW h \in Hash,
         NEW amt \in Amount, PayInternally(w, a, h, amt)
  PROVE  Settlement'
<1> DEFINE j == [Idle EXCEPT !.pc = "finishing", !.app = a, !.hash = h]
<1>0. /\ StoreTypeOK /\ Types /\ RowsOK /\ InvoicesOK /\ IssuersOK /\ SettlersOK
      /\ CreditsAreBacked /\ NotifiedOnce /\ PreimageOnBothRows /\ w \in Thread
      /\ lastTx \in Nat
  BY DEF Settlement, Thread, StoreTypeOK
<1>m. PICK mine \in Nat : mine = lastTx + 1 BY <1>0
<1>1. /\ job[w] = Idle /\ inv[h].state \in {"open", "settled", "canceled"}
      /\ SettleInternally(a, amt, h)
      /\ internal' = internal \cup PendingIncoming(h)
      /\ known' = known \cup (IF PendingIncoming(h) \subseteq known THEN {mine} ELSE {})
      /\ debited' = [debited EXCEPT ![h] = @ + txs'[lastTx'].amount]
      /\ job' = [job EXCEPT ![w] = j]
      /\ UNCHANGED <<inv, notified, crashes>>
  BY <1>m DEF PayInternally
<1>r. SettleInternally(a, amt, h) BY <1>1
<1>n. /\ lastTx' = lastTx + 1 /\ lastTx + 1 \notin DOMAIN txs
      /\ DOMAIN txs' = DOMAIN txs \cup {lastTx + 1}
      /\ txs'[lastTx + 1] = Row(a, "outgoing", "settled", amt, 0, h)
      /\ \E t \in PendingIncoming(h) :
           /\ txs'[t] = [txs[t] EXCEPT !.state = "settled", !.amount = amt]
           /\ \A u \in DOMAIN txs \ {t} : txs'[u] = txs[u]
  BY <1>0, <1>r, InternalRows
<1>2. /\ lastTx' = mine /\ mine \notin DOMAIN txs /\ DOMAIN txs' = DOMAIN txs \cup {mine}
      /\ txs'[mine] = Row(a, "outgoing", "settled", amt, 0, h)
  BY <1>n, <1>m
<1>3. PICK t \in PendingIncoming(h) :
        /\ txs'[t] = [txs[t] EXCEPT !.state = "settled", !.amount = amt]
        /\ \A u \in DOMAIN txs \ {t} : txs'[u] = txs[u]
  BY <1>n
<1>4. /\ RowsOf(h) = {t} /\ Incoming(h) = {t} /\ notified[h] = 0
      /\ t \in DOMAIN txs /\ txs[t].type = "incoming" /\ txs[t].hash = h
      /\ txs[t].app = inv[h].app /\ t \notin internal
      /\ \A v \in Thread : job[v].pc \in Announcing => job[v].hash # h
  BY <1>3, PendingIsAlone
<1>5. /\ txs'[t].state = "settled" /\ txs'[t].amount = amt
      /\ txs'[t].type = "incoming" /\ txs'[t].hash = h /\ txs'[t].app = inv[h].app
  BY <1>0, <1>3, <1>4 DEF StoreTypeOK, TxRow
<1>6. txs'[mine].type = "outgoing" /\ txs'[mine].hash = h /\ txs'[mine].amount = amt
  BY <1>2 DEF Row
<1>d. /\ debited' \in [Hash -> Nat] /\ debited'[h] = amt
      /\ \A g \in Hash \ {h} : debited'[g] = debited[g]
  <2>1. debited[h] = 0 BY <1>0, <1>4 DEF CreditsAreBacked
  <2>2. amt \in Nat BY StoreAssumption
  <2>a. txs'[lastTx'].amount = amt /\ debited[h] + amt = amt BY <1>2, <1>6, <2>1, <2>2
  <2>3. debited' = [debited EXCEPT ![h] = amt] BY <1>1, <2>a
  <2> QED BY <1>0, <2>2, <2>3 DEF Types
<1>7. PendingIncoming(h) = {t} BY <1>3, <1>4 DEF PendingIncoming
<1>8. /\ j \in Job /\ j.pc = "finishing" /\ j.hash = h /\ j.due = {}
  <2>1. a \in 0..MaxApp BY StoreAssumption DEF AppId
  <2>2. j \in Job BY <2>1, IdleJob DEF Job
  <2>3. j.pc = "finishing" /\ j.hash = h /\ j.due = {} BY DEF Idle
  <2> QED BY <2>2, <2>3
<1> HIDE DEF j
<1>9. /\ job' \in [Thread -> Job] /\ job'[w] = j
      /\ \A v \in Thread \ {w} : job'[v] = job[v]
  BY <1>0, <1>1, <1>8, OneJob DEF Types
<1>10. \A g \in Hash :
         IF g = h THEN /\ RowsOf(g)' = {t, mine} /\ Incoming(g)' = {t}
                       /\ PendingIncoming(g)' = {}
                  ELSE /\ RowsOf(g)' = RowsOf(g) /\ Incoming(g)' = Incoming(g)
                       /\ PendingIncoming(g)' = PendingIncoming(g)
                       /\ t \notin RowsOf(g)
  <2>1. \A u \in DOMAIN txs : txs'[u].hash = txs[u].hash /\ txs'[u].type = txs[u].type
    BY <1>3, <1>4, <1>5
  <2>2. RowsOf(h)' = RowsOf(h) \cup {mine} /\ Incoming(h)' = Incoming(h)
    BY <1>2, <1>6, <2>1 DEF RowsOf, Incoming
  <2>3. PendingIncoming(h)' = {} BY <1>4, <1>5, <2>2 DEF PendingIncoming
  <2>4. \A g \in Hash \ {h} : /\ RowsOf(g)' = RowsOf(g) /\ Incoming(g)' = Incoming(g)
                              /\ t \notin RowsOf(g) /\ t \notin Incoming(g)
    BY <1>2, <1>4, <1>6, <2>1 DEF RowsOf, Incoming
  <2>5. \A g \in Hash \ {h} : PendingIncoming(g)' = PendingIncoming(g)
    BY <1>3, <2>4 DEF PendingIncoming, Incoming
  <2> QED BY <1>4, <2>2, <2>3, <2>4, <2>5
<1>11. \A g \in Hash : RowsOf(g) \subseteq DOMAIN txs /\ Incoming(g) \subseteq RowsOf(g)
  BY DEF RowsOf, Incoming
<1>12. internal' = internal \cup {t} /\ known' \in {known, known \cup {mine}}
       /\ (t \in known <=> mine \in known')
  <2>1. mine \notin known BY <1>0, <1>2 DEF Types
  <2> QED BY <1>1, <1>7, <2>1
<1>13. ~Unseen(h) /\ \A g : Unseen(g)' <=> Unseen(g) BY <1>1 DEF Unseen
<1>14. Types'
  <2>1. \A v \in Thread : job'[v].due \subseteq {g \in Hash : inv[g].state = "settled"}
    BY <1>0, <1>8, <1>9 DEF Types
  <2>2. known' \subseteq DOMAIN txs' BY <1>0, <1>2, <1>12 DEF Types
  <2>3. t \in 1..lastTx BY <1>0, <1>4 DEF StoreTypeOK
  <2>4. internal' \subseteq 1..lastTx'
    <3>1. lastTx \in Nat /\ lastTx' = lastTx + 1 BY <1>0, <1>m, <1>2 DEF StoreTypeOK
    <3>2. internal \subseteq 1..lastTx BY <1>0 DEF Types
    <3>3. 1..lastTx \subseteq 1..lastTx' BY <3>1
    <3> QED BY <1>12, <2>3, <3>2, <3>3
  <2> QED BY <1>0, <1>1, <1>9, <1>d, <2>1, <2>2, <2>4 DEF Types
<1>15. RowsOK'
  <2> SUFFICES ASSUME NEW g \in Hash, NEW u \in RowsOf(g)'
               PROVE  /\ inv[g].state # "none"
                      /\ txs'[u].type = "incoming" =>
                           /\ txs'[u].app = inv[g].app
                           /\ \A x \in Incoming(g)' : x = u
                      /\ txs'[u].type = "outgoing" => ~Unseen(g) /\ PendingIncoming(g)' = {}
    BY <1>1, <1>13 DEF RowsOK
  <2>1. CASE g = h BY <1>1, <1>5, <1>6, <1>10, <1>13, <2>1
  <2>2. CASE g # h BY <1>0, <1>3, <1>10, <1>11, <2>2 DEF RowsOK
  <2> QED BY <2>1, <2>2
<1>16. InvoicesOK' BY <1>0, <1>1, <1>d DEF InvoicesOK, Unseen
<1>17. IssuersOK'
  <2>1. \A v \in Thread : job[v].pc \in Issuing => job[v].hash # h
    BY <1>0, <1>1 DEF IssuersOK
  <2> QED BY <1>0, <1>1, <1>8, <1>9, <1>10, <2>1 DEF IssuersOK, Issuing
<1>18. SettlersOK'
  <2>1. PendingIncoming(h)' = {} BY <1>10
  <2>2. \A g \in Hash \ {h} : PendingIncoming(g)' = PendingIncoming(g) BY <1>10
  <2>3. j.pc \in Announcing /\ j.pc # "notifying" BY <1>8 DEF Announcing
  <2> QED BY <1>0, <1>1, <1>4, <1>8, <1>13, <2>1, <2>2, <2>3, SettlersAfter
<1>19. CreditsAreBacked'
  <2> SUFFICES ASSUME NEW g \in Hash, NEW u \in Incoming(g)'
               PROVE  IF u \in internal'
                      THEN txs'[u].state = "settled" /\ txs'[u].amount = debited'[g]
                      ELSE /\ debited'[g] = 0
                           /\ txs'[u].state = "settled" =>
                                inv[g].state = "settled" /\ txs'[u].amount = inv[g].paid
    BY <1>1 DEF CreditsAreBacked
  <2>1. CASE g = h BY <1>5, <1>10, <1>12, <1>d, <2>1
  <2>2. CASE g # h
    BY <1>0, <1>3, <1>10, <1>11, <1>12, <1>d, <2>2 DEF CreditsAreBacked
  <2> QED BY <2>1, <2>2
<1>20. NotifiedOnce' BY <1>0, <1>1, <1>10 DEF NotifiedOnce
<1>21. PreimageOnBothRows'
  <2> SUFFICES ASSUME NEW g \in Hash, \E u \in Incoming(g)' : u \in internal'
               PROVE  RowsOf(g)' \subseteq known' \/ RowsOf(g)' \cap known' = {}
    BY DEF PreimageOnBothRows
  <2>1. CASE g = h BY <1>2, <1>4, <1>10, <1>12, <2>1
  <2>2. CASE g # h
    BY <1>0, <1>2, <1>10, <1>11, <1>12, <2>2 DEF PreimageOnBothRows
  <2> QED BY <2>1, <2>2
<1> QED BY <1>14, <1>15, <1>16, <1>17, <1>18, <1>19, <1>20, <1>21 DEF Settlement

\* A deletion leaves the invoices of the wallet without a row; nothing that is
\* left changes.
LEMMA DeleteSettles ==
  ASSUME Settlement, StoreTypeOK', NEW a \in AppId, DeleteWallet(a)
  PROVE  Settlement'
<1>0. /\ StoreTypeOK /\ Types /\ RowsOK /\ InvoicesOK /\ IssuersOK /\ SettlersOK
      /\ CreditsAreBacked /\ NotifiedOnce /\ PreimageOnBothRows
  BY DEF Settlement
<1>1. /\ known' = {t \in known : txs[t].app # a}
      /\ lastTx' = lastTx /\ DOMAIN txs' = {t \in DOMAIN txs : txs[t].app # a}
      /\ \A t \in DOMAIN txs' : txs'[t] = txs[t]
      /\ UNCHANGED <<job, inv, internal, debited, notified, crashes>>
  BY DeletedRows DEF DeleteWallet
<1>2. \A g : /\ RowsOf(g)' = {t \in RowsOf(g) : txs[t].app # a}
             /\ Incoming(g)' = {t \in Incoming(g) : txs[t].app # a}
             /\ PendingIncoming(g)' = {t \in PendingIncoming(g) : txs[t].app # a}
  BY <1>1 DEF RowsOf, Incoming, PendingIncoming
<1>3. \A g : RowsOf(g) \subseteq DOMAIN txs /\ Incoming(g) \subseteq DOMAIN txs
  BY DEF RowsOf, Incoming
<1>4. \A g : Unseen(g)' <=> Unseen(g) BY <1>1 DEF Unseen
<1>5. Types' BY <1>0, <1>1 DEF Types
<1>6. RowsOK' BY <1>0, <1>1, <1>2, <1>3, <1>4 DEF RowsOK
<1>7. InvoicesOK' BY <1>0, <1>1, <1>4 DEF InvoicesOK
<1>8. IssuersOK' BY <1>0, <1>1, <1>2 DEF IssuersOK
<1>9. SettlersOK' BY <1>0, <1>1, <1>2, <1>4 DEF SettlersOK
<1>10. CreditsAreBacked' BY <1>0, <1>1, <1>2, <1>3 DEF CreditsAreBacked
<1>11. NotifiedOnce' BY <1>0, <1>1, <1>2 DEF NotifiedOnce
<1>12. PreimageOnBothRows' BY <1>0, <1>1, <1>2 DEF PreimageOnBothRows
<1> QED BY <1>5, <1>6, <1>7, <1>8, <1>9, <1>10, <1>11, <1>12 DEF Settlement

-----------------------------------------------------------------------------
(* The theorems.                                                           *)

LEMMA SettlementStep == Settlement /\ [Next]_vars => Settlement'
<1> SUFFICES ASSUME Settlement, [Next]_vars PROVE Settlement'
  OBVIOUS
<1>0. StoreTypeOK' BY ThreadsUseTheStore, StoreTypeStep DEF Settlement
<1>1. ASSUME NEW w \in Worker, NEW a \in AppId, NEW h \in Hash, NEW amt \in Amount,
             PayInternally(w, a, h, amt) \/ CreateInvoice(w, a, h, amt)
      PROVE  Settlement'
  BY <1>0, <1>1, PayInternallySettles, CreateSettles
<1>2. ASSUME NEW w \in Worker, IssueStep(w) PROVE Settlement'
  <2>1. w \in Thread BY DEF Thread
  <2> QED BY <1>0, <1>2, <2>1, RecordSettles, ReconciledSettles, KeepPreimageSettles
          DEF IssueStep
<1>3. ASSUME NEW w \in Worker, PayStep(w) PROVE Settlement'
  BY <1>3, FinishPaymentSettles, AnnouncePaymentSettles DEF PayStep
<1>4. ASSUME NEW th \in Thread, ReconcileStep(th) PROVE Settlement'
  BY <1>0, <1>4, LookupSettles, SettleSettles, NotifySettles, ReconciledSettles
  DEF ReconcileStep
<1>5. ASSUME NEW th \in Thread, NEW A, Reconcile(th, A) PROVE Settlement'
  BY <1>5, ReconcileSettles
<1>6. ASSUME NEW h \in Hash, LndIsPaid(h) \/ LndCancels(h) PROVE Settlement'
  BY <1>6, LndSettles
<1>7. ASSUME NEW a \in AppId, DeleteWallet(a) PROVE Settlement'
  BY <1>0, <1>7, DeleteSettles
<1>8. CASE Crash BY <1>8, CrashSettles
<1>9. CASE UNCHANGED vars
  <2>1. /\ UNCHANGED <<storeVars, inv, known, internal, debited, notified, crashes>> /\ job' = job
    BY <1>9 DEF vars, storeVars
  <2>2. Types /\ IssuersOK /\ SettlersOK BY DEF Settlement
  <2>3. \A th \in Thread : job'[th].due \subseteq {h \in Hash : inv[h].state = "settled"}
    BY <2>1, <2>2 DEF Types
  <2>4. IssuersOK' BY <2>1, <2>2 DEF IssuersOK, Incoming, storeVars
  <2>5. SettlersOK'
    BY <2>1, <2>2 DEF SettlersOK, PendingIncoming, Incoming, Unseen, storeVars
  <2>6. crashes' \in 0..MaxCrash /\ job' \in [Thread -> Job] BY <2>1, <2>2 DEF Types
  <2> QED BY <2>1, <2>3, <2>4, <2>5, <2>6, RecordsAside
<1>10. \A w \in Worker : w \in Thread BY DEF Thread
<1>11. Watcher \in Thread BY DEF Thread
<1> QED BY <1>1, <1>2, <1>3, <1>4, <1>5, <1>6, <1>7, <1>8, <1>9, <1>10, <1>11
        DEF Next, WatcherStep

LEMMA SettlementInit == Init => Settlement
<1> SUFFICES ASSUME Init PROVE Settlement
  OBVIOUS
<1> USE StoreAssumption, InvoicesAssumption
<1>1. StoreTypeOK
  BY DEF Init, StoreTypeOK, AppId, AppRow, TxRow, Row
<1>2. \A th \in Thread : job[th] = Idle BY DEF Init
<1>3. \A h \in Hash : inv[h] = NoInvoice /\ notified[h] = 0 /\ debited[h] = 0 BY DEF Init
<1>4. NoInvoice \in Invoice /\ NoInvoice.state = "none" BY DEF NoInvoice, Invoice
<1>5. known = {} /\ internal = {} /\ crashes = 0 BY DEF Init
<1>6. Types
  <2>1. job \in [Thread -> Job] BY IdleJob DEF Init
  <2>2. inv \in [Hash -> Invoice] BY <1>4 DEF Init
  <2>3. notified \in [Hash -> Nat] /\ debited \in [Hash -> Nat] BY DEF Init
  <2>4. \A th \in Thread : job[th].due \subseteq {h \in Hash : inv[h].state = "settled"}
    BY <1>2, IdleJob
  <2> QED BY <1>5, <2>1, <2>2, <2>3, <2>4 DEF Types
<1>7. \A h \in Hash : RowsOf(h) = {} /\ Incoming(h) = {} /\ PendingIncoming(h) = {}
  BY DEF Init, Row, RowsOf, Incoming, PendingIncoming
<1>8. RowsOK /\ CreditsAreBacked /\ NotifiedOnce /\ PreimageOnBothRows
  BY <1>3, <1>7 DEF RowsOK, CreditsAreBacked, NotifiedOnce, PreimageOnBothRows
<1>9. InvoicesOK BY <1>3, <1>4 DEF InvoicesOK
<1>10. IssuersOK /\ SettlersOK
  BY <1>2, IdleJob DEF IssuersOK, SettlersOK, Issuing, Announcing
<1> QED BY <1>1, <1>6, <1>8, <1>9, <1>10 DEF Settlement

LEMMA SettlementHolds == Spec => []Settlement
BY SettlementInit, SettlementStep, PTL DEF Spec

\* Threads, invoices and rows have their types, and an invoice's row belongs
\* to the wallet it was made for, through every settlement, deletion and
\* restart.
THEOREM InvoicesTypeCorrect == Spec => []InvoicesTypeOK
<1>1. Settlement => InvoicesTypeOK
  <2> SUFFICES ASSUME Settlement PROVE InvoicesTypeOK
    OBVIOUS
  <2>1. \A h \in Hash : \A t \in Incoming(h) : txs[t].app = inv[h].app
    BY DEF Settlement, RowsOK, RowsOf, Incoming
  <2> QED BY <2>1 DEF InvoicesTypeOK, Settlement, Types
<1> QED BY <1>1, SettlementHolds, PTL

\* A wallet is credited for an invoice once, for what LND was paid or for what
\* wallets were charged inside the ledger, whichever threads settle it first and
\* whatever amount a payer chose.
THEOREM InvoicesAreBacked == Spec => []CreditsAreBacked
<1>1. Settlement => CreditsAreBacked BY DEF Settlement
<1> QED BY <1>1, SettlementHolds, PTL

\* At most one payment_received notification per invoice, after the credit,
\* for any number of threads that reconcile it.
THEOREM ReceiptsAnnouncedOnce == Spec => []NotifiedOnce
<1>1. Settlement => NotifiedOnce BY DEF Settlement
<1> QED BY <1>1, SettlementHolds, PTL

\* What a request found paid at LND when it began is in the ledger by the time
\* it replies, unless the lookup failed, even when other threads settle it.
THEOREM RepliesAreCurrent == Spec => []RepliesAreFresh
<1>1. Settlement => RepliesAreFresh
  BY DEF Settlement, SettlersOK, RepliesAreFresh
<1> QED BY <1>1, SettlementHolds, PTL

\* Payer and payee of an internal payment have the preimage together.
THEOREM PreimagesAreShared == Spec => []PreimageOnBothRows
<1>1. Settlement => PreimageOnBothRows BY DEF Settlement
<1> QED BY <1>1, SettlementHolds, PTL

\* The receiving side is a client of the ledger: each of its steps is one of
\* StoreNext or leaves the tables alone.
THEOREM InvoicesUseTheStore == Spec => [][StoreNext]_storeVars
<1>1. Settlement /\ [Next]_vars => [StoreNext]_storeVars BY ThreadsUseTheStore
<1> QED BY <1>1, SettlementHolds, PTL DEF Spec

\* The funded wallets' books are right at the start.
LEMMA FundedBooks == Init => BalanceMatchesRows
<1> SUFFICES ASSUME Init, NEW a \in DOMAIN apps PROVE apps[a].balance = RowsSum(txs, a)
  BY DEF BalanceMatchesRows
<1>1. a \in AppId /\ apps[a].balance = Funding BY DEF Init
<1>2. /\ DOMAIN txs = AppId
      /\ \A t \in AppId : txs[t] = Row(t, "incoming", "settled", Funding, 0, NoHash)
  BY DEF Init
<1>3. AppRows(txs, a) = {a} BY <1>1, <1>2 DEF AppRows, Row
<1>4. Effects(txs)[a] = Funding /\ Funding \in Nat
  BY <1>1, <1>2, InvoicesAssumption DEF Effects, Effect, Row
<1>5. SumFunctionOnSet(Effects(txs), {a}) = Funding BY <1>4, SumOne
<1> QED BY <1>1, <1>3, <1>5 DEF RowsSum

\* The ledger that the threads write together - requests that reconcile, the
\* watcher, payers inside the ledger and the start after a crash, any of them
\* for one invoice at once: a wallet's balance is what its rows add up to, a
\* settled row is never written again, and only a wallet's own payment takes
\* money from it.
THEOREM InvoicesKeepTheLedger ==
  Spec => []BalanceMatchesRows /\ ClosedRowsFinal /\ OnlyOwnRowsDebit
<1>1. Settlement => StoreTypeOK BY DEF Settlement
<1>2. Settlement /\ Settlement' /\ BalanceMatchesRows /\ [Next]_vars => BalanceMatchesRows'
  BY <1>1, ThreadsUseTheStore, BalanceStep DEF Settlement
<1>3. Settlement /\ [Next]_vars =>
        /\ [\A t \in DOMAIN txs \cap DOMAIN txs' :
              txs[t].state # "pending" => txs'[t] = txs[t]]_storeVars
        /\ [\A a \in DOMAIN apps \cap DOMAIN apps' :
              apps'[a].balance < apps[a].balance =>
                \E t \in DOMAIN txs' \ DOMAIN txs :
                  txs'[t].app = a /\ txs'[t].type = "outgoing"]_storeVars
  BY <1>1, ThreadsUseTheStore, ClosedRowsStep, DebitStep
<1> QED BY <1>2, <1>3, FundedBooks, SettlementHolds, PTL
        DEF Spec, ClosedRowsFinal, OnlyOwnRowsDebit
=============================================================================

------------------------------ MODULE Funding ------------------------------
(***************************************************************************)
(* POST /api/transfers that funds a wallet from the node: the handler asks *)
(* LND for the channels' local balance, adds up the wallets' balances,     *)
(* compares, and only then calls NwcStore.transfer, in three steps among   *)
(* which other HTTP threads fund wallets and wallets pay and receive.      *)
(* LND makes its side of a payment after the ledger has reserved it and    *)
(* its side of a receipt before the ledger credits it.  An answer of LND   *)
(* that is lost has the payment refunded, and LND may have made it or make *)
(* it still (NwcPayments and NwcInvoices model these exchanges).           *)
(*                                                                         *)
(* The node's own funds are spent by nobody else here.  Movements between  *)
(* wallets and deletions are left out: the first change neither side of    *)
(* the comparison, the second only lower what the wallets hold.            *)
(***************************************************************************)
EXTENDS NwcStore

CONSTANTS Http,       \* HTTP threads
          Local       \* the channels' local balance at the start (msat)

ASSUME FundingAssumption == Local \in Nat

VARIABLES
  node,       \* the channels' local balance
  sent,       \* payments LND has made: transaction -> fee
  received,   \* invoices LND has settled
  abandoned,  \* payments refunded while LND was still trying them
  check,      \* each HTTP thread: [pc, app, amount, local, checked]
  lost,       \* history: what LND paid, with fees, for refunded payments
  disturbed,  \* history: threads during whose check money was on its way
  overlooked  \* history: a funding was not compared, or while disturbed

lndVars == <<node, sent, received, abandoned, lost>>
vars == <<storeVars, lndVars, check, disturbed, overlooked>>

Handler(pc, a, amt, local, checked) ==
  [pc |-> pc, app |-> a, amount |-> amt, local |-> local, checked |-> checked]
Idle == Handler("idle", 0, 0, 0, FALSE)

Init == /\ StoreInit
        /\ node = Local
        /\ sent = [t \in {} |-> 0] /\ received = {} /\ abandoned = {} /\ lost = 0
        /\ check = [h \in Http |-> Idle]
        /\ disturbed = {} /\ overlooked = FALSE

\* total_allocated_msat
Allocated == SumFunctionOnSet([a \in DOMAIN apps |-> apps[a].balance], DOMAIN apps)

\* Money on its way: reserved in the ledger and not booked yet, or settled in
\* LND and not credited yet.
OnItsWay == PendingOutgoing # {} \/ \E h \in received : PendingIncoming(h) # {}

Checking(h) == check[h].pc # "idle"
NoteDisturbance ==
  disturbed' = {h \in Http : /\ Checking(h)'
                             /\ \/ h \in disturbed
                                \/ OnItsWay'
                                \/ \E g \in Http \ {h} : Checking(g)'}

-----------------------------------------------------------------------------
(* The handler.                                                            *)

AskNode(h, a, amt) ==
  /\ check[h] = Idle
  /\ check' = [check EXCEPT ![h] = Handler("sum", a, amt, node, TRUE)]
  /\ UNCHANGED <<storeVars, lndVars, overlooked>>
  /\ NoteDisturbance

\* An LndError is passed over.
NodeDoesNotAnswer(h, a, amt) ==
  /\ check[h] = Idle
  /\ check' = [check EXCEPT ![h] = Handler("transfer", a, amt, 0, FALSE)]
  /\ UNCHANGED <<storeVars, lndVars, overlooked>>
  /\ NoteDisturbance

\* Mutant: the amount asked for is compared, not what the wallets hold.
CompareAmountOnly(h) ==
  /\ check[h].pc = "sum"
  /\ check' = [check EXCEPT ![h] =
       IF @.local > 0 /\ @.amount > @.local
       THEN Idle
       ELSE Handler("transfer", @.app, @.amount, @.local, @.checked /\ @.local > 0)]
  /\ UNCHANGED <<storeVars, lndVars, overlooked>>
  /\ NoteDisturbance

\* A local balance of 0 is passed over as well; 400 if there is too little.
Compare(h) ==
  /\ check[h].pc = "sum"
  /\ check' = [check EXCEPT ![h] =
       IF @.local > 0 /\ Allocated + @.amount > @.local
       THEN Idle
       ELSE Handler("transfer", @.app, @.amount, @.local, @.checked /\ @.local > 0)]
  /\ UNCHANGED <<storeVars, lndVars, overlooked>>
  /\ NoteDisturbance

Transfer(h) ==
  /\ check[h].pc = "transfer"
  /\ FundFromNode(check[h].app, check[h].amount)
  /\ check' = [check EXCEPT ![h] = Idle]
  /\ overlooked' = (overlooked \/ ~check[h].checked \/ h \in disturbed)
  /\ UNCHANGED lndVars
  /\ NoteDisturbance

-----------------------------------------------------------------------------
(* Wallets pay and receive; LND is the node.                               *)

Ledger(call) ==
  /\ call
  /\ UNCHANGED <<lndVars, check, overlooked>>
  /\ NoteDisturbance

Invoice(a, h, amt) == Incoming(h) = {} /\ Ledger(RecordIncomingInvoice(a, h, amt))
Reserve(a, h, amt) == Incoming(h) = {} /\ Ledger(ReserveExternal(a, amt, FeeReserve(amt), h))
CreditReceipt(h) == \E t \in PendingIncoming(h) :
                      h \in received /\ Ledger(SettleIncoming(h, txs[t].amount))
BookPaid(t) == t \in PendingOutgoing /\ t \in DOMAIN sent
               /\ Ledger(FinalizeSucceeded(t, sent[t]))

\* LND has refused the payment and does not make it.
BookFailed(t) == t \in PendingOutgoing /\ t \notin DOMAIN sent
                 /\ Ledger(FinalizeFailed(t))

\* An error has come instead of LND's answer (any LndError): the payment is
\* refunded as well, whether LND has made it or still tries.
LoseAnswer(t) ==
  /\ t \in PendingOutgoing
  /\ FinalizeFailed(t)
  /\ IF t \in DOMAIN sent
     THEN lost' = lost + txs[t].amount + sent[t] /\ UNCHANGED abandoned
     ELSE abandoned' = abandoned \cup {t} /\ UNCHANGED lost
  /\ UNCHANGED <<node, sent, received, check, overlooked>>
  /\ NoteDisturbance

\* LND pays a hash once.
Send(t, fee) ==
  /\ \A u \in DOMAIN sent : txs[u].hash # txs[t].hash
  /\ txs[t].amount + fee <= node
  /\ node' = node - txs[t].amount - fee
  /\ sent' = Inserted(sent, t, fee)

\* The fee limit given to LND is the reserve.
LndPays(t) ==
  /\ t \in PendingOutgoing
  /\ \E fee \in 0..txs[t].reserve : Send(t, fee)
  /\ UNCHANGED <<storeVars, received, abandoned, lost, check, overlooked>>
  /\ NoteDisturbance

LndPaysLate(t) ==
  /\ t \in abandoned
  /\ \E fee \in 0..FeeReserve(txs[t].amount) :
       Send(t, fee) /\ lost' = lost + txs[t].amount + fee
  /\ UNCHANGED <<storeVars, received, abandoned, check, overlooked>>
  /\ NoteDisturbance

LndReceives(h) ==
  /\ h \notin received
  /\ \E t \in PendingIncoming(h) : node' = node + txs[t].amount
  /\ received' = received \cup {h}
  /\ UNCHANGED <<storeVars, sent, abandoned, lost, check, overlooked>>
  /\ NoteDisturbance

-----------------------------------------------------------------------------
Handlers ==
  \E h \in Http : \/ \E a \in DOMAIN apps, amt \in Amount :
                       AskNode(h, a, amt) \/ NodeDoesNotAnswer(h, a, amt)
                  \/ Compare(h) \/ Transfer(h)

Wallets == \/ \E limit \in Limit : Ledger(CreateApp(limit))
           \/ \E a \in AppId, h \in Hash, amt \in Amount :
                Invoice(a, h, amt) \/ Reserve(a, h, amt)
           \/ \E a \in AppId, amt \in Amount : Ledger(DrainToNode(a, amt))
           \/ \E h \in Hash : CreditReceipt(h)
           \/ \E t \in TxId : BookPaid(t) \/ BookFailed(t) \/ LoseAnswer(t)

Lnd == \/ \E t \in TxId : LndPays(t) \/ LndPaysLate(t)
       \/ \E h \in Hash : LndReceives(h)

Next == Handlers \/ Wallets \/ Lnd

Spec == Init /\ [][Next]_vars

-----------------------------------------------------------------------------
\* What the wallets hold stays within the node's channels, but for what LND paid
\* although the ledger had refunded it or did so later, if every funding was
\* compared with the channels while no money was on its way and nobody else was
\* funding: a payment leaves the ledger before it leaves the channels, and a
\* receipt comes to the channels first.
QuietFundingsAreBacked ==
  overlooked \/ Allocated <= node + lost
=============================================================================

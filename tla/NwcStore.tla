------------------------------ MODULE NwcStore ------------------------------
(***************************************************************************)
(* class NwcStore of nwc_daemon.py: the SQLite tables sovran_apps and      *)
(* sovran_transactions, and one operator per method that changes them.     *)
(* Every method runs under one lock in one BEGIN IMMEDIATE transaction     *)
(* that is rolled back on an exception, so a method is one atomic action,  *)
(* and a method that raises changes nothing: it is the action's guard.     *)
(*                                                                         *)
(* StoreNext is the most general client: any daemon thread may call any    *)
(* method at any time.  The modules that model the daemon's own threads    *)
(* extend this one and call the same operators.                            *)
(***************************************************************************)
EXTENDS Integers, FiniteSets, FiniteSetsExt

CONSTANTS MaxApp,         \* bound on the AUTOINCREMENT id of sovran_apps
          MaxTx,          \* bound on the AUTOINCREMENT id of sovran_transactions
          Hash,           \* payment hashes
          NoHash,         \* the empty payment_hash of a transfer's rows
          Amount,         \* the amounts (msat) a caller may ask for
          Limit,          \* values of max_amount_sat * 1000; 0 is "no limit"
          MinFeeReserve   \* smallest fee reserve (msat; 10_000 in the code)

ASSUME StoreAssumption ==
  /\ MaxApp \in Nat /\ MaxTx \in Nat
  /\ Amount \subseteq Nat \ {0}
  /\ Limit \subseteq Nat
  /\ NoHash \notin Hash
  /\ MinFeeReserve \in Nat

VARIABLES apps,     \* sovran_apps: id -> [balance, limit]
          txs,      \* sovran_transactions: id -> row
          lastApp,  \* ids are AUTOINCREMENT, so a deleted row's id
          lastTx    \* is not used again

storeVars == <<apps, txs, lastApp, lastTx>>

AppId == 1..MaxApp
TxId == 1..MaxTx
AppRow == [balance : Nat, limit : Nat]
TxRow == [app : AppId, type : {"incoming", "outgoing"},
          state : {"pending", "settled", "failed"},
          amount : Nat, fees : Nat, reserve : Nat, hash : Hash \cup {NoHash}]

Row(a, type, state, amt, reserve, h) ==
  [app |-> a, type |-> type, state |-> state, amount |-> amt, fees |-> 0,
   reserve |-> reserve, hash |-> h]

-----------------------------------------------------------------------------
(* Table updates.                                                          *)

Inserted(table, id, row) ==
  [k \in DOMAIN table \cup {id} |-> IF k = id THEN row ELSE table[k]]

Credit(a, x) == [apps EXCEPT ![a].balance = @ + x]
Debit(a, x) == [apps EXCEPT ![a].balance = @ - x]
Move(a, b, x) == [Debit(a, x) EXCEPT ![b].balance = @ + x]

\* INSERT of one row; the bound on ids stands in for a table that never fills.
InsertTx(row) == /\ lastTx < MaxTx
                 /\ lastTx' = lastTx + 1
                 /\ txs' = Inserted(txs, lastTx + 1, row)

\* ORDER BY id DESC LIMIT 1
Newest(t, S) == t \in S /\ \A u \in S : u <= t

Incoming(h) == {t \in DOMAIN txs : txs[t].type = "incoming" /\ txs[t].hash = h}
PendingIncoming(h) == {t \in Incoming(h) : txs[t].state = "pending"}
PendingOutgoing == {t \in DOMAIN txs : /\ txs[t].type = "outgoing"
                                       /\ txs[t].state = "pending"}

-----------------------------------------------------------------------------
(* Apps and transfers.                                                     *)

CreateApp(limit) ==
  /\ lastApp < MaxApp
  /\ lastApp' = lastApp + 1
  /\ apps' = Inserted(apps, lastApp + 1, [balance |-> 0, limit |-> limit])
  /\ UNCHANGED <<txs, lastTx>>

\* Mutant: PRAGMA foreign_keys is off, the app's transactions stay.
DeleteAppRow(a) ==
  /\ a \in DOMAIN apps
  /\ apps' = Restrict(apps, DOMAIN apps \ {a})
  /\ UNCHANGED <<txs, lastApp, lastTx>>

\* ON DELETE CASCADE takes the app's transactions with it.
DeleteApp(a) ==
  /\ a \in DOMAIN apps
  /\ apps' = Restrict(apps, DOMAIN apps \ {a})
  /\ txs' = Restrict(txs, {t \in DOMAIN txs : txs[t].app # a})
  /\ UNCHANGED <<lastApp, lastTx>>

\* transfer(None, a, amt): the operator funds a sub-wallet.
FundFromNode(a, amt) ==
  /\ a \in DOMAIN apps
  /\ apps' = Credit(a, amt)
  /\ InsertTx(Row(a, "incoming", "settled", amt, 0, NoHash))
  /\ UNCHANGED lastApp

\* transfer(a, None, amt): the operator drains a sub-wallet.
DrainToNode(a, amt) ==
  /\ a \in DOMAIN apps
  /\ apps[a].balance >= amt
  /\ apps' = Debit(a, amt)
  /\ InsertTx(Row(a, "outgoing", "settled", amt, 0, NoHash))
  /\ UNCHANGED lastApp

\* transfer(a, b, amt): two legs, each with its row, in one transaction.
TransferBetween(a, b, amt) ==
  /\ {a, b} \subseteq DOMAIN apps
  /\ apps[a].balance >= amt
  /\ apps' = Move(a, b, amt)
  /\ lastTx + 2 <= MaxTx
  /\ lastTx' = lastTx + 2
  /\ txs' = Inserted(Inserted(txs, lastTx + 1,
                              Row(a, "outgoing", "settled", amt, 0, NoHash)),
                     lastTx + 2, Row(b, "incoming", "settled", amt, 0, NoHash))
  /\ UNCHANGED lastApp

-----------------------------------------------------------------------------
(* Incoming invoices.                                                      *)

RecordIncomingInvoice(a, h, amt) ==
  /\ a \in DOMAIN apps
  /\ InsertTx(Row(a, "incoming", "pending", amt, 0, h))
  /\ UNCHANGED <<apps, lastApp>>

\* Mutant: the state is not looked at before the credit.
SettleIncomingAgain(h, amt) ==
  \E t \in DOMAIN txs :
    /\ Newest(t, Incoming(h))
    /\ apps' = Credit(txs[t].app, amt)
    /\ txs' = [txs EXCEPT ![t].state = "settled", ![t].amount = amt]
    /\ UNCHANGED <<lastApp, lastTx>>

\* Credits amt, the amount LND reports; a row that is settled already, or no
\* row at all, is left as it is.
SettleIncoming(h, amt) ==
  \E t \in DOMAIN txs :
    /\ Newest(t, Incoming(h))
    /\ txs[t].state # "settled"
    /\ apps' = Credit(txs[t].app, amt)
    /\ txs' = [txs EXCEPT ![t].state = "settled", ![t].amount = amt]
    /\ UNCHANGED <<lastApp, lastTx>>

-----------------------------------------------------------------------------
(* Outgoing payments.                                                      *)

\* The reserve every pay handler asks for: 1% rounded up, with a floor.
FeeReserve(amt) == Max({MinFeeReserve, (amt + 99) \div 100})

BudgetUse(row) == row.amount + row.fees + row.reserve

\* Mutant: the budget query forgets the payments still in flight.
SettledBudgetRows(a) == {t \in DOMAIN txs : /\ txs[t].app = a
                                            /\ txs[t].type = "outgoing"
                                            /\ txs[t].state = "settled"}

BudgetRows(a) == {t \in DOMAIN txs : /\ txs[t].app = a
                                     /\ txs[t].type = "outgoing"
                                     /\ txs[t].state \in {"settled", "pending"}}

\* SUM(amount_msat + fees_paid_msat + fee_reserve_msat) of the budget query.
Uses(table) == [t \in DOMAIN table |-> BudgetUse(table[t])]

BudgetAllows(a, needed) ==
  \/ apps[a].limit = 0
  \/ SumFunctionOnSet(Uses(txs), BudgetRows(a)) + needed <= apps[a].limit

\* Mutant: payer and payee swapped in the two balance updates.
SettleInternallySwapped(a, amt, h) ==
  /\ a \in DOMAIN apps
  /\ apps[a].balance >= amt
  /\ \E inc \in DOMAIN txs :
       /\ Newest(inc, PendingIncoming(h))
       /\ apps' = Move(txs[inc].app, a, amt)
       /\ InsertTx(Row(a, "outgoing", "settled", amt, 0, h))
  /\ UNCHANGED lastApp

\* reserve_outgoing_payment, first half: the invoice is a pending one of this
\* node, so the two ledger rows settle at once and no fee is reserved.
SettleInternally(a, amt, h) ==
  /\ a \in DOMAIN apps
  /\ apps[a].balance >= amt
  /\ BudgetAllows(a, amt)
  /\ \E inc \in DOMAIN txs :
       /\ Newest(inc, PendingIncoming(h))
       /\ apps' = Move(a, txs[inc].app, amt)
       /\ lastTx < MaxTx
       /\ lastTx' = lastTx + 1
       /\ txs' = Inserted([txs EXCEPT ![inc].state = "settled", ![inc].amount = amt],
                          lastTx + 1, Row(a, "outgoing", "settled", amt, 0, h))
  /\ UNCHANGED lastApp

\* Mutant: the balance is compared with the amount, without the fee reserve.
ReserveUnchecked(a, amt, reserve, h) ==
  /\ a \in DOMAIN apps /\ apps[a].balance >= amt
  /\ PendingIncoming(h) = {}
  /\ apps' = Debit(a, amt + reserve)
  /\ InsertTx(Row(a, "outgoing", "pending", amt, reserve, h))
  /\ UNCHANGED lastApp

\* Mutant: the fee reserve is written to the row but never debited.
ReserveNotDebited(a, amt, reserve, h) ==
  /\ a \in DOMAIN apps /\ apps[a].balance >= amt + reserve
  /\ PendingIncoming(h) = {}
  /\ apps' = Debit(a, amt)
  /\ InsertTx(Row(a, "outgoing", "pending", amt, reserve, h))
  /\ UNCHANGED lastApp

\* Second half: amount and fee reserve leave the balance before LND is asked.
ReserveExternal(a, amt, reserve, h) ==
  /\ a \in DOMAIN apps
  /\ PendingIncoming(h) = {}
  /\ apps[a].balance >= amt + reserve
  /\ BudgetAllows(a, amt + reserve)
  /\ apps' = Debit(a, amt + reserve)
  /\ InsertTx(Row(a, "outgoing", "pending", amt, reserve, h))
  /\ UNCHANGED lastApp

\* finalize_outgoing_payment does nothing to a row that is not pending, and
\* raises NOT_FOUND when the row went away with its app.
FinalizeSucceeded(t, fee) ==
  /\ t \in DOMAIN txs /\ txs[t].state = "pending"
  /\ apps' = Credit(txs[t].app, Max({0, txs[t].reserve - fee}))
  /\ txs' = [txs EXCEPT ![t].state = "settled", ![t].fees = fee, ![t].reserve = 0]
  /\ UNCHANGED <<lastApp, lastTx>>

\* Mutant: a failed payment gives back the amount and keeps the fee reserve.
RefundAmountOnly(t) ==
  /\ t \in DOMAIN txs /\ txs[t].state = "pending"
  /\ apps' = Credit(txs[t].app, txs[t].amount)
  /\ txs' = [txs EXCEPT ![t].state = "failed", ![t].reserve = 0]
  /\ UNCHANGED <<lastApp, lastTx>>

FinalizeFailed(t) ==
  /\ t \in DOMAIN txs /\ txs[t].state = "pending"
  /\ apps' = Credit(txs[t].app, txs[t].amount + txs[t].reserve)
  /\ txs' = [txs EXCEPT ![t].state = "failed", ![t].reserve = 0]
  /\ UNCHANGED <<lastApp, lastTx>>

-----------------------------------------------------------------------------
StoreInit == /\ apps = [a \in {} |-> 0]
             /\ txs = [t \in {} |-> 0]
             /\ lastApp = 0
             /\ lastTx = 0

Operator == \/ \E limit \in Limit : CreateApp(limit)
            \/ \E a \in AppId : DeleteApp(a)
            \/ \E a \in AppId, amt \in Amount : FundFromNode(a, amt)
            \/ \E a \in AppId, amt \in Amount : DrainToNode(a, amt)
            \/ \E a, b \in AppId, amt \in Amount : TransferBetween(a, b, amt)

\* LND draws a new payment hash for every invoice; it may report a paid amount
\* above the one asked for.
Receive == \/ \E a \in AppId, h \in Hash, amt \in Amount :
                Incoming(h) = {} /\ RecordIncomingInvoice(a, h, amt)
           \/ \E h \in Hash, amt \in Amount : SettleIncoming(h, amt)

\* LND is given the reserve as its fee limit, so a reported fee stays below it.
Pay == \/ \E a \in AppId, h \in Hash, amt \in Amount :
            \/ SettleInternally(a, amt, h)
            \/ ReserveExternal(a, amt, FeeReserve(amt), h)
       \/ \E t \in PendingOutgoing : \E fee \in 0..txs[t].reserve :
            FinalizeSucceeded(t, fee)
       \/ \E t \in PendingOutgoing : FinalizeFailed(t)

StoreNext == Operator \/ Receive \/ Pay

StoreSpec == StoreInit /\ [][StoreNext]_storeVars

-----------------------------------------------------------------------------
(* Properties.                                                             *)

\* The tables hold rows of their types, ids stay below their counters, every
\* transaction belongs to an app that is there (FOREIGN KEY, ON DELETE
\* CASCADE), no balance is ever negative, only outgoing payments fail, only
\* pending ones hold a fee reserve, and those have paid no fees yet.
StoreTypeOK ==
  /\ lastApp \in 0..MaxApp /\ lastTx \in 0..MaxTx
  /\ DOMAIN apps \subseteq 1..lastApp
  /\ DOMAIN txs \subseteq 1..lastTx
  /\ apps \in [DOMAIN apps -> AppRow]
  /\ txs \in [DOMAIN txs -> TxRow]
  /\ \A t \in DOMAIN txs :
       /\ txs[t].app \in DOMAIN apps
       /\ txs[t].state = "failed" => txs[t].type = "outgoing"
       /\ txs[t].reserve # 0 => txs[t].type = "outgoing" /\ txs[t].state = "pending"
       /\ txs[t].state = "pending" => txs[t].fees = 0

\* What a row has added to its app's balance so far.
Effect(row) ==
  CASE row.type = "incoming" -> IF row.state = "settled" THEN row.amount ELSE 0
    [] row.type = "outgoing" -> IF row.state = "failed" THEN 0 ELSE - BudgetUse(row)

Effects(table) == [t \in DOMAIN table |-> Effect(table[t])]
AppRows(table, a) == {t \in DOMAIN table : table[t].app = a}
RowsSum(table, a) == SumFunctionOnSet(Effects(table), AppRows(table, a))

\* A wallet's balance is the sum of what its transactions list says happened:
\* receipts, minus payments with their fees, minus what pending payments hold.
\* balance_msat is a column kept up to date by eight methods, never recomputed.
BalanceMatchesRows ==
  \A a \in DOMAIN apps : apps[a].balance = RowsSum(txs, a)

PaymentRows(a) == {t \in BudgetRows(a) : txs[t].hash # NoHash}

\* The limit set on a wallet caps what its payments cost over its lifetime,
\* pending ones counted with their fee reserve, however payments and their
\* outcomes interleave (transfers made by the operator are not checked).
PaymentsWithinLimit ==
  \A a \in DOMAIN apps :
    apps[a].limit # 0 =>
      SumFunctionOnSet(Uses(txs), PaymentRows(a)) <= apps[a].limit

\* A transaction that settled or failed keeps its state, its amount and its
\* fees as long as its app exists: a second answer for the same payment, or a
\* second settlement of the same invoice, changes nothing.
ClosedRowsFinal ==
  [][\A t \in DOMAIN txs \cap DOMAIN txs' :
       txs[t].state # "pending" => txs'[t] = txs[t]]_storeVars

\* An app only ever loses money by its own payment or by the operator's
\* transfer or deletion: when the balance of a goes down, a row of a that takes
\* money out is written in the same step.
OnlyOwnRowsDebit ==
  [][\A a \in DOMAIN apps \cap DOMAIN apps' :
       apps'[a].balance < apps[a].balance =>
         \E t \in DOMAIN txs' \ DOMAIN txs :
           txs'[t].app = a /\ txs'[t].type = "outgoing"]_storeVars

\* The tables as isolated accounts: a pending payment is a hold on the amount
\* and the fee reserve that left the balance when it was made.
Avail == [a \in DOMAIN apps |-> apps[a].balance]
HoldOf(row) == [account |-> row.app, amount |-> row.amount + row.reserve]
Holds == [t \in PendingOutgoing |-> HoldOf(txs[t])]

Accounts == INSTANCE IsolatedAccounts WITH
              Account <- AppId, HoldId <- TxId, avail <- Avail, holds <- Holds

\* Every call of the store is a step of the isolated accounts or leaves them
\* alone: holds are placed on money that is there, and resolved once for at
\* most what they took.
ImplementsAccounts == Accounts!Spec
=============================================================================

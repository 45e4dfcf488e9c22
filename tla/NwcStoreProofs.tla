--------------------------- MODULE NwcStoreProofs ---------------------------
(* Theorems about the sub-wallet ledger, for every value of its constants. *)
EXTENDS NwcStore, FiniteSetTheorems, TLAPS

\* max(x, y) of two naturals is one of them and at least both: the fee reserve
\* and the refund of a settled payment are natural numbers.
LEMMA MaxOfTwo ==
  ASSUME NEW x \in Int, NEW y \in Int
  PROVE  /\ Max({x, y}) \in {x, y}
         /\ Max({x, y}) >= x
         /\ Max({x, y}) >= y
<1>1. \E m \in {x, y} : \A z \in {x, y} : m >= z
  <2>1. CASE x >= y BY <2>1
  <2>2. CASE ~(x >= y) BY <2>2
  <2> QED BY <2>1, <2>2
<1> QED BY <1>1 DEF Max

\* The reserve asked for a payment is a natural number.
LEMMA FeeReserveNat ==
  ASSUME NEW amt \in Amount
  PROVE  FeeReserve(amt) \in Nat
<1> DEFINE percent == (amt + 99) \div 100
<1>1. amt \in Nat BY StoreAssumption
<1>2. percent \in Nat BY <1>1
<1>3. MinFeeReserve \in Nat BY StoreAssumption
<1>4. FeeReserve(amt) = Max({MinFeeReserve, percent}) BY DEF FeeReserve
<1> HIDE DEF percent
<1>5. Max({MinFeeReserve, percent}) \in {MinFeeReserve, percent}
  BY <1>2, <1>3, MaxOfTwo
<1> QED BY <1>2, <1>3, <1>4, <1>5

\* What a settled payment gives back lies between nothing and its reserve.
LEMMA RefundBounds ==
  ASSUME NEW reserve \in Nat, NEW fee \in Nat
  PROVE  Max({0, reserve - fee}) \in 0..reserve
<1> DEFINE rest == reserve - fee
<1>1. rest \in Int /\ rest <= reserve OBVIOUS
<1> HIDE DEF rest
<1>2. Max({0, rest}) \in {0, rest} /\ Max({0, rest}) >= 0
  BY <1>1, MaxOfTwo
<1>3. Max({0, rest}) \in 0..reserve BY <1>1, <1>2
<1> QED BY <1>3 DEF rest

-----------------------------------------------------------------------------
(* Table updates keep the tables well-formed.                              *)

\* A credit keeps sovran_apps a table of apps with natural balances.
LEMMA CreditType ==
  ASSUME NEW a \in DOMAIN apps, NEW x \in Nat, apps \in [DOMAIN apps -> AppRow]
  PROVE  /\ DOMAIN Credit(a, x) = DOMAIN apps
         /\ Credit(a, x) \in [DOMAIN apps -> AppRow]
         /\ Credit(a, x)[a].balance = apps[a].balance + x
         /\ \A b \in DOMAIN apps \ {a} : Credit(a, x)[b] = apps[b]
BY DEF Credit, AppRow

\* A debit that the balance covers keeps it one: no balance gets negative.
LEMMA DebitType ==
  ASSUME NEW a \in DOMAIN apps, NEW x \in Nat, apps \in [DOMAIN apps -> AppRow],
         apps[a].balance >= x
  PROVE  /\ DOMAIN Debit(a, x) = DOMAIN apps
         /\ Debit(a, x) \in [DOMAIN apps -> AppRow]
         /\ Debit(a, x)[a].balance = apps[a].balance - x
         /\ \A b \in DOMAIN apps \ {a} : Debit(a, x)[b] = apps[b]
BY DEF Debit, AppRow

\* So does a move of money, where the paying app's balance covers it.
LEMMA MoveType ==
  ASSUME NEW a \in DOMAIN apps, NEW b \in DOMAIN apps, NEW x \in Nat,
         apps \in [DOMAIN apps -> AppRow], apps[a].balance >= x
  PROVE  /\ DOMAIN Move(a, b, x) = DOMAIN apps
         /\ Move(a, b, x) \in [DOMAIN apps -> AppRow]
         /\ Move(a, b, x)[b].balance = Debit(a, x)[b].balance + x
         /\ \A c \in DOMAIN apps \ {b} : Move(a, b, x)[c] = Debit(a, x)[c]
<1> DEFINE d == Debit(a, x)
<1>1. /\ DOMAIN d = DOMAIN apps
      /\ d \in [DOMAIN apps -> AppRow]
  BY DebitType
<1>2. Move(a, b, x) = [d EXCEPT ![b].balance = @ + x] BY DEF Move
<1> HIDE DEF d
<1>3. /\ DOMAIN Move(a, b, x) = DOMAIN apps
      /\ Move(a, b, x) \in [DOMAIN apps -> AppRow]
      /\ Move(a, b, x)[b].balance = d[b].balance + x
      /\ \A c \in DOMAIN apps \ {b} : Move(a, b, x)[c] = d[c]
  BY <1>1, <1>2 DEF AppRow
<1> QED BY <1>3 DEF d

\* A row that is written into the table: typed, and closed only in the ways
\* StoreTypeOK allows.
GoodRow(row) == /\ row \in TxRow
                /\ row.state = "failed" => row.type = "outgoing"
                /\ row.reserve # 0 => row.type = "outgoing" /\ row.state = "pending"
                /\ row.state = "pending" => row.fees = 0

\* A new transaction has a new id, and the table stays one of transactions.
LEMMA InsertType ==
  ASSUME StoreTypeOK, NEW row, GoodRow(row), row.app \in DOMAIN apps, InsertTx(row)
  PROVE  /\ lastTx' \in 0..MaxTx
         /\ DOMAIN txs' = DOMAIN txs \cup {lastTx + 1}
         /\ DOMAIN txs' \subseteq 1..lastTx'
         /\ txs' \in [DOMAIN txs' -> TxRow]
         /\ \A t \in DOMAIN txs' : txs'[t].app \in DOMAIN apps /\ GoodRow(txs'[t])
         /\ lastTx + 1 \notin DOMAIN txs
         /\ txs'[lastTx + 1] = row
         /\ \A t \in DOMAIN txs : txs'[t] = txs[t]
BY StoreAssumption DEF StoreTypeOK, InsertTx, Inserted, GoodRow

\* An update in place that keeps the row's app keeps the table typed.
LEMMA UpdateType ==
  ASSUME StoreTypeOK, NEW t \in DOMAIN txs, NEW row, GoodRow(row),
         row.app = txs[t].app, txs' = [txs EXCEPT ![t] = row]
  PROVE  /\ DOMAIN txs' = DOMAIN txs
         /\ txs' \in [DOMAIN txs' -> TxRow]
         /\ \A u \in DOMAIN txs' : txs'[u].app \in DOMAIN apps /\ GoodRow(txs'[u])
BY DEF StoreTypeOK, GoodRow

\* The row that every method inserts is a well-formed transaction.
LEMMA RowType ==
  ASSUME NEW a \in AppId, NEW type \in {"incoming", "outgoing"},
         NEW state \in {"pending", "settled", "failed"},
         NEW amt \in Nat, NEW reserve \in Nat, NEW h \in Hash \cup {NoHash},
         state = "failed" => type = "outgoing",
         reserve # 0 => type = "outgoing" /\ state = "pending"
  PROVE  /\ GoodRow(Row(a, type, state, amt, reserve, h))
         /\ Row(a, type, state, amt, reserve, h).app = a
BY DEF Row, TxRow, GoodRow

-----------------------------------------------------------------------------
(* Type correctness.                                                       *)

\* The operator may put any amount into a wallet.
LEMMA FundType ==
  ASSUME StoreTypeOK, NEW a \in AppId, NEW amt \in Nat, FundFromNode(a, amt)
  PROVE  StoreTypeOK' /\ DOMAIN apps' = DOMAIN apps
<1> USE StoreAssumption
<1> DEFINE row == Row(a, "incoming", "settled", amt, 0, NoHash)
<1>1. GoodRow(row) /\ row.app = a BY RowType
<1>2. InsertTx(row) /\ a \in DOMAIN apps BY DEF FundFromNode
<1>3. DOMAIN apps' = DOMAIN apps /\ apps' \in [DOMAIN apps -> AppRow]
  BY CreditType DEF FundFromNode, StoreTypeOK
<1> HIDE DEF row
<1> QED BY <1>1, <1>2, <1>3, InsertType DEF FundFromNode, StoreTypeOK, GoodRow

\* And take any amount out that the balance covers.
LEMMA DrainType ==
  ASSUME StoreTypeOK, NEW a \in AppId, NEW amt \in Nat, DrainToNode(a, amt)
  PROVE  StoreTypeOK' /\ DOMAIN apps' = DOMAIN apps
<1> USE StoreAssumption
<1> DEFINE row == Row(a, "outgoing", "settled", amt, 0, NoHash)
<1>1. GoodRow(row) /\ row.app = a BY RowType
<1>2. InsertTx(row) /\ a \in DOMAIN apps BY DEF DrainToNode
<1>3. DOMAIN apps' = DOMAIN apps /\ apps' \in [DOMAIN apps -> AppRow]
  BY DebitType DEF DrainToNode, StoreTypeOK
<1> HIDE DEF row
<1> QED BY <1>1, <1>2, <1>3, InsertType DEF DrainToNode, StoreTypeOK, GoodRow

\* A new wallet gets the next id, no balance and no transactions.
LEMMA CreateType ==
  ASSUME StoreTypeOK, NEW limit \in Nat, CreateApp(limit)
  PROVE  StoreTypeOK'
BY StoreAssumption DEF CreateApp, StoreTypeOK, Inserted, AppRow

\* Every method keeps the tables typed, the foreign keys valid and every
\* balance non-negative.
LEMMA StoreTypeStep == StoreTypeOK /\ [StoreNext]_storeVars => StoreTypeOK'
<1> SUFFICES ASSUME StoreTypeOK, StoreNext PROVE StoreTypeOK'
  BY DEF StoreTypeOK, storeVars
<1> USE StoreAssumption
<1>0. /\ apps \in [DOMAIN apps -> AppRow] /\ DOMAIN apps \subseteq AppId
      /\ txs \in [DOMAIN txs -> TxRow] /\ DOMAIN txs \subseteq TxId
      /\ \A t \in DOMAIN txs : txs[t].app \in DOMAIN apps /\ GoodRow(txs[t])
  BY DEF StoreTypeOK, AppId, TxId, GoodRow
<1>1. ASSUME NEW limit \in Limit, CreateApp(limit) PROVE StoreTypeOK'
  BY <1>1, CreateType
<1>2. ASSUME NEW a \in AppId, DeleteApp(a) PROVE StoreTypeOK'
  BY <1>2 DEF DeleteApp, StoreTypeOK, Restrict
<1>3. ASSUME NEW a \in AppId, NEW amt \in Amount, FundFromNode(a, amt)
      PROVE StoreTypeOK'
  BY <1>3, FundType
<1>4. ASSUME NEW a \in AppId, NEW amt \in Amount, DrainToNode(a, amt)
      PROVE StoreTypeOK'
  BY <1>4, DrainType
<1>5. ASSUME NEW a \in AppId, NEW b \in AppId, NEW amt \in Amount,
             TransferBetween(a, b, amt)
      PROVE StoreTypeOK'
  <2> DEFINE out == Row(a, "outgoing", "settled", amt, 0, NoHash)
             inc == Row(b, "incoming", "settled", amt, 0, NoHash)
  <2>1. GoodRow(out) /\ out.app = a /\ GoodRow(inc) /\ inc.app = b BY RowType
  <2>2. /\ {a, b} \subseteq DOMAIN apps
        /\ lastTx' = lastTx + 2 /\ lastTx + 2 <= MaxTx
        /\ txs' = Inserted(Inserted(txs, lastTx + 1, out), lastTx + 2, inc)
        /\ UNCHANGED lastApp
    BY <1>5 DEF TransferBetween
  <2>3. DOMAIN apps' = DOMAIN apps /\ apps' \in [DOMAIN apps -> AppRow]
    BY <1>0, <1>5, MoveType DEF TransferBetween
  <2> HIDE DEF out, inc
  <2> QED BY <2>1, <2>2, <2>3 DEF StoreTypeOK, Inserted, GoodRow
<1>6. ASSUME NEW a \in AppId, NEW h \in Hash, NEW amt \in Amount,
             RecordIncomingInvoice(a, h, amt)
      PROVE StoreTypeOK'
  <2> DEFINE row == Row(a, "incoming", "pending", amt, 0, h)
  <2>1. GoodRow(row) /\ row.app = a BY RowType
  <2>2. InsertTx(row) /\ a \in DOMAIN apps BY <1>6 DEF RecordIncomingInvoice
  <2> HIDE DEF row
  <2> QED BY <1>6, <2>1, <2>2, InsertType
          DEF RecordIncomingInvoice, StoreTypeOK, GoodRow
<1>7. ASSUME NEW h \in Hash, NEW amt \in Amount, SettleIncoming(h, amt)
      PROVE StoreTypeOK'
  <2>1. PICK t \in DOMAIN txs :
          /\ t \in Incoming(h)
          /\ apps' = Credit(txs[t].app, amt)
          /\ txs' = [txs EXCEPT ![t].state = "settled", ![t].amount = amt]
          /\ UNCHANGED <<lastApp, lastTx>>
    BY <1>7 DEF SettleIncoming, Newest
  <2> DEFINE row == [txs[t] EXCEPT !.state = "settled", !.amount = amt]
  <2>2. GoodRow(row) /\ row.app = txs[t].app
    BY <1>0, <2>1 DEF GoodRow, TxRow, Incoming
  <2>3. DOMAIN apps' = DOMAIN apps /\ apps' \in [DOMAIN apps -> AppRow]
    BY <1>0, <2>1, CreditType
  <2>4. txs' = [txs EXCEPT ![t] = row] BY <2>1
  <2> HIDE DEF row
  <2>5. /\ DOMAIN txs' = DOMAIN txs
        /\ txs' \in [DOMAIN txs' -> TxRow]
        /\ \A u \in DOMAIN txs' : txs'[u].app \in DOMAIN apps /\ GoodRow(txs'[u])
    BY <2>2, <2>4, UpdateType
  <2> QED BY <2>1, <2>3, <2>5 DEF StoreTypeOK, GoodRow
<1>8. ASSUME NEW a \in AppId, NEW h \in Hash, NEW amt \in Amount,
             SettleInternally(a, amt, h)
      PROVE StoreTypeOK'
  <2>1. PICK inc \in DOMAIN txs :
          /\ inc \in PendingIncoming(h)
          /\ apps' = Move(a, txs[inc].app, amt)
          /\ lastTx < MaxTx
          /\ lastTx' = lastTx + 1
          /\ txs' = Inserted([txs EXCEPT ![inc].state = "settled", ![inc].amount = amt],
                             lastTx + 1, Row(a, "outgoing", "settled", amt, 0, h))
    BY <1>8 DEF SettleInternally, Newest
  <2> DEFINE out == Row(a, "outgoing", "settled", amt, 0, h)
             row == [txs[inc] EXCEPT !.state = "settled", !.amount = amt]
  <2>2. GoodRow(out) /\ out.app = a BY RowType
  <2>3. GoodRow(row) /\ row.app = txs[inc].app
    BY <1>0, <2>1 DEF GoodRow, TxRow, PendingIncoming, Incoming
  <2>4. DOMAIN apps' = DOMAIN apps /\ apps' \in [DOMAIN apps -> AppRow]
    BY <1>0, <1>8, <2>1, MoveType DEF SettleInternally
  <2>5. txs' = Inserted([txs EXCEPT ![inc] = row], lastTx + 1, out) BY <2>1
  <2>6. a \in DOMAIN apps /\ UNCHANGED lastApp BY <1>8 DEF SettleInternally
  <2> HIDE DEF row, out
  <2>7. /\ txs' \in [DOMAIN txs \cup {lastTx + 1} -> TxRow]
        /\ DOMAIN txs' = DOMAIN txs \cup {lastTx + 1}
        /\ \A u \in DOMAIN txs' : txs'[u].app \in DOMAIN apps /\ GoodRow(txs'[u])
    BY <1>0, <2>2, <2>3, <2>5, <2>6 DEF Inserted, GoodRow
  <2>8. lastTx' \in 0..MaxTx /\ DOMAIN txs' \subseteq 1..lastTx'
    BY <2>1, <2>7 DEF StoreTypeOK
  <2> QED BY <2>4, <2>6, <2>7, <2>8 DEF StoreTypeOK, GoodRow
<1>9. ASSUME NEW a \in AppId, NEW h \in Hash, NEW amt \in Amount,
             ReserveExternal(a, amt, FeeReserve(amt), h)
      PROVE StoreTypeOK'
  <2> DEFINE reserve == FeeReserve(amt)
             row == Row(a, "outgoing", "pending", amt, reserve, h)
  <2>1. reserve \in Nat BY FeeReserveNat
  <2> HIDE DEF reserve
  <2>2. ReserveExternal(a, amt, reserve, h) BY <1>9 DEF reserve
  <2>3. GoodRow(row) /\ row.app = a BY <2>1, RowType
  <2>4. DOMAIN apps' = DOMAIN apps /\ apps' \in [DOMAIN apps -> AppRow]
    BY <1>0, <2>1, <2>2, DebitType DEF ReserveExternal
  <2>5. InsertTx(row) /\ a \in DOMAIN apps /\ UNCHANGED lastApp
    BY <2>2 DEF ReserveExternal
  <2> HIDE DEF row
  <2> QED BY <2>3, <2>4, <2>5, InsertType DEF StoreTypeOK, GoodRow
<1>10. ASSUME NEW t \in PendingOutgoing, NEW fee \in 0..txs[t].reserve,
              FinalizeSucceeded(t, fee)
       PROVE StoreTypeOK'
  <2> DEFINE back == Max({0, txs[t].reserve - fee})
             row == [txs[t] EXCEPT !.state = "settled", !.fees = fee, !.reserve = 0]
  <2>1. t \in DOMAIN txs /\ txs[t].reserve \in Nat /\ fee \in Nat
    BY <1>0 DEF PendingOutgoing, GoodRow, TxRow
  <2>2. back \in Nat BY <2>1, RefundBounds
  <2> HIDE DEF back
  <2>3. apps' = Credit(txs[t].app, back) BY <1>10 DEF FinalizeSucceeded, back
  <2>4. DOMAIN apps' = DOMAIN apps /\ apps' \in [DOMAIN apps -> AppRow]
    BY <1>0, <2>1, <2>2, <2>3, CreditType
  <2>5. GoodRow(row) /\ row.app = txs[t].app
    BY <1>0, <2>1 DEF GoodRow, TxRow
  <2>6. txs' = [txs EXCEPT ![t] = row] BY <1>10 DEF FinalizeSucceeded
  <2> HIDE DEF row
  <2>7. /\ DOMAIN txs' = DOMAIN txs
        /\ txs' \in [DOMAIN txs' -> TxRow]
        /\ \A u \in DOMAIN txs' : txs'[u].app \in DOMAIN apps /\ GoodRow(txs'[u])
    BY <2>1, <2>5, <2>6, UpdateType
  <2>8. UNCHANGED <<lastApp, lastTx>> BY <1>10 DEF FinalizeSucceeded
  <2> QED BY <2>4, <2>7, <2>8 DEF StoreTypeOK, GoodRow
<1>11. ASSUME NEW t \in PendingOutgoing, FinalizeFailed(t) PROVE StoreTypeOK'
  <2> DEFINE row == [txs[t] EXCEPT !.state = "failed", !.reserve = 0]
  <2>1. t \in DOMAIN txs /\ txs[t].amount + txs[t].reserve \in Nat
    BY <1>0 DEF PendingOutgoing, GoodRow, TxRow
  <2>2. DOMAIN apps' = DOMAIN apps /\ apps' \in [DOMAIN apps -> AppRow]
    BY <1>0, <1>11, <2>1, CreditType DEF FinalizeFailed
  <2>3. GoodRow(row) /\ row.app = txs[t].app
    BY <1>0, <2>1 DEF GoodRow, TxRow, PendingOutgoing
  <2>4. txs' = [txs EXCEPT ![t] = row] BY <1>11 DEF FinalizeFailed
  <2> HIDE DEF row
  <2>5. /\ DOMAIN txs' = DOMAIN txs
        /\ txs' \in [DOMAIN txs' -> TxRow]
        /\ \A u \in DOMAIN txs' : txs'[u].app \in DOMAIN apps /\ GoodRow(txs'[u])
    BY <2>1, <2>3, <2>4, UpdateType
  <2> QED BY <1>11, <2>2, <2>5 DEF FinalizeFailed, StoreTypeOK, GoodRow
<1> QED
  BY <1>1, <1>2, <1>3, <1>4, <1>5, <1>6, <1>7, <1>8, <1>9, <1>10, <1>11
  DEF StoreNext, Operator, Receive, Pay

\* Whatever daemon threads call, in whatever order, the tables stay typed: no
\* balance is ever negative and no transaction outlives its app.
THEOREM StoreTypeCorrect == StoreSpec => []StoreTypeOK
<1>1. StoreInit => StoreTypeOK
  BY StoreAssumption DEF StoreInit, StoreTypeOK
<1> QED BY <1>1, StoreTypeStep, PTL DEF StoreSpec

-----------------------------------------------------------------------------
(* What one step may never do.                                             *)

\* A table update in place touches one row, and only a pending one.
LEMMA ClosedRowsStep ==
  ASSUME StoreTypeOK, [StoreNext]_storeVars,
         NEW t \in DOMAIN txs \cap DOMAIN txs', txs[t].state # "pending"
  PROVE  txs'[t] = txs[t]
<1> USE StoreAssumption
<1>0. /\ txs \in [DOMAIN txs -> TxRow] /\ t \in 1..lastTx /\ lastTx \in Nat
  BY DEF StoreTypeOK
<1>1. CASE UNCHANGED storeVars BY <1>1 DEF storeVars
<1>2. CASE Operator
  <2>1. ASSUME NEW limit, CreateApp(limit) PROVE txs'[t] = txs[t]
    BY <2>1 DEF CreateApp
  <2>2. ASSUME NEW a, DeleteApp(a) PROVE txs'[t] = txs[t]
    BY <2>2 DEF DeleteApp, Restrict
  <2>3. ASSUME NEW row, InsertTx(row) PROVE txs'[t] = txs[t]
    BY <1>0, <2>3 DEF InsertTx, Inserted
  <2>4. ASSUME NEW a, NEW b, NEW amt, TransferBetween(a, b, amt)
        PROVE txs'[t] = txs[t]
    BY <1>0, <2>4 DEF TransferBetween, Inserted
  <2> QED BY <1>2, <2>1, <2>2, <2>3, <2>4 DEF Operator, FundFromNode, DrainToNode
<1>3. ASSUME NEW a \in AppId, NEW h \in Hash, NEW amt \in Amount,
             RecordIncomingInvoice(a, h, amt)
      PROVE txs'[t] = txs[t]
  BY <1>0, <1>3 DEF RecordIncomingInvoice, InsertTx, Inserted
<1>4. ASSUME NEW h \in Hash, NEW amt \in Amount, SettleIncoming(h, amt)
      PROVE txs'[t] = txs[t]
  <2>1. PICK u \in DOMAIN txs :
          /\ txs[u].type = "incoming" /\ txs[u].state # "settled"
          /\ txs' = [txs EXCEPT ![u].state = "settled", ![u].amount = amt]
    BY <1>4 DEF SettleIncoming, Newest, Incoming
  <2>2. txs[u].state = "pending" BY <1>0, <2>1 DEF StoreTypeOK, TxRow
  <2> QED BY <2>1, <2>2
<1>5. ASSUME NEW a \in AppId, NEW h \in Hash, NEW amt \in Amount,
             SettleInternally(a, amt, h)
      PROVE txs'[t] = txs[t]
  <2>1. PICK inc \in DOMAIN txs :
          /\ txs[inc].state = "pending"
          /\ \E row : txs' = Inserted([txs EXCEPT ![inc].state = "settled",
                                                 ![inc].amount = amt],
                                     lastTx + 1, row)
    BY <1>5 DEF SettleInternally, Newest, PendingIncoming, Incoming
  <2> QED BY <1>0, <2>1 DEF Inserted
<1>6. ASSUME NEW a \in AppId, NEW h \in Hash, NEW amt \in Amount,
             ReserveExternal(a, amt, FeeReserve(amt), h)
      PROVE txs'[t] = txs[t]
  BY <1>0, <1>6 DEF ReserveExternal, InsertTx, Inserted
<1>7. ASSUME NEW u \in PendingOutgoing, NEW fee, FinalizeSucceeded(u, fee)
      PROVE txs'[t] = txs[t]
  BY <1>7 DEF FinalizeSucceeded
<1>8. ASSUME NEW u \in PendingOutgoing, FinalizeFailed(u)
      PROVE txs'[t] = txs[t]
  BY <1>8 DEF FinalizeFailed
<1> QED
  BY <1>1, <1>2, <1>3, <1>4, <1>5, <1>6, <1>7, <1>8 DEF StoreNext, Receive, Pay

\* A transaction that settled or failed is never reopened, re-credited or
\* refunded a second time.
THEOREM ClosedRowsAreFinal == StoreSpec => ClosedRowsFinal
<1>1. StoreTypeOK /\ [StoreNext]_storeVars =>
        [\A t \in DOMAIN txs \cap DOMAIN txs' :
           txs[t].state # "pending" => txs'[t] = txs[t]]_storeVars
  BY ClosedRowsStep
<1> QED BY <1>1, StoreTypeCorrect, PTL DEF StoreSpec, ClosedRowsFinal

\* A credit lowers no balance.
LEMMA CreditRaises ==
  ASSUME StoreTypeOK, NEW b \in DOMAIN apps, NEW x \in Nat, apps' = Credit(b, x),
         NEW a \in DOMAIN apps
  PROVE  ~(apps'[a].balance < apps[a].balance)
<1>1. apps \in [DOMAIN apps -> AppRow] BY DEF StoreTypeOK
<1>2. apps[a].balance \in Nat BY <1>1 DEF AppRow
<1>3. CASE a = b
  <2>1. apps'[a].balance = apps[a].balance + x BY <1>1, <1>3, CreditType
  <2> QED BY <1>2, <2>1
<1>4. CASE a # b
  <2>1. apps'[a] = apps[a] BY <1>1, <1>4, CreditType
  <2> QED BY <1>2, <2>1
<1> QED BY <1>3, <1>4

\* A debit, or a move of money, lowers the balance of the paying app only.
LEMMA OnlyPayerLoses ==
  ASSUME StoreTypeOK, NEW b \in DOMAIN apps, NEW x \in Nat,
         apps[b].balance >= x,
         apps' = Debit(b, x) \/ \E c \in DOMAIN apps : apps' = Move(b, c, x),
         NEW a \in DOMAIN apps, apps'[a].balance < apps[a].balance
  PROVE  a = b
<1> SUFFICES ASSUME a # b PROVE FALSE OBVIOUS
<1>1. apps \in [DOMAIN apps -> AppRow] BY DEF StoreTypeOK
<1>2. apps[a].balance \in Nat BY <1>1 DEF AppRow
<1>3. Debit(b, x)[a] = apps[a] BY <1>1, DebitType
<1>4. CASE apps' = Debit(b, x) BY <1>2, <1>3, <1>4
<1>5. ASSUME NEW c \in DOMAIN apps, apps' = Move(b, c, x) PROVE FALSE
  <2>1. CASE a = c
    <3>1. apps'[a].balance = apps[a].balance + x
      BY <1>1, <1>3, <1>5, <2>1, MoveType
    <3> QED BY <1>2, <3>1
  <2>2. CASE a # c
    <3>1. apps'[a] = apps[a] BY <1>1, <1>3, <1>5, <2>2, MoveType
    <3> QED BY <1>2, <3>1
  <2> QED BY <2>1, <2>2
<1> QED BY <1>4, <1>5

\* A method that lowers a balance writes a row of that wallet that says so.
LEMMA DebitStep ==
  ASSUME StoreTypeOK, StoreNext, NEW a \in DOMAIN apps \cap DOMAIN apps',
         apps'[a].balance < apps[a].balance
  PROVE  \E t \in DOMAIN txs' \ DOMAIN txs :
           txs'[t].app = a /\ txs'[t].type = "outgoing"
<1> DEFINE OwnRow(b) == \E t \in DOMAIN txs' \ DOMAIN txs :
                          txs'[t].app = b /\ txs'[t].type = "outgoing"
<1> USE StoreAssumption
<1>0. /\ apps \in [DOMAIN apps -> AppRow] /\ DOMAIN apps \subseteq 1..lastApp
      /\ txs \in [DOMAIN txs -> TxRow] /\ DOMAIN txs \subseteq 1..lastTx
      /\ \A t \in DOMAIN txs : txs[t].app \in DOMAIN apps
      /\ lastApp \in Nat /\ lastTx \in Nat
  BY DEF StoreTypeOK
<1>a. apps[a].balance \in Nat BY <1>0 DEF AppRow
<1>b. lastTx + 1 \notin DOMAIN txs /\ lastTx + 2 \notin DOMAIN txs BY <1>0
<1>1. ASSUME NEW row, InsertTx(row), row.app = a, row.type = "outgoing"
      PROVE OwnRow(a)
  <2>1. lastTx + 1 \in DOMAIN txs' \ DOMAIN txs /\ txs'[lastTx + 1] = row
    BY <1>b, <1>1 DEF InsertTx, Inserted
  <2> QED BY <1>1, <2>1
<1>2. CASE UNCHANGED apps BY <1>a, <1>2
<1>3. ASSUME NEW limit, CreateApp(limit) PROVE FALSE
  <2>1. apps'[a] = apps[a] BY <1>0, <1>3 DEF CreateApp, Inserted
  <2> QED BY <1>a, <2>1
<1>4. ASSUME NEW b, DeleteApp(b) PROVE FALSE
  <2>1. apps'[a] = apps[a] BY <1>4 DEF DeleteApp, Restrict
  <2> QED BY <1>a, <2>1
<1>5. ASSUME NEW b, NEW amt \in Amount, FundFromNode(b, amt) PROVE FALSE
  BY <1>5, CreditRaises DEF FundFromNode
<1>6. ASSUME NEW b, NEW amt \in Amount, DrainToNode(b, amt) PROVE OwnRow(a)
  <2>1. a = b BY <1>6, OnlyPayerLoses DEF DrainToNode
  <2> QED BY <1>1, <1>6, <2>1 DEF DrainToNode, Row
<1>7. ASSUME NEW b, NEW c, NEW amt \in Amount, TransferBetween(b, c, amt)
      PROVE OwnRow(a)
  <2>1. a = b BY <1>7, OnlyPayerLoses DEF TransferBetween
  <2> DEFINE out == Row(b, "outgoing", "settled", amt, 0, NoHash)
             inc == Row(c, "incoming", "settled", amt, 0, NoHash)
  <2>2. txs' = Inserted(Inserted(txs, lastTx + 1, out), lastTx + 2, inc)
    BY <1>7 DEF TransferBetween
  <2>3. out.app = b /\ out.type = "outgoing" BY DEF Row
  <2> HIDE DEF out, inc
  <2>4. lastTx + 1 \in DOMAIN txs' \ DOMAIN txs /\ txs'[lastTx + 1] = out
    BY <1>0, <1>b, <2>2 DEF Inserted
  <2> QED BY <2>1, <2>3, <2>4
<1>8. ASSUME NEW b, NEW h, NEW amt, RecordIncomingInvoice(b, h, amt)
      PROVE OwnRow(a)
  BY <1>2, <1>8 DEF RecordIncomingInvoice
<1>9. ASSUME NEW h, NEW amt \in Amount, SettleIncoming(h, amt) PROVE FALSE
  BY <1>0, <1>9, CreditRaises DEF SettleIncoming
<1>10. ASSUME NEW b, NEW h, NEW amt \in Amount, SettleInternally(b, amt, h)
       PROVE OwnRow(a)
  <2>1. PICK inc \in DOMAIN txs :
          /\ apps' = Move(b, txs[inc].app, amt)
          /\ txs' = Inserted([txs EXCEPT ![inc].state = "settled", ![inc].amount = amt],
                             lastTx + 1, Row(b, "outgoing", "settled", amt, 0, h))
    BY <1>10 DEF SettleInternally
  <2>2. a = b BY <1>0, <1>10, <2>1, OnlyPayerLoses DEF SettleInternally
  <2> DEFINE out == Row(b, "outgoing", "settled", amt, 0, h)
  <2>3. out.app = b /\ out.type = "outgoing" BY DEF Row
  <2>4. lastTx + 1 \in DOMAIN txs' \ DOMAIN txs /\ txs'[lastTx + 1] = out
    BY <1>b, <2>1 DEF Inserted
  <2> QED BY <2>2, <2>3, <2>4
<1>11. ASSUME NEW b, NEW h, NEW amt \in Amount,
              ReserveExternal(b, amt, FeeReserve(amt), h)
       PROVE OwnRow(a)
  <2> DEFINE reserve == FeeReserve(amt)
  <2>1. amt + reserve \in Nat BY FeeReserveNat
  <2> HIDE DEF reserve
  <2>2. ReserveExternal(b, amt, reserve, h) BY <1>11 DEF reserve
  <2>3. a = b BY <2>1, <2>2, OnlyPayerLoses DEF ReserveExternal
  <2> QED BY <1>1, <2>2, <2>3 DEF ReserveExternal, Row
<1>12. ASSUME NEW t \in PendingOutgoing, NEW fee \in 0..txs[t].reserve,
              FinalizeSucceeded(t, fee)
       PROVE FALSE
  <2> DEFINE back == Max({0, txs[t].reserve - fee})
  <2>1. t \in DOMAIN txs /\ txs[t].reserve \in Nat /\ fee \in Nat
    BY <1>0 DEF PendingOutgoing, TxRow
  <2>2. back \in Nat BY <2>1, RefundBounds
  <2> HIDE DEF back
  <2>3. apps' = Credit(txs[t].app, back) BY <1>12 DEF FinalizeSucceeded, back
  <2> QED BY <1>0, <2>1, <2>2, <2>3, CreditRaises
<1>13. ASSUME NEW t \in PendingOutgoing, FinalizeFailed(t) PROVE FALSE
  <2>1. t \in DOMAIN txs /\ txs[t].amount + txs[t].reserve \in Nat
    BY <1>0 DEF PendingOutgoing, TxRow
  <2> QED BY <1>0, <1>13, <2>1, CreditRaises DEF FinalizeFailed
<1> QED
  BY <1>3, <1>4, <1>5, <1>6, <1>7, <1>8, <1>9, <1>10, <1>11, <1>12, <1>13
  DEF StoreNext, Operator, Receive, Pay

\* Nobody else's call takes money out of a wallet.
THEOREM DebitsAreOwn == StoreSpec => OnlyOwnRowsDebit
<1>1. StoreTypeOK /\ [StoreNext]_storeVars =>
        [\A a \in DOMAIN apps \cap DOMAIN apps' :
           apps'[a].balance < apps[a].balance =>
             \E t \in DOMAIN txs' \ DOMAIN txs :
               txs'[t].app = a /\ txs'[t].type = "outgoing"]_storeVars
  BY DebitStep
<1> QED BY <1>1, StoreTypeCorrect, PTL DEF StoreSpec, OnlyOwnRowsDebit

-----------------------------------------------------------------------------
(* The tables implement isolated accounts with holds.                      *)

\* A row written beside the others is a new hold if it is a pending payment,
\* and leaves the holds alone otherwise.
LEMMA HoldsAfterInsert ==
  ASSUME StoreTypeOK, NEW row, InsertTx(row)
  PROVE  /\ lastTx + 1 \in TxId \ PendingOutgoing
         /\ ~(row.type = "outgoing" /\ row.state = "pending") => Holds' = Holds
         /\ row.type = "outgoing" /\ row.state = "pending" =>
              Holds' = [k \in PendingOutgoing \cup {lastTx + 1} |->
                          IF k = lastTx + 1 THEN HoldOf(row) ELSE Holds[k]]
<1>0. DOMAIN txs \subseteq 1..lastTx /\ lastTx \in Nat /\ MaxTx \in Nat
  BY StoreAssumption DEF StoreTypeOK
<1>1. /\ lastTx + 1 \notin DOMAIN txs
      /\ lastTx + 1 \in TxId
  BY <1>0 DEF InsertTx, TxId
<1>2. /\ DOMAIN txs' = DOMAIN txs \cup {lastTx + 1}
      /\ txs'[lastTx + 1] = row
      /\ \A t \in DOMAIN txs : txs'[t] = txs[t]
  BY <1>1 DEF InsertTx, Inserted
<1>3. CASE row.type = "outgoing" /\ row.state = "pending"
  <2>1. PendingOutgoing' = PendingOutgoing \cup {lastTx + 1}
    BY <1>1, <1>2, <1>3 DEF PendingOutgoing
  <2> QED BY <1>1, <1>2, <1>3, <2>1 DEF Holds, HoldOf, PendingOutgoing
<1>4. CASE ~(row.type = "outgoing" /\ row.state = "pending")
  <2>1. PendingOutgoing' = PendingOutgoing
    BY <1>1, <1>2, <1>4 DEF PendingOutgoing
  <2> QED BY <1>1, <1>2, <1>4, <2>1 DEF Holds, HoldOf, PendingOutgoing
<1> QED BY <1>3, <1>4

\* Seen as isolated accounts, a credit adds to one account.
LEMMA AvailAfterCredit ==
  ASSUME StoreTypeOK, NEW a \in DOMAIN apps, NEW x \in Nat, apps' = Credit(a, x)
  PROVE  Avail' = [Avail EXCEPT ![a] = Avail[a] + x] /\ Avail[a] \in Nat
<1>1. apps \in [DOMAIN apps -> AppRow] BY DEF StoreTypeOK
<1>2. /\ DOMAIN apps' = DOMAIN apps
      /\ apps'[a].balance = apps[a].balance + x
      /\ \A b \in DOMAIN apps \ {a} : apps'[b] = apps[b]
  BY <1>1, CreditType
<1> QED BY <1>1, <1>2 DEF Avail, AppRow

\* Seen as isolated accounts, a debit takes from one account.
LEMMA AvailAfterDebit ==
  ASSUME StoreTypeOK, NEW a \in DOMAIN apps, NEW x \in Nat, apps' = Debit(a, x),
         apps[a].balance >= x
  PROVE  Avail' = [Avail EXCEPT ![a] = Avail[a] - x] /\ x \in 0..Avail[a]
<1>1. apps \in [DOMAIN apps -> AppRow] BY DEF StoreTypeOK
<1>2. /\ DOMAIN apps' = DOMAIN apps
      /\ apps'[a].balance = apps[a].balance - x
      /\ \A b \in DOMAIN apps \ {a} : apps'[b] = apps[b]
  BY <1>1, DebitType
<1>3. apps[a].balance \in Nat BY <1>1 DEF AppRow
<1>4. Avail[a] = apps[a].balance /\ DOMAIN Avail = DOMAIN apps BY DEF Avail
<1>5. Avail' = [Avail EXCEPT ![a] = Avail[a] - x] BY <1>2 DEF Avail
<1> QED BY <1>3, <1>4, <1>5

\* Seen as isolated accounts, a move takes from one and adds to the other.
LEMMA AvailAfterMove ==
  ASSUME StoreTypeOK, NEW a \in DOMAIN apps, NEW b \in DOMAIN apps, NEW x \in Nat,
         apps' = Move(a, b, x), apps[a].balance >= x
  PROVE  /\ Avail' = [[Avail EXCEPT ![a] = Avail[a] - x]
                         EXCEPT ![b] = [Avail EXCEPT ![a] = Avail[a] - x][b] + x]
         /\ x \in 0..Avail[a]
<1>1. apps \in [DOMAIN apps -> AppRow] BY DEF StoreTypeOK
<1> DEFINE d == Debit(a, x)
<1>2. /\ d \in [DOMAIN apps -> AppRow]
      /\ d[a].balance = apps[a].balance - x
      /\ \A c \in DOMAIN apps \ {a} : d[c] = apps[c]
  BY <1>1, DebitType
<1>3. /\ DOMAIN apps' = DOMAIN apps
      /\ apps'[b].balance = d[b].balance + x
      /\ \A c \in DOMAIN apps \ {b} : apps'[c] = d[c]
  BY <1>1, MoveType
<1> HIDE DEF d
<1>4. apps[a].balance \in Nat BY <1>1 DEF AppRow
<1> QED BY <1>2, <1>3, <1>4 DEF Avail

\* An update in place of an incoming row is no business of the holds.
LEMMA HoldsAfterReceipt ==
  ASSUME NEW t \in DOMAIN txs, txs[t].type = "incoming", NEW amt,
         txs \in [DOMAIN txs -> TxRow],
         txs' = [txs EXCEPT ![t].state = "settled", ![t].amount = amt]
  PROVE  Holds' = Holds
<1>1. /\ DOMAIN txs' = DOMAIN txs
      /\ txs'[t].type = "incoming"
      /\ \A u \in DOMAIN txs \ {t} : txs'[u] = txs[u]
  BY DEF TxRow
<1>2. PendingOutgoing' = PendingOutgoing BY <1>1 DEF PendingOutgoing
<1>3. \A u \in PendingOutgoing : txs'[u] = txs[u] BY <1>1 DEF PendingOutgoing
<1> QED BY <1>2, <1>3 DEF Holds, HoldOf

\* A payment that is finalized gives up its hold and no other.
LEMMA HoldsAfterFinalize ==
  ASSUME NEW t \in PendingOutgoing, NEW row, row.state # "pending",
         txs' = [txs EXCEPT ![t] = row]
  PROVE  Holds' = Restrict(Holds, DOMAIN Holds \ {t})
<1>1. /\ DOMAIN txs' = DOMAIN txs
      /\ txs'[t].state # "pending"
      /\ \A u \in DOMAIN txs \ {t} : txs'[u] = txs[u]
  BY DEF PendingOutgoing
<1>2. PendingOutgoing' = PendingOutgoing \ {t} BY <1>1 DEF PendingOutgoing
<1>3. \A u \in PendingOutgoing \ {t} : txs'[u] = txs[u] BY <1>1 DEF PendingOutgoing
<1> QED BY <1>2, <1>3 DEF Holds, Restrict

\* Each method of the store is one step of the isolated accounts, or none.
LEMMA AccountsStep ==
  ASSUME StoreTypeOK, [StoreNext]_storeVars
  PROVE  [Accounts!Next]_(Accounts!vars)
<1> USE StoreAssumption
<1>0. /\ apps \in [DOMAIN apps -> AppRow] /\ DOMAIN apps \subseteq 1..lastApp
      /\ txs \in [DOMAIN txs -> TxRow]
      /\ \A t \in DOMAIN txs : txs[t].app \in DOMAIN apps
      /\ lastApp \in Nat
  BY DEF StoreTypeOK
<1>a. DOMAIN Avail = DOMAIN apps /\ DOMAIN Holds = PendingOutgoing
  BY DEF Avail, Holds
<1>1. ASSUME NEW limit \in Limit, CreateApp(limit) PROVE Accounts!Next
  <2>1. PICK a \in AppId : a = lastApp + 1 /\ a \notin DOMAIN apps
    BY <1>0, <1>1 DEF CreateApp, AppId
  <2>2. Avail' = [b \in DOMAIN Avail \cup {a} |-> IF b = a THEN 0 ELSE Avail[b]]
    BY <1>a, <1>1, <2>1 DEF CreateApp, Inserted, Avail
  <2>3. Holds' = Holds BY <1>1 DEF CreateApp, Holds, PendingOutgoing
  <2>4. Accounts!Open(a) BY <1>a, <2>1, <2>2, <2>3 DEF Accounts!Open
  <2> QED BY <2>4 DEF Accounts!Next
<1>2. ASSUME NEW a \in AppId, DeleteApp(a) PROVE Accounts!Next
  <2>1. Avail' = Restrict(Avail, DOMAIN Avail \ {a})
    BY <1>a, <1>2 DEF DeleteApp, Restrict, Avail
  <2>2. Holds' = Restrict(Holds, {h \in DOMAIN Holds : Holds[h].account # a})
    BY <1>a, <1>2 DEF DeleteApp, Restrict, Holds, HoldOf, PendingOutgoing
  <2>3. a \in DOMAIN Avail BY <1>a, <1>2 DEF DeleteApp
  <2>4. Accounts!Close(a) BY <2>1, <2>2 DEF Accounts!Close, Accounts!Restrict, Restrict
  <2> QED BY <2>3, <2>4 DEF Accounts!Next
<1>3. ASSUME NEW a \in DOMAIN apps, NEW x \in Nat, apps' = Credit(a, x), Holds' = Holds
      PROVE Accounts!Next
  <2>1. Avail' = [Avail EXCEPT ![a] = Avail[a] + x] /\ Avail[a] \in Nat
    BY <1>3, AvailAfterCredit
  <2>2. Avail'[a] = Avail[a] + x /\ Avail'[a] >= Avail[a] BY <1>a, <2>1
  <2>3. Avail' = [Avail EXCEPT ![a] = Avail'[a]] BY <2>1, <2>2
  <2>4. Accounts!Deposit(a) BY <1>3, <2>2, <2>3 DEF Accounts!Deposit
  <2> QED BY <1>a, <2>4 DEF Accounts!Next
<1>4. ASSUME NEW a \in DOMAIN apps, NEW b \in DOMAIN apps, NEW x \in Nat,
             apps' = Move(a, b, x), apps[a].balance >= x, Holds' = Holds
      PROVE Accounts!Next
  <2>1. Accounts!Move(a, b)
    BY <1>4, AvailAfterMove DEF Accounts!Move, Accounts!Plus, Accounts!Minus
  <2> QED BY <1>a, <2>1 DEF Accounts!Next
<1>5. ASSUME NEW a \in AppId, NEW amt \in Amount, FundFromNode(a, amt)
      PROVE Accounts!Next
  <2>1. Holds' = Holds BY <1>5, HoldsAfterInsert DEF FundFromNode, Row
  <2> QED BY <1>3, <1>5, <2>1 DEF FundFromNode
<1>6. ASSUME NEW a \in AppId, NEW amt \in Amount, DrainToNode(a, amt)
      PROVE Accounts!Next
  <2>1. Holds' = Holds BY <1>6, HoldsAfterInsert DEF DrainToNode, Row
  <2>2. Accounts!Withdraw(a)
    BY <1>6, <2>1, AvailAfterDebit DEF DrainToNode, Accounts!Withdraw, Accounts!Minus
  <2> QED BY <1>6, <1>a, <2>2 DEF Accounts!Next, DrainToNode
<1>7. ASSUME NEW a \in AppId, NEW b \in AppId, NEW amt \in Amount,
             TransferBetween(a, b, amt)
      PROVE Accounts!Next
  <2>1. PendingOutgoing' = PendingOutgoing /\ \A t \in PendingOutgoing : txs'[t] = txs[t]
    BY <1>7 DEF TransferBetween, Inserted, Row, PendingOutgoing, StoreTypeOK
  <2>2. Holds' = Holds BY <2>1 DEF Holds, HoldOf
  <2> QED BY <1>4, <1>7, <2>2 DEF TransferBetween
<1>8. ASSUME NEW a \in AppId, NEW h \in Hash, NEW amt \in Amount,
             RecordIncomingInvoice(a, h, amt)
      PROVE UNCHANGED (Accounts!vars)
  <2>1. Holds' = Holds BY <1>8, HoldsAfterInsert DEF RecordIncomingInvoice, Row
  <2> QED BY <1>8, <2>1 DEF RecordIncomingInvoice, Accounts!vars, Avail
<1>9. ASSUME NEW h \in Hash, NEW amt \in Amount, SettleIncoming(h, amt)
      PROVE Accounts!Next
  <2>1. PICK t \in DOMAIN txs :
          /\ txs[t].type = "incoming"
          /\ apps' = Credit(txs[t].app, amt)
          /\ txs' = [txs EXCEPT ![t].state = "settled", ![t].amount = amt]
    BY <1>9 DEF SettleIncoming, Newest, Incoming
  <2>2. Holds' = Holds BY <1>0, <2>1, HoldsAfterReceipt
  <2>3. PICK a \in DOMAIN apps : a = txs[t].app BY <1>0
  <2> QED BY <1>3, <2>1, <2>2, <2>3
<1>10. ASSUME NEW a \in AppId, NEW h \in Hash, NEW amt \in Amount,
              SettleInternally(a, amt, h)
       PROVE Accounts!Next
  <2>1. PICK inc \in DOMAIN txs :
          /\ txs[inc].type = "incoming"
          /\ apps' = Move(a, txs[inc].app, amt)
          /\ txs' = Inserted([txs EXCEPT ![inc].state = "settled", ![inc].amount = amt],
                             lastTx + 1, Row(a, "outgoing", "settled", amt, 0, h))
    BY <1>10 DEF SettleInternally, Newest, PendingIncoming, Incoming
  <2>2. lastTx + 1 \notin DOMAIN txs BY DEF StoreTypeOK
  <2>3. /\ \A t \in DOMAIN txs \ {inc} : txs'[t] = txs[t]
        /\ txs'[inc].type = "incoming"
        /\ DOMAIN txs' = DOMAIN txs \cup {lastTx + 1}
        /\ txs'[lastTx + 1].state = "settled"
    BY <1>0, <2>1, <2>2 DEF Inserted, Row, TxRow
  <2>4. /\ PendingOutgoing' = PendingOutgoing
        /\ \A t \in PendingOutgoing : txs'[t] = txs[t]
    <3>1. inc \notin PendingOutgoing /\ inc \notin PendingOutgoing'
      BY <2>1, <2>3 DEF PendingOutgoing
    <3>2. lastTx + 1 \notin PendingOutgoing /\ lastTx + 1 \notin PendingOutgoing'
      BY <2>2, <2>3 DEF PendingOutgoing
    <3> QED BY <2>3, <3>1, <3>2 DEF PendingOutgoing
  <2>5. Holds' = Holds BY <2>4 DEF Holds, HoldOf
  <2>6. PICK b \in DOMAIN apps : b = txs[inc].app BY <1>0
  <2> QED BY <1>4, <1>10, <2>1, <2>5, <2>6 DEF SettleInternally
<1>11. ASSUME NEW a \in AppId, NEW h \in Hash, NEW amt \in Amount,
              ReserveExternal(a, amt, FeeReserve(amt), h)
       PROVE Accounts!Next
  <2>1. PICK reserve \in Nat : ReserveExternal(a, amt, reserve, h)
    BY <1>11, FeeReserveNat
  <2> DEFINE row == Row(a, "outgoing", "pending", amt, reserve, h)
  <2>2. /\ row.type = "outgoing" /\ row.state = "pending"
        /\ HoldOf(row) = [account |-> a, amount |-> amt + reserve]
    BY DEF Row, HoldOf
  <2>3. InsertTx(row) BY <2>1 DEF ReserveExternal
  <2> HIDE DEF row
  <2>4. PICK k \in TxId \ PendingOutgoing : k = lastTx + 1
    BY <2>3, HoldsAfterInsert
  <2>5. Holds' = [m \in PendingOutgoing \cup {k} |->
                    IF m = k THEN HoldOf(row) ELSE Holds[m]]
    BY <2>2, <2>3, <2>4, HoldsAfterInsert
  <2>6. PICK x \in Nat : x = amt + reserve OBVIOUS
  <2>7. Avail' = [Avail EXCEPT ![a] = Avail[a] - x] /\ x \in 0..Avail[a]
    BY <2>1, <2>6, AvailAfterDebit DEF ReserveExternal
  <2>8. Accounts!Place(k, a)
    BY <1>a, <2>2, <2>5, <2>6, <2>7 DEF Accounts!Place, Accounts!Minus
  <2> QED BY <1>a, <2>1, <2>4, <2>8 DEF Accounts!Next, ReserveExternal
<1>12. ASSUME NEW t \in PendingOutgoing, NEW row, row.state # "pending",
              txs' = [txs EXCEPT ![t] = row],
              NEW back \in 0..(txs[t].amount + txs[t].reserve),
              apps' = Credit(txs[t].app, back)
       PROVE Accounts!Next
  <2>1. Holds' = Restrict(Holds, DOMAIN Holds \ {t})
    BY <1>12, HoldsAfterFinalize
  <2>2. /\ Holds[t].account = txs[t].app
        /\ Holds[t].amount = txs[t].amount + txs[t].reserve
    BY DEF Holds, HoldOf
  <2>3. t \in DOMAIN txs BY DEF PendingOutgoing
  <2>4. txs[t].amount \in Nat /\ txs[t].reserve \in Nat BY <1>0, <2>3 DEF TxRow
  <2>5. Avail' = [Avail EXCEPT ![txs[t].app] = Avail[txs[t].app] + back]
    BY <1>0, <1>12, <2>3, <2>4, AvailAfterCredit
  <2>6. /\ back \in 0..Holds[t].amount
        /\ Avail' = [Avail EXCEPT ![Holds[t].account] = Avail[Holds[t].account] + back]
    BY <2>2, <2>5
  <2>7. Accounts!Resolve(t)
    BY <2>1, <2>6
    DEF Accounts!Resolve, Accounts!Plus, Accounts!Restrict, Restrict
  <2> QED BY <1>a, <2>7 DEF Accounts!Next
<1>13. ASSUME NEW t \in PendingOutgoing, NEW fee \in 0..txs[t].reserve,
              FinalizeSucceeded(t, fee)
       PROVE Accounts!Next
  <2> DEFINE back == Max({0, txs[t].reserve - fee})
             row == [txs[t] EXCEPT !.state = "settled", !.fees = fee, !.reserve = 0]
  <2>1. t \in DOMAIN txs BY DEF PendingOutgoing
  <2>2. txs[t].amount \in Nat /\ txs[t].reserve \in Nat BY <1>0, <2>1 DEF TxRow
  <2>3. back \in 0..txs[t].reserve BY <2>2, RefundBounds
  <2>4. row.state # "pending" BY <1>0, <2>1 DEF TxRow
  <2>5. txs' = [txs EXCEPT ![t] = row] BY <1>13 DEF FinalizeSucceeded
  <2>6. apps' = Credit(txs[t].app, back) BY <1>13 DEF FinalizeSucceeded
  <2> HIDE DEF back, row
  <2>7. back \in 0..(txs[t].amount + txs[t].reserve) BY <2>2, <2>3
  <2> QED BY <1>12, <2>4, <2>5, <2>6, <2>7
<1>14. ASSUME NEW t \in PendingOutgoing, FinalizeFailed(t) PROVE Accounts!Next
  <2> DEFINE row == [txs[t] EXCEPT !.state = "failed", !.reserve = 0]
  <2>1. t \in DOMAIN txs BY DEF PendingOutgoing
  <2>2. txs[t].amount \in Nat /\ txs[t].reserve \in Nat BY <1>0, <2>1 DEF TxRow
  <2>3. row.state # "pending" BY <1>0, <2>1 DEF TxRow
  <2>4. txs' = [txs EXCEPT ![t] = row] BY <1>14 DEF FinalizeFailed
  <2>5. PICK back \in 0..(txs[t].amount + txs[t].reserve) :
          apps' = Credit(txs[t].app, back)
    <3>1. txs[t].amount + txs[t].reserve \in 0..(txs[t].amount + txs[t].reserve)
      BY <2>2
    <3> QED BY <1>14, <3>1 DEF FinalizeFailed
  <2> HIDE DEF row
  <2> QED BY <1>12, <2>3, <2>4, <2>5
<1>15. CASE UNCHANGED storeVars
  BY <1>15 DEF storeVars, Accounts!vars, Avail, Holds, PendingOutgoing
<1> QED
  BY <1>1, <1>2, <1>5, <1>6, <1>7, <1>8, <1>9, <1>10, <1>11, <1>13, <1>14, <1>15
  DEF StoreNext, Operator, Receive, Pay

\* The sub-wallet ledger is a correct set of isolated accounts, for any number
\* of wallets, transactions, hashes and amounts.
THEOREM StoreImplementsAccounts == StoreSpec => ImplementsAccounts
<1>1. StoreInit => Accounts!Init
  BY DEF StoreInit, Accounts!Init, Avail, Holds, PendingOutgoing
<1>2. StoreTypeOK /\ [StoreNext]_storeVars => [Accounts!Next]_(Accounts!vars)
  BY AccountsStep
<1> QED BY <1>1, <1>2, StoreTypeCorrect, PTL
        DEF StoreSpec, ImplementsAccounts, Accounts!Spec

-----------------------------------------------------------------------------
(* What the methods do to the table of transactions, for the modules that   *)
(* call them.                                                              *)

\* A new row gets the next id and changes no other row.
LEMMA InsertRow ==
  ASSUME StoreTypeOK, NEW row, InsertTx(row)
  PROVE  /\ lastTx' = lastTx + 1 /\ lastTx + 1 \notin DOMAIN txs
         /\ DOMAIN txs' = DOMAIN txs \cup {lastTx + 1}
         /\ txs'[lastTx + 1] = row
         /\ \A t \in DOMAIN txs : txs'[t] = txs[t]
BY DEF StoreTypeOK, InsertTx, Inserted

\* An internal settlement closes one pending invoice of the hash and adds the
\* settled payment.
LEMMA InternalRows ==
  ASSUME StoreTypeOK, NEW a, NEW amt, NEW h, SettleInternally(a, amt, h)
  PROVE  /\ lastTx' = lastTx + 1 /\ lastTx + 1 \notin DOMAIN txs
         /\ DOMAIN txs' = DOMAIN txs \cup {lastTx + 1}
         /\ txs'[lastTx + 1] = Row(a, "outgoing", "settled", amt, 0, h)
         /\ \E inc \in PendingIncoming(h) :
              /\ txs'[inc] = [txs[inc] EXCEPT !.state = "settled", !.amount = amt]
              /\ \A t \in DOMAIN txs \ {inc} : txs'[t] = txs[t]
<1>1. PICK inc \in PendingIncoming(h) :
        /\ inc \in DOMAIN txs
        /\ lastTx' = lastTx + 1
        /\ txs' = Inserted([txs EXCEPT ![inc].state = "settled", ![inc].amount = amt],
                           lastTx + 1, Row(a, "outgoing", "settled", amt, 0, h))
  BY DEF SettleInternally, Newest
<1>2. lastTx + 1 \notin DOMAIN txs /\ txs \in [DOMAIN txs -> TxRow] BY DEF StoreTypeOK
<1> QED BY <1>1, <1>2 DEF Inserted

\* A settlement closes the one invoice row it finds.
LEMMA SettledRow ==
  ASSUME StoreTypeOK, NEW h, NEW amt, SettleIncoming(h, amt)
  PROVE  /\ UNCHANGED lastTx /\ DOMAIN txs' = DOMAIN txs
         /\ \E t \in Incoming(h) :
              /\ txs[t].state = "pending"
              /\ txs'[t] = [txs[t] EXCEPT !.state = "settled", !.amount = amt]
              /\ \A u \in DOMAIN txs \ {t} : txs'[u] = txs[u]
<1>1. PICK t \in Incoming(h) :
        /\ t \in DOMAIN txs /\ txs[t].state # "settled" /\ txs[t].type = "incoming"
        /\ txs' = [txs EXCEPT ![t].state = "settled", ![t].amount = amt]
        /\ UNCHANGED lastTx
  BY DEF SettleIncoming, Newest, Incoming
<1>2. txs[t].state = "pending" BY <1>1 DEF StoreTypeOK, TxRow
<1> QED BY <1>1, <1>2

\* A deletion takes the rows of its app away and changes none that stays.
LEMMA DeletedRows ==
  ASSUME NEW a, DeleteApp(a)
  PROVE  /\ UNCHANGED lastTx /\ DOMAIN txs' = {t \in DOMAIN txs : txs[t].app # a}
         /\ \A t \in DOMAIN txs' : txs'[t] = txs[t]
BY DEF DeleteApp, Restrict

-----------------------------------------------------------------------------
(* Sums over finite sets.  The community modules define them by recursion;  *)
(* the induction behind these lemmas is the well-foundedness of the strict  *)
(* subsets of a finite set.                                                 *)

\* Induction over the subsets of a finite set: a set F that holds T whenever it
\* holds T without any one element holds S.  (A minimal counterexample: the
\* strict subsets of a finite set are well-founded.)
LEMMA FiniteInduction ==
  ASSUME NEW S, IsFiniteSet(S), NEW F,
         \A T \in SUBSET S : (\A x \in T : T \ {x} \in F) => T \in F
  PROVE  S \in F
<1> SUFFICES ASSUME S \notin F PROVE FALSE
  OBVIOUS
<1> DEFINE Bad == {T \in SUBSET S : T \notin F}
<1>1. Bad \subseteq FiniteSubsetsOf(S)
  BY FS_Subset DEF FiniteSubsetsOf
<1>2. PICK T \in Bad : \A U \in Bad : <<U, T>> \notin StrictSubsetOrdering(S)
  BY <1>1, WFMin, FS_StrictSubsetOrderingWellFounded
<1>3. ASSUME NEW x \in T, T \ {x} \in Bad PROVE FALSE
  <2>1. T \ {x} \in SUBSET S /\ T \in SUBSET S /\ T \ {x} \subseteq T /\ T \ {x} # T BY <1>3
  <2>2. <<T \ {x}, T>> \in StrictSubsetOrdering(S) BY <2>1 DEF StrictSubsetOrdering
  <2> QED BY <1>2, <1>3, <2>2
<1> QED BY <1>2, <1>3

\* The recursion behind a sum: some element first, then the rest.
FirstOf(s) == CHOOSE x \in s : TRUE
RestOf(s) == s \ {FirstOf(s)}
SumsOver(f, S, g) ==
  g = [s \in SUBSET S |-> IF s = {} THEN 0 ELSE f[FirstOf(s)] + g[RestOf(s)]]

\* The community operator is a recursive function on the subsets of S, which
\* the provers see as the choice of a function with SumsOver's property.
LEMMA SumDef == ASSUME NEW f, NEW S
  PROVE SumFunctionOnSet(f, S) = (CHOOSE g : SumsOver(f, S, g))[S]
BY DEF SumFunctionOnSet, FoldFunctionOnSet, MapThenFoldSet, SumsOver, FirstOf, RestOf

\* A non-empty finite set loses one element when its first one is taken out.
LEMMA FirstOfSet ==
  ASSUME NEW S, IsFiniteSet(S), S # {}
  PROVE  /\ FirstOf(S) \in S /\ RestOf(S) \subseteq S /\ IsFiniteSet(RestOf(S))
         /\ Cardinality(RestOf(S)) = Cardinality(S) - 1 /\ Cardinality(S) \in Nat \ {0}
BY FS_RemoveElement, FS_CardinalityType, FS_EmptySet DEF FirstOf, RestOf

\* On a finite set such a function exists.
LEMMA SumExists ==
  ASSUME NEW f, NEW S, IsFiniteSet(S)
  PROVE  \E g : SumsOver(f, S, g)
<1> DEFINE Upto(g, n) ==
      \A s \in SUBSET S : Cardinality(s) <= n =>
          g[s] = IF s = {} THEN 0 ELSE f[FirstOf(s)] + g[RestOf(s)]
           F == {T \in SUBSET S : \E g : Upto(g, Cardinality(T))}
<1>0. \A T \in SUBSET S : IsFiniteSet(T) /\ Cardinality(T) \in Nat
                          /\ Cardinality(T) <= Cardinality(S)
  BY FS_Subset, FS_CardinalityType
<1>1. ASSUME NEW T \in SUBSET S, \A x \in T : T \ {x} \in F
      PROVE  \E g : Upto(g, Cardinality(T))
  <2>1. CASE T = {}
    <3> DEFINE g == [s \in SUBSET S |-> 0]
    <3>1. \A s \in SUBSET S : Cardinality(s) <= 0 => s = {} BY <1>0, FS_EmptySet
    <3>2. \A s \in SUBSET S : g[s] = 0 OBVIOUS
    <3> HIDE DEF g
    <3>3. Upto(g, 0) BY <3>1, <3>2
    <3> QED BY <2>1, <3>3, FS_EmptySet
  <2>2. CASE T # {}
    <3>1. PICK x : x \in T BY <2>2
    <3>2. PICK n \in Nat : n = Cardinality(T \ {x}) /\ n + 1 = Cardinality(T)
      BY <1>0, <3>1, FS_RemoveElement
    <3>3. PICK g : Upto(g, n) BY <1>1, <3>1, <3>2
    <3> DEFINE val(s) == IF s = {} THEN 0 ELSE f[FirstOf(s)] + g[RestOf(s)]
               h == [s \in SUBSET S |-> IF Cardinality(s) <= n THEN g[s] ELSE val(s)]
    <3>4. \A s \in SUBSET S :
            s # {} => /\ RestOf(s) \in SUBSET S
                      /\ Cardinality(RestOf(s)) = Cardinality(s) - 1
      BY <1>0, FirstOfSet
    <3>5. \A s \in SUBSET S : Cardinality(s) <= n + 1 => h[s] = val(s)
      BY <1>0, <3>2, <3>3
    <3>6. \A s \in SUBSET S : Cardinality(s) <= n => h[s] = g[s]
      OBVIOUS
    <3>7. \A s \in SUBSET S :
            Cardinality(s) <= n + 1 /\ s # {} => h[RestOf(s)] = g[RestOf(s)]
      BY <1>0, <3>2, <3>4, <3>6
    <3> HIDE DEF h
    <3>8. Upto(h, n + 1) BY <3>5, <3>7
    <3> QED BY <3>2, <3>8
  <2> QED BY <2>1, <2>2
<1>2. S \in F 
  <2> HIDE DEF F
  <2>1. \A T \in SUBSET S : (\A x \in T : T \ {x} \in F) => T \in F BY <1>1 DEF F
  <2> QED BY <2>1, FiniteInduction
<1>3. PICK g : Upto(g, Cardinality(S)) BY <1>2
<1> DEFINE h == [s \in SUBSET S |-> g[s]]
<1>4. \A s \in SUBSET S : h[s] = IF s = {} THEN 0 ELSE f[FirstOf(s)] + h[RestOf(s)]
  <2>1. \A s \in SUBSET S : s # {} => RestOf(s) \in SUBSET S BY DEF RestOf
  <2> QED BY <1>0, <1>3, <2>1
<1>5. SumsOver(f, S, h)
   <2>1. h = [s \in SUBSET S |-> h[s]] OBVIOUS
   <2> HIDE DEF h
   <2> QED BY <2>1, <1>4 DEF SumsOver
<1> QED BY <1>5

\* And two of them, on sets one inside the other, agree on the smaller one.
LEMMA SumsAgree ==
  ASSUME NEW f, NEW S, IsFiniteSet(S), NEW T \in SUBSET S, 
     NEW g, SumsOver(f, S, g), NEW h, SumsOver(f, T, h)
  PROVE g[T] = h[T]
<1> DEFINE F == {U \in SUBSET T : g[U] = h[U]}
<1>0. IsFiniteSet(T) BY FS_Subset
<1>1. ASSUME NEW U \in SUBSET T, \A x \in U : U \ {x} \in F
      PROVE  g[U] = h[U]
  <2>1. CASE U = {} BY <2>1 DEF SumsOver
  <2>2. CASE U # {}
    <3>1. FirstOf(U) \in U BY <2>2 DEF FirstOf
    <3>2. g[RestOf(U)] = h[RestOf(U)] BY <1>1, <3>1 DEF RestOf
    <3>3. /\ g[U] = f[FirstOf(U)] + g[RestOf(U)] BY <2>2 DEF SumsOver
    <3>4. /\ h[U] = f[FirstOf(U)] + h[RestOf(U)] BY <2>2 DEF SumsOver
    <3> QED BY <3>2, <3>3, <3>4
  <2> QED BY <2>1, <2>2
<1>2. T \in F
  <2>1. \A U \in SUBSET T : (\A x \in U : U \ {x} \in F) => U \in F BY <1>1
  <2> HIDE DEF F
  <2> QED BY <1>0, <2>1, FiniteInduction
<1> QED BY <1>2

\* So the sum over a finite set is its recursion.
LEMMA SumUnfold ==
  ASSUME NEW f, NEW S, IsFiniteSet(S)
  PROVE  SumFunctionOnSet(f, S) =
           IF S = {} THEN 0 ELSE f[FirstOf(S)] + SumFunctionOnSet(f, RestOf(S))
<1>1. PICK g : g = (CHOOSE h : SumsOver(f, S, h)) OBVIOUS
<1>2. SumsOver(f, S, g) BY <1>1, SumExists
<1>3. SumFunctionOnSet(f, S) = g[S] BY <1>1, SumDef
<1>4. CASE S = {} BY <1>2, <1>3, <1>4 DEF SumsOver
<1>5. CASE S # {}
  <2>1. RestOf(S) \in SUBSET S /\ IsFiniteSet(RestOf(S)) BY <1>5, FirstOfSet
  <2>2. PICK k : k = (CHOOSE h : SumsOver(f, RestOf(S), h)) OBVIOUS
  <2>3. SumsOver(f, RestOf(S), k) BY <2>1, <2>2, SumExists
  <2>4. SumFunctionOnSet(f, RestOf(S)) = k[RestOf(S)] BY <2>2, SumDef
  <2>5. k[RestOf(S)] = g[RestOf(S)] BY <1>2, <2>1, <2>3, SumsAgree
  <2>6. g[S] = f[FirstOf(S)] + g[RestOf(S)] BY <1>2, <1>5 DEF SumsOver
  <2> QED BY <1>3, <1>5, <2>4, <2>5, <2>6
<1> QED BY <1>4, <1>5

\* The sum over no element is 0.
LEMMA SumEmpty == \A f : SumFunctionOnSet(f, {}) = 0
BY SumUnfold, FS_EmptySet

\* A sum of integers is an integer.
LEMMA SumInt ==
  ASSUME NEW f, NEW S, IsFiniteSet(S), \A x \in S : f[x] \in Int
  PROVE  SumFunctionOnSet(f, S) \in Int
<1> DEFINE F == {T \in SUBSET S : SumFunctionOnSet(f, T) \in Int}
<1>1. ASSUME NEW T \in SUBSET S, \A x \in T : T \ {x} \in F
      PROVE  SumFunctionOnSet(f, T) \in Int
  <2>1. IsFiniteSet(T) BY FS_Subset
  <2>2. CASE T = {} BY <2>2, SumEmpty
  <2>3. CASE T # {}
    <3>1. FirstOf(T) \in T BY <2>1, <2>3, FirstOfSet
    <3>2. SumFunctionOnSet(f, RestOf(T)) \in Int BY <1>1, <3>1 DEF RestOf
    <3>3. f[FirstOf(T)] \in Int BY <3>1
    <3>4. SumFunctionOnSet(f, T) = f[FirstOf(T)] + SumFunctionOnSet(f, RestOf(T))
      BY <2>1, <2>3, SumUnfold
    <3> QED BY <3>2, <3>3, <3>4
  <2> QED BY <2>2, <2>3
<1>2. \A T \in SUBSET S : (\A x \in T : T \ {x} \in F) => T \in F BY <1>1
<1> HIDE DEF F
<1>3. S \in F BY <1>2, FiniteInduction
<1> QED BY <1>3 DEF F

\* Any element may be taken out first.
LEMMA SumTake ==
  ASSUME NEW f, NEW S, IsFiniteSet(S), \A x \in S : f[x] \in Int, NEW y \in S
  PROVE  SumFunctionOnSet(f, S) = f[y] + SumFunctionOnSet(f, S \ {y})
<1> DEFINE F == {T \in SUBSET S :
                   \A x \in T : SumFunctionOnSet(f, T) = f[x] + SumFunctionOnSet(f, T \ {x})}
<1>1. ASSUME NEW T \in SUBSET S, \A x \in T : T \ {x} \in F, NEW x \in T
      PROVE  SumFunctionOnSet(f, T) = f[x] + SumFunctionOnSet(f, T \ {x})
  <2>1. IsFiniteSet(T) BY FS_Subset
  <2> DEFINE e == FirstOf(T)
  <2>2. e \in T /\ SumFunctionOnSet(f, T) = f[e] + SumFunctionOnSet(f, T \ {e})
    BY <2>1, FirstOfSet, SumUnfold DEF RestOf
  <2>3. CASE x = e BY <2>2, <2>3
  <2>4. CASE x # e
    <3>1. T \ {e} \in F /\ T \ {x} \in F BY <1>1, <2>2
    <3>2. SumFunctionOnSet(f, T \ {e}) = f[x] + SumFunctionOnSet(f, (T \ {e}) \ {x})
      BY <2>4, <3>1
    <3>3. SumFunctionOnSet(f, T \ {x}) = f[e] + SumFunctionOnSet(f, (T \ {x}) \ {e})
      BY <2>2, <2>4, <3>1
    <3>4. (T \ {x}) \ {e} = (T \ {e}) \ {x} OBVIOUS
    <3>5. IsFiniteSet((T \ {e}) \ {x}) BY <2>1, FS_Subset
    <3>6. f[x] \in Int /\ f[e] \in Int BY <2>2
    <3>7. PICK r \in Int : r = SumFunctionOnSet(f, (T \ {e}) \ {x}) BY <3>5, SumInt
    <3>8. SumFunctionOnSet(f, T \ {e}) = f[x] + r /\ SumFunctionOnSet(f, T \ {x}) = f[e] + r
      BY <3>2, <3>3, <3>4, <3>7
    <3>9. f[e] + (f[x] + r) = f[x] + (f[e] + r) BY <3>6
    <3> QED BY <2>2, <3>8, <3>9
  <2> QED BY <2>3, <2>4
<1>2. \A T \in SUBSET S : (\A x \in T : T \ {x} \in F) => T \in F BY <1>1
<1> HIDE DEF F
<1>3. S \in F BY <1>2, FiniteInduction
<1> QED BY <1>3 DEF F

\* A new element adds its value.
LEMMA SumAdd ==
  ASSUME NEW f, NEW S, IsFiniteSet(S), NEW y, y \notin S, \A x \in S \cup {y} : f[x] \in Int
  PROVE  SumFunctionOnSet(f, S \cup {y}) = SumFunctionOnSet(f, S) + f[y]
<1>1. IsFiniteSet(S \cup {y}) BY FS_AddElement
<1>2. (S \cup {y}) \ {y} = S OBVIOUS
<1>3. SumFunctionOnSet(f, S) \in Int BY SumInt
<1>4. SumFunctionOnSet(f, S \cup {y}) = f[y] + SumFunctionOnSet(f, (S \cup {y}) \ {y})
  BY <1>1, SumTake
<1>5. SumFunctionOnSet(f, (S \cup {y}) \ {y}) = SumFunctionOnSet(f, S) BY <1>2
<1>6. f[y] + SumFunctionOnSet(f, S) = SumFunctionOnSet(f, S) + f[y] BY <1>3
<1> QED BY <1>4, <1>5, <1>6

\* The sum over one element is its value.
LEMMA SumOne ==
  ASSUME NEW f, NEW y, f[y] \in Int
  PROVE  SumFunctionOnSet(f, {y}) = f[y]
<1>1. IsFiniteSet({y}) BY FS_Singleton
<1>2. SumFunctionOnSet(f, {y}) = f[y] + SumFunctionOnSet(f, {y} \ {y})
  BY <1>1, SumTake
<1>3. {y} \ {y} = {} OBVIOUS
<1>4. SumFunctionOnSet(f, {y} \ {y}) = 0 BY <1>3, SumEmpty
<1> QED BY <1>2, <1>4

\* Functions that agree on a set have the same sum over it.
LEMMA SumSame ==
  ASSUME NEW f, NEW g, NEW S, IsFiniteSet(S), \A x \in S : f[x] = g[x]
  PROVE  SumFunctionOnSet(f, S) = SumFunctionOnSet(g, S)
<1> DEFINE F == {T \in SUBSET S : SumFunctionOnSet(f, T) = SumFunctionOnSet(g, T)}
<1>1. ASSUME NEW T \in SUBSET S, \A x \in T : T \ {x} \in F
      PROVE  SumFunctionOnSet(f, T) = SumFunctionOnSet(g, T)
  <2>1. IsFiniteSet(T) BY FS_Subset
  <2>2. CASE T = {} BY <2>2, SumEmpty
  <2>3. CASE T # {}
    <3>1. FirstOf(T) \in T BY <2>1, <2>3, FirstOfSet
    <3>2. SumFunctionOnSet(f, RestOf(T)) = SumFunctionOnSet(g, RestOf(T))
      BY <1>1, <3>1 DEF RestOf
    <3> QED BY <2>1, <2>3, <3>1, <3>2, SumUnfold
  <2> QED BY <2>2, <2>3
<1>2. \A T \in SUBSET S : (\A x \in T : T \ {x} \in F) => T \in F BY <1>1
<1> HIDE DEF F
<1>3. S \in F BY <1>2, FiniteInduction
<1> QED BY <1>3 DEF F

\* A sum of nothings is nothing.
LEMMA SumZero ==
  ASSUME NEW f, NEW S, IsFiniteSet(S), \A x \in S : f[x] = 0
  PROVE  SumFunctionOnSet(f, S) = 0
<1> DEFINE F == {T \in SUBSET S : SumFunctionOnSet(f, T) = 0}
<1>1. ASSUME NEW T \in SUBSET S, \A x \in T : T \ {x} \in F
      PROVE  SumFunctionOnSet(f, T) = 0
  <2>1. IsFiniteSet(T) BY FS_Subset
  <2>2. CASE T = {} BY <2>2, SumEmpty
  <2>3. CASE T # {}
    <3>1. FirstOf(T) \in T BY <2>1, <2>3, FirstOfSet
    <3>2. SumFunctionOnSet(f, RestOf(T)) = 0 BY <1>1, <3>1 DEF RestOf
    <3>3. f[FirstOf(T)] = 0 BY <3>1
    <3> QED BY <2>1, <2>3, <3>2, <3>3, SumUnfold
  <2> QED BY <2>2, <2>3
<1>2. \A T \in SUBSET S : (\A x \in T : T \ {x} \in F) => T \in F BY <1>1
<1> HIDE DEF F
<1>3. S \in F BY <1>2, FiniteInduction
<1> QED BY <1>3 DEF F

\* A sum of naturals over S is at least the sum of smaller values over part of S.
LEMMA SumMonotone ==
  ASSUME NEW f, NEW g, NEW S, IsFiniteSet(S), NEW T \in SUBSET S,
         \A x \in S : g[x] \in Nat, \A x \in T : f[x] \in Int /\ f[x] <= g[x]
  PROVE  SumFunctionOnSet(f, T) <= SumFunctionOnSet(g, S)
<1> DEFINE F == {U \in SUBSET S : SumFunctionOnSet(f, U \cap T) <= SumFunctionOnSet(g, U)}
<1>1. ASSUME NEW U \in SUBSET S, \A x \in U : U \ {x} \in F
      PROVE  SumFunctionOnSet(f, U \cap T) <= SumFunctionOnSet(g, U)
  <2>1. IsFiniteSet(U) /\ IsFiniteSet(U \cap T) BY FS_Subset
  <2>2. CASE U = {} 
    <3>1. U \cap T = {} BY <2>2
    <3>2. SumFunctionOnSet(f, U \cap T) = 0 BY <3>1, SumEmpty
    <3>3. SumFunctionOnSet(g, U) = 0 BY <2>2, SumEmpty
    <3> QED BY <3>2, <3>3
  <2>3. CASE U # {}
    <3>1. PICK x : x \in U BY <2>3
    <3> DEFINE V == U \ {x}
    <3>2. SumFunctionOnSet(f, V \cap T) <= SumFunctionOnSet(g, V) BY <1>1, <3>1
    <3>3. IsFiniteSet(V) /\ IsFiniteSet(V \cap T) BY <2>1, FS_Subset
    <3>4. SumFunctionOnSet(f, V \cap T) \in Int /\ SumFunctionOnSet(g, V) \in Int
      BY <3>3, SumInt
    <3>5. SumFunctionOnSet(g, U) = g[x] + SumFunctionOnSet(g, V) BY <2>1, <3>1, SumTake
    <3>6. CASE x \in T
      <4>1. SumFunctionOnSet(f, U \cap T) = f[x] + SumFunctionOnSet(f, (U \cap T) \ {x})
        BY <2>1, <3>1, <3>6, SumTake
      <4>2. SumFunctionOnSet(f, (U \cap T) \ {x}) = SumFunctionOnSet(f, V \cap T)
        <5>1. (U \cap T) \ {x} = V \cap T OBVIOUS
        <5> QED BY <5>1
      <4>3. f[x] \in Int /\ g[x] \in Nat /\ f[x] <= g[x] BY <3>6
      <4> HIDE DEF V
      <4>4. f[x] + SumFunctionOnSet(f, V \cap T) <= g[x] + SumFunctionOnSet(g, V)
        BY <3>2, <3>4, <4>3
      <4> QED BY <3>5, <4>1, <4>2, <4>4 DEF V
    <3>7. CASE x \notin T
      <4>1. SumFunctionOnSet(f, U \cap T) = SumFunctionOnSet(f, V \cap T)
        <5>1. U \cap T = V \cap T BY <3>7
        <5> QED BY <5>1
      <4>2. g[x] \in Nat BY <3>1
      <4> HIDE DEF V
      <4>3. SumFunctionOnSet(f, V \cap T) <= g[x] + SumFunctionOnSet(g, V)
        BY <3>2, <3>4, <4>2
      <4> QED BY <3>5, <4>1, <4>3 DEF V
    <3> QED BY <3>6, <3>7
  <2> QED BY <2>2, <2>3
<1>2. \A U \in SUBSET S : (\A x \in U : U \ {x} \in F) => U \in F BY <1>1
<1> HIDE DEF F
<1>3. S \in F BY <1>2, FiniteInduction
<1>4. S \cap T = T OBVIOUS
<1> QED BY <1>3, <1>4 DEF F

\* f has integer values on the finite set S; y adds Worth(f, S, y) to its sum
\* there; f on S and g on T are the same but for y.
Summable(f, S) == IsFiniteSet(S) /\ \A x \in S : f[x] \in Int
Worth(f, S, y) == IF y \in S THEN f[y] ELSE 0
SameBut(y, f, S, g, T) == S \ {y} = T \ {y} /\ \A x \in S \ {y} : g[x] = f[x]

\* Taking an element out, whether it is there or not.
LEMMA SumWithout ==
  ASSUME NEW f, NEW S, Summable(f, S), NEW y
  PROVE  /\ SumFunctionOnSet(f, S \ {y}) \in Int
         /\ SumFunctionOnSet(f, S) = SumFunctionOnSet(f, S \ {y}) + Worth(f, S, y)
<1> USE DEF Summable, Worth
<1>1. IsFiniteSet(S \ {y}) BY FS_Subset
<1>2. PICK r \in Int : r = SumFunctionOnSet(f, S \ {y}) BY <1>1, SumInt
<1>3. CASE y \in S
  <2>1. SumFunctionOnSet(f, S) = f[y] + r BY <1>2, <1>3, SumTake
  <2>2. f[y] + r = r + f[y] BY <1>2, <1>3
  <2> QED BY <1>2, <1>3, <2>1, <2>2
<1>4. CASE y \notin S
  <2>1. S \ {y} = S BY <1>4
  <2>2. SumFunctionOnSet(f, S) = r BY <1>2, <2>1
  <2> QED BY <1>2, <1>4, <2>2
<1> QED BY <1>3, <1>4

\* Two sums that are the same but for one element differ by what it is worth.
LEMMA SumChange ==
  ASSUME NEW f, NEW g, NEW S, NEW T, NEW y,
         Summable(f, S), Summable(g, T), SameBut(y, f, S, g, T)
  PROVE  /\ SumFunctionOnSet(f, S) \in Int
         /\ Worth(f, S, y) \in Int /\ Worth(g, T, y) \in Int
         /\ SumFunctionOnSet(g, T) =
              SumFunctionOnSet(f, S) - Worth(f, S, y) + Worth(g, T, y)
<1> USE DEF Summable, Worth, SameBut
<1>1. PICK r \in Int : r = SumFunctionOnSet(f, S \ {y}) BY SumWithout
<1>2. PICK before \in Int : before = Worth(f, S, y) OBVIOUS
<1>3. PICK after \in Int : after = Worth(g, T, y) OBVIOUS
<1>4. SumFunctionOnSet(f, S) = r + before BY <1>1, <1>2, SumWithout
<1>5. SumFunctionOnSet(g, T) = SumFunctionOnSet(g, T \ {y}) + after
  BY <1>3, SumWithout
<1>6. SumFunctionOnSet(g, T \ {y}) = r
  <2>1. IsFiniteSet(S \ {y}) BY FS_Subset
  <2>2. SumFunctionOnSet(f, S \ {y}) = SumFunctionOnSet(g, S \ {y}) BY <2>1, SumSame
  <2>3. SumFunctionOnSet(g, S \ {y}) = SumFunctionOnSet(g, T \ {y}) OBVIOUS
  <2> QED BY <1>1, <2>2, <2>3
<1>7. /\ SumFunctionOnSet(f, S) \in Int
      /\ SumFunctionOnSet(g, T) = SumFunctionOnSet(f, S) - before + after
  BY <1>4, <1>5, <1>6
<1> QED BY <1>2, <1>3, <1>7

-----------------------------------------------------------------------------
(* The balance is what the rows say.                                       *)

TypedTable(table) == /\ IsFiniteSet(DOMAIN table)
                     /\ \A t \in DOMAIN table : table[t] \in TxRow

\* One row is written, updated or neither.
OneRow(table, new, t) == /\ DOMAIN new \ {t} = DOMAIN table \ {t}
                         /\ \A u \in DOMAIN new \ {t} : new[u] = table[u]

\* What row t has added to the balance of app a.
Share(table, t, a) ==
  IF t \in DOMAIN table /\ table[t].app = a THEN Effect(table[t]) ELSE 0

\* The tables StoreTypeOK speaks of are finite.
LEMMA TypedTables ==
  ASSUME NEW table, NEW last \in 0..MaxTx, DOMAIN table \subseteq 1..last,
         table \in [DOMAIN table -> TxRow]
  PROVE  TypedTable(table)
<1>1. last \in Int BY StoreAssumption
<1>2. IsFiniteSet(1..last) BY <1>1, FS_Interval
<1>3. IsFiniteSet(DOMAIN table) BY <1>2, FS_Subset
<1> QED BY <1>3 DEF TypedTable

\* What a row adds is an integer.
LEMMA EffectType ==
  ASSUME NEW row \in TxRow
  PROVE  Effect(row) \in Int
BY DEF Effect, TxRow, BudgetUse

\* When one row changes, each app's sum changes by that row's share.
LEMMA OneRowChanges ==
  ASSUME NEW table, NEW new, NEW t, TypedTable(table), TypedTable(new),
         OneRow(table, new, t), NEW a
  PROVE  /\ RowsSum(table, a) \in Int
         /\ Share(table, t, a) \in Int /\ Share(new, t, a) \in Int
         /\ RowsSum(new, a) = RowsSum(table, a) - Share(table, t, a) + Share(new, t, a)
<1> DEFINE S == AppRows(table, a)
           T == AppRows(new, a)
           f == Effects(table)
           g == Effects(new)
<1>1. Summable(f, S) BY EffectType, FS_Subset DEF AppRows, Effects, TypedTable, Summable
<1>2. Summable(g, T) BY EffectType, FS_Subset DEF AppRows, Effects, TypedTable, Summable
<1>3. SameBut(t, f, S, g, T) BY DEF OneRow, AppRows, Effects, SameBut
<1>4. Share(table, t, a) = Worth(f, S, t) /\ Share(new, t, a) = Worth(g, T, t)
  BY DEF Share, AppRows, Effects, Worth
<1> QED BY <1>1, <1>2, <1>3, <1>4, SumChange DEF RowsSum

\* A step that changes one row keeps the books if every balance moves by that
\* row's share.
LEMMA OneRowBooked ==
  ASSUME StoreTypeOK, StoreTypeOK', BalanceMatchesRows, NEW t, OneRow(txs, txs', t),
         DOMAIN apps' = DOMAIN apps,
         \A a \in DOMAIN apps :
           apps'[a].balance = apps[a].balance - Share(txs, t, a) + Share(txs', t, a)
  PROVE  BalanceMatchesRows'
<1>1. TypedTable(txs) /\ TypedTable(txs') BY TypedTables DEF StoreTypeOK
<1> SUFFICES ASSUME NEW a \in DOMAIN apps PROVE apps'[a].balance = RowsSum(txs', a)
  BY DEF BalanceMatchesRows
<1>2. RowsSum(txs', a) = RowsSum(txs, a) - Share(txs, t, a) + Share(txs', t, a)
  BY <1>1, OneRowChanges
<1> QED BY <1>2 DEF BalanceMatchesRows

\* So does one that changes two, by way of the table with one of them changed.
LEMMA TwoRowsBooked ==
  ASSUME StoreTypeOK, StoreTypeOK', BalanceMatchesRows,
         NEW t, NEW mid, NEW u, TypedTable(mid), OneRow(txs, mid, t), OneRow(mid, txs', u),
         DOMAIN apps' = DOMAIN apps,
         \A a \in DOMAIN apps :
           apps'[a].balance = apps[a].balance - Share(txs, t, a) + Share(mid, t, a)
                                - Share(mid, u, a) + Share(txs', u, a)
  PROVE  BalanceMatchesRows'
<1>1. TypedTable(txs) /\ TypedTable(txs') BY TypedTables DEF StoreTypeOK
<1> SUFFICES ASSUME NEW a \in DOMAIN apps PROVE apps'[a].balance = RowsSum(txs', a)
  BY DEF BalanceMatchesRows
<1>2. /\ RowsSum(mid, a) = RowsSum(txs, a) - Share(txs, t, a) + Share(mid, t, a)
      /\ RowsSum(mid, a) \in Int /\ RowsSum(txs, a) \in Int
      /\ Share(txs, t, a) \in Int /\ Share(mid, t, a) \in Int
  BY <1>1, OneRowChanges
<1>3. /\ RowsSum(txs', a) = RowsSum(mid, a) - Share(mid, u, a) + Share(txs', u, a)
      /\ Share(mid, u, a) \in Int /\ Share(txs', u, a) \in Int
  BY <1>1, OneRowChanges
<1> QED BY <1>2, <1>3 DEF BalanceMatchesRows

\* What a credit, a debit and a move do to the balances and the limits.
OnlyFor(a, b, x) == IF a = b THEN x ELSE 0

LEMMA CreditBalances ==
  ASSUME StoreTypeOK, NEW a \in DOMAIN apps, NEW x \in Nat, apps' = Credit(a, x)
  PROVE  /\ DOMAIN apps' = DOMAIN apps
         /\ \A c \in DOMAIN apps : /\ apps'[c].balance = apps[c].balance + OnlyFor(c, a, x)
                                   /\ apps'[c].limit = apps[c].limit
BY DEF StoreTypeOK, Credit, AppRow, OnlyFor

LEMMA DebitBalances ==
  ASSUME StoreTypeOK, NEW a \in DOMAIN apps, NEW x \in Nat, apps' = Debit(a, x)
  PROVE  /\ DOMAIN apps' = DOMAIN apps
         /\ \A c \in DOMAIN apps : /\ apps'[c].balance = apps[c].balance - OnlyFor(c, a, x)
                                   /\ apps'[c].limit = apps[c].limit
BY DEF StoreTypeOK, Debit, AppRow, OnlyFor

LEMMA MoveBalances ==
  ASSUME StoreTypeOK, NEW a \in DOMAIN apps, NEW b \in DOMAIN apps, NEW x \in Nat,
         apps' = Move(a, b, x)
  PROVE  /\ DOMAIN apps' = DOMAIN apps
         /\ \A c \in DOMAIN apps :
              /\ apps'[c].balance = apps[c].balance - OnlyFor(c, a, x) + OnlyFor(c, b, x)
              /\ apps'[c].limit = apps[c].limit
<1>1. PICK d : d = Debit(a, x) OBVIOUS
<1>2. /\ d \in [DOMAIN apps -> [balance : Int, limit : Nat]]
      /\ \A c \in DOMAIN apps : /\ d[c].balance = apps[c].balance - OnlyFor(c, a, x)
                                /\ d[c].limit = apps[c].limit
  BY <1>1 DEF StoreTypeOK, Debit, AppRow, OnlyFor
<1>3. apps' = [d EXCEPT ![b].balance = @ + x] BY <1>1 DEF Move
<1>4. /\ DOMAIN apps' = DOMAIN apps
      /\ \A c \in DOMAIN apps : /\ apps'[c].balance = d[c].balance + OnlyFor(c, b, x)
                                /\ apps'[c].limit = d[c].limit
  BY <1>2, <1>3 DEF OnlyFor
<1> QED BY <1>2, <1>4

\* What the row that a method writes is worth to its app.
LEMMA RowEffect ==
  ASSUME NEW a, NEW amt \in Nat, NEW reserve \in Nat, NEW h
  PROVE  /\ \A type, state : Row(a, type, state, amt, reserve, h).app = a
         /\ \A type, state : Row(a, type, state, amt, 0, h).app = a
         /\ Effect(Row(a, "incoming", "settled", amt, 0, h)) = amt
         /\ Effect(Row(a, "incoming", "pending", amt, 0, h)) = 0
         /\ Effect(Row(a, "outgoing", "settled", amt, 0, h)) = -amt
         /\ Effect(Row(a, "outgoing", "pending", amt, reserve, h)) = -(amt + reserve)
BY DEF Effect, Row, BudgetUse

\* A method that writes one row keeps the books if the balance of the row's app
\* moves by the row's effect.
LEMMA InsertBooked ==
  ASSUME StoreTypeOK, StoreTypeOK', BalanceMatchesRows, NEW row, InsertTx(row),
         DOMAIN apps' = DOMAIN apps,
         \A c \in DOMAIN apps :
           apps'[c].balance = apps[c].balance + OnlyFor(c, row.app, Effect(row))
  PROVE  BalanceMatchesRows'
<1>1. PICK t : t = lastTx + 1 OBVIOUS
<1>2. /\ t \notin DOMAIN txs /\ DOMAIN txs' = DOMAIN txs \cup {t} /\ txs'[t] = row
      /\ \A u \in DOMAIN txs : txs'[u] = txs[u]
  BY <1>1, InsertRow
<1>3. OneRow(txs, txs', t) BY <1>2 DEF OneRow
<1>4. \A c : Share(txs, t, c) = 0 /\ Share(txs', t, c) = OnlyFor(c, row.app, Effect(row))
  BY <1>2 DEF Share, OnlyFor
<1>5. \A c \in DOMAIN apps : apps[c].balance \in Int /\ Share(txs', t, c) \in Int
  <2>1. row \in TxRow BY <1>2 DEF StoreTypeOK
  <2>2. Effect(row) \in Int BY <2>1, EffectType
  <2> QED BY <1>4, <2>2 DEF StoreTypeOK, AppRow, OnlyFor
<1>6. \A c \in DOMAIN apps :
        apps'[c].balance = apps[c].balance - Share(txs, t, c) + Share(txs', t, c)
  BY <1>4, <1>5
<1> QED BY <1>3, <1>6, OneRowBooked

\* One that updates a row keeps them if the balance of its app moves by as much
\* as the row's effect.
LEMMA UpdateBooked ==
  ASSUME StoreTypeOK, StoreTypeOK', BalanceMatchesRows, NEW t \in DOMAIN txs, NEW row,
         row.app = txs[t].app, txs' = [txs EXCEPT ![t] = row],
         DOMAIN apps' = DOMAIN apps, NEW x \in Int, Effect(row) = Effect(txs[t]) + x,
         \A c \in DOMAIN apps : apps'[c].balance = apps[c].balance + OnlyFor(c, row.app, x)
  PROVE  BalanceMatchesRows'
<1>1. /\ DOMAIN txs' = DOMAIN txs /\ txs'[t] = row
      /\ \A u \in DOMAIN txs \ {t} : txs'[u] = txs[u]
  OBVIOUS
<1>2. OneRow(txs, txs', t) BY <1>1 DEF OneRow
<1>3. PICK e \in Int : e = Effect(txs[t])
  <2>1. txs[t] \in TxRow BY DEF StoreTypeOK
  <2> QED BY <2>1, EffectType
<1>4. \A c : /\ Share(txs, t, c) = OnlyFor(c, row.app, e)
             /\ Share(txs', t, c) = OnlyFor(c, row.app, e + x)
  BY <1>1, <1>3 DEF Share, OnlyFor
<1>5. \A c \in DOMAIN apps : apps[c].balance \in Int BY DEF StoreTypeOK, AppRow
<1>6. \A c \in DOMAIN apps :
        apps'[c].balance = apps[c].balance - Share(txs, t, c) + Share(txs', t, c)
  <2> SUFFICES ASSUME NEW c \in DOMAIN apps
               PROVE  apps[c].balance + OnlyFor(c, row.app, x) =
                        apps[c].balance - OnlyFor(c, row.app, e)
                          + OnlyFor(c, row.app, e + x)
    BY <1>4
  <2> QED BY <1>3, <1>5 DEF OnlyFor
<1> QED BY <1>2, <1>6, OneRowBooked

\* A new wallet, whatever its limit, has no rows and no money.
LEMMA CreateBooked ==
  ASSUME StoreTypeOK, BalanceMatchesRows, NEW limit, CreateApp(limit)
  PROVE  BalanceMatchesRows'
<1>0. /\ DOMAIN apps \subseteq 1..lastApp /\ lastApp \in Nat
      /\ \A t \in DOMAIN txs : txs[t].app \in DOMAIN apps
  BY StoreAssumption DEF StoreTypeOK
<1>1. /\ DOMAIN apps' = DOMAIN apps \cup {lastApp + 1} /\ txs' = txs
      /\ apps'[lastApp + 1].balance = 0
      /\ \A a \in DOMAIN apps : apps'[a] = apps[a]
  BY <1>0 DEF CreateApp, Inserted
<1>2. AppRows(txs, lastApp + 1) = {} BY <1>0 DEF AppRows
<1>3. RowsSum(txs, lastApp + 1) = 0 BY <1>2, SumEmpty DEF RowsSum
<1> QED BY <1>1, <1>3 DEF BalanceMatchesRows

\* The operator's transfers from and to the node keep the books, whatever the
\* amount.
LEMMA FundBooked ==
  ASSUME StoreTypeOK, StoreTypeOK', BalanceMatchesRows, NEW a, NEW amt \in Nat,
         FundFromNode(a, amt)
  PROVE  BalanceMatchesRows'
<1> DEFINE row == Row(a, "incoming", "settled", amt, 0, NoHash)
<1>1. row.app = a /\ Effect(row) = amt BY RowEffect
<1>2. InsertTx(row) /\ a \in DOMAIN apps /\ apps' = Credit(a, amt) BY DEF FundFromNode
<1> HIDE DEF row
<1> QED BY <1>1, <1>2, CreditBalances, InsertBooked

LEMMA DrainBooked ==
  ASSUME StoreTypeOK, StoreTypeOK', BalanceMatchesRows, NEW a, NEW amt \in Nat,
         DrainToNode(a, amt)
  PROVE  BalanceMatchesRows'
<1> DEFINE row == Row(a, "outgoing", "settled", amt, 0, NoHash)
<1>1. row.app = a /\ Effect(row) = -amt BY RowEffect
<1>2. InsertTx(row) /\ a \in DOMAIN apps /\ apps' = Debit(a, amt) BY DEF DrainToNode
<1> HIDE DEF row
<1>3. /\ DOMAIN apps' = DOMAIN apps
      /\ \A c \in DOMAIN apps : apps'[c].balance = apps[c].balance - OnlyFor(c, a, amt)
  BY <1>2, DebitBalances
<1>4. \A c \in DOMAIN apps : apps[c].balance \in Int BY DEF StoreTypeOK, AppRow
<1>5. \A c \in DOMAIN apps : apps'[c].balance = apps[c].balance + OnlyFor(c, a, -amt)
  BY <1>3, <1>4 DEF OnlyFor
<1> QED BY <1>1, <1>2, <1>3, <1>5, InsertBooked

\* Every method keeps the books.
LEMMA BalanceStep ==
  ASSUME StoreTypeOK, StoreTypeOK', BalanceMatchesRows, [StoreNext]_storeVars
  PROVE  BalanceMatchesRows'
<1> USE StoreAssumption
<1>0. /\ apps \in [DOMAIN apps -> AppRow] /\ DOMAIN apps \subseteq 1..lastApp
      /\ txs \in [DOMAIN txs -> TxRow] /\ DOMAIN txs \subseteq 1..lastTx
      /\ \A t \in DOMAIN txs : txs[t].app \in DOMAIN apps
      /\ lastApp \in Nat /\ lastTx \in Nat /\ Amount \subseteq Nat
      /\ \A a \in DOMAIN apps : apps[a].balance \in Int
  BY DEF StoreTypeOK, AppRow
<1>1. CASE UNCHANGED storeVars BY <1>1 DEF storeVars, BalanceMatchesRows
<1>2. ASSUME NEW limit \in Limit, CreateApp(limit) PROVE BalanceMatchesRows'
  BY <1>2, CreateBooked
<1>3. ASSUME NEW b \in AppId, DeleteApp(b) PROVE BalanceMatchesRows'
  <2>1. /\ DOMAIN apps' = DOMAIN apps \ {b}
        /\ \A a \in DOMAIN apps' : apps'[a] = apps[a]
    BY <1>3 DEF DeleteApp, Restrict
  <2>2. /\ DOMAIN txs' = {t \in DOMAIN txs : txs[t].app # b}
        /\ \A t \in DOMAIN txs' : txs'[t] = txs[t]
    BY <1>3, DeletedRows
  <2>3. ASSUME NEW a \in DOMAIN apps' PROVE RowsSum(txs', a) = RowsSum(txs, a)
    <3>1. AppRows(txs', a) = AppRows(txs, a) BY <2>1, <2>2 DEF AppRows
    <3>2. \A t \in AppRows(txs, a) : Effects(txs)[t] = Effects(txs')[t]
      BY <2>2, <3>1 DEF AppRows, Effects
    <3>3. IsFiniteSet(AppRows(txs, a))
      BY TypedTables, FS_Subset DEF StoreTypeOK, TypedTable, AppRows
    <3>4. SumFunctionOnSet(Effects(txs), AppRows(txs, a)) =
            SumFunctionOnSet(Effects(txs'), AppRows(txs, a))
      BY <3>2, <3>3, SumSame
    <3> QED BY <3>1, <3>4 DEF RowsSum
  <2> QED BY <2>1, <2>3 DEF BalanceMatchesRows
<1>4. ASSUME NEW a \in AppId, NEW amt \in Amount, FundFromNode(a, amt)
      PROVE BalanceMatchesRows'
  BY <1>0, <1>4, FundBooked
<1>5. ASSUME NEW a \in AppId, NEW amt \in Amount, DrainToNode(a, amt)
      PROVE BalanceMatchesRows'
  BY <1>0, <1>5, DrainBooked
<1>6. ASSUME NEW a \in AppId, NEW b \in AppId, NEW amt \in Amount,
             TransferBetween(a, b, amt)
      PROVE BalanceMatchesRows'
  <2> DEFINE out == Row(a, "outgoing", "settled", amt, 0, NoHash)
             inc == Row(b, "incoming", "settled", amt, 0, NoHash)
  <2>1. /\ out.app = a /\ Effect(out) = -amt /\ out \in TxRow
        /\ inc.app = b /\ Effect(inc) = amt
    BY RowEffect, RowType DEF GoodRow
  <2>2. PICK t : t = lastTx + 1 OBVIOUS
  <2>3. PICK u : u = lastTx + 2 OBVIOUS
  <2>4. PICK mid : mid = Inserted(txs, t, out) OBVIOUS
  <2>5. /\ a \in DOMAIN apps /\ b \in DOMAIN apps /\ apps' = Move(a, b, amt)
        /\ lastTx + 2 <= MaxTx
        /\ txs' = Inserted(mid, u, inc)
    BY <1>6, <2>2, <2>3, <2>4 DEF TransferBetween
  <2> HIDE DEF out, inc
  <2>6. t \notin DOMAIN txs /\ u \notin DOMAIN txs /\ t # u BY <1>0, <2>2, <2>3
  <2>7. /\ DOMAIN mid = DOMAIN txs \cup {t} /\ mid[t] = out
        /\ \A k \in DOMAIN txs : mid[k] = txs[k]
    BY <2>4, <2>6 DEF Inserted
  <2>8. /\ DOMAIN txs' = DOMAIN mid \cup {u} /\ txs'[u] = inc /\ u \notin DOMAIN mid
        /\ \A k \in DOMAIN mid : txs'[k] = mid[k]
    BY <2>5, <2>6, <2>7 DEF Inserted
  <2>9. OneRow(txs, mid, t) /\ OneRow(mid, txs', u) BY <2>7, <2>8 DEF OneRow
  <2>10. TypedTable(mid)
    <3>1. DOMAIN mid \subseteq 1..(lastTx + 2) /\ lastTx + 2 \in 0..MaxTx
      BY <1>0, <2>2, <2>5, <2>7
    <3>2. mid \in [DOMAIN mid -> TxRow] BY <1>0, <2>1, <2>4, <2>7 DEF Inserted
    <3> QED BY <3>1, <3>2, TypedTables
  <2>11. \A c : /\ Share(txs, t, c) = 0 /\ Share(mid, t, c) = OnlyFor(c, a, -amt)
                /\ Share(mid, u, c) = 0 /\ Share(txs', u, c) = OnlyFor(c, b, amt)
    BY <2>1, <2>6, <2>7, <2>8 DEF Share, OnlyFor
  <2>12. /\ DOMAIN apps' = DOMAIN apps
         /\ \A c \in DOMAIN apps :
              apps'[c].balance = apps[c].balance - OnlyFor(c, a, amt) + OnlyFor(c, b, amt)
    BY <2>5, MoveBalances
  <2>13. \A c \in DOMAIN apps :
           apps'[c].balance =
             apps[c].balance - 0 + OnlyFor(c, a, -amt) - 0 + OnlyFor(c, b, amt)
    BY <1>0, <2>12 DEF OnlyFor
  <2> QED BY <2>9, <2>10, <2>11, <2>12, <2>13, TwoRowsBooked
<1>7. ASSUME NEW a \in AppId, NEW h \in Hash, NEW amt \in Amount,
             RecordIncomingInvoice(a, h, amt)
      PROVE BalanceMatchesRows'
  <2> DEFINE row == Row(a, "incoming", "pending", amt, 0, h)
  <2>1. Effect(row) = 0 BY RowEffect
  <2>2. InsertTx(row) /\ apps' = apps BY <1>7 DEF RecordIncomingInvoice
  <2> HIDE DEF row
  <2>3. \A c \in DOMAIN apps : apps'[c].balance = apps[c].balance + OnlyFor(c, row.app, 0)
    BY <1>0, <2>2 DEF OnlyFor
  <2> QED BY <2>1, <2>2, <2>3, InsertBooked
<1>8. ASSUME NEW h \in Hash, NEW amt \in Amount, SettleIncoming(h, amt)
      PROVE BalanceMatchesRows'
  <2>1. PICK t \in DOMAIN txs :
          /\ txs[t].type = "incoming" /\ txs[t].state # "settled"
          /\ apps' = Credit(txs[t].app, amt)
          /\ txs' = [txs EXCEPT ![t].state = "settled", ![t].amount = amt]
    BY <1>8 DEF SettleIncoming, Newest, Incoming
  <2> DEFINE row == [txs[t] EXCEPT !.state = "settled", !.amount = amt]
  <2>2. txs[t] \in TxRow /\ txs[t].app \in DOMAIN apps BY <1>0
  <2>3. row.app = txs[t].app /\ Effect(row) = amt /\ Effect(txs[t]) = 0
    BY <2>1, <2>2 DEF Effect, TxRow
  <2>4. txs' = [txs EXCEPT ![t] = row] BY <2>1
  <2> HIDE DEF row
  <2>5. Effect(row) = Effect(txs[t]) + amt /\ amt \in Int BY <2>3
  <2>6. /\ DOMAIN apps' = DOMAIN apps
        /\ \A c \in DOMAIN apps :
             apps'[c].balance = apps[c].balance + OnlyFor(c, row.app, amt)
    BY <2>1, <2>2, <2>3, CreditBalances
  <2> QED BY <2>3, <2>4, <2>5, <2>6, UpdateBooked
<1>9. ASSUME NEW a \in AppId, NEW h \in Hash, NEW amt \in Amount,
             SettleInternally(a, amt, h)
      PROVE BalanceMatchesRows'
  <2>1. PICK t \in DOMAIN txs :
          /\ txs[t].type = "incoming" /\ txs[t].state = "pending"
          /\ apps' = Move(a, txs[t].app, amt)
          /\ lastTx < MaxTx
          /\ txs' = Inserted([txs EXCEPT ![t].state = "settled", ![t].amount = amt],
                             lastTx + 1, Row(a, "outgoing", "settled", amt, 0, h))
    BY <1>9 DEF SettleInternally, Newest, PendingIncoming, Incoming
  <2> DEFINE out == Row(a, "outgoing", "settled", amt, 0, h)
             row == [txs[t] EXCEPT !.state = "settled", !.amount = amt]
  <2>2. PICK b \in DOMAIN apps : b = txs[t].app BY <1>0
  <2>3. out.app = a /\ Effect(out) = -amt BY RowEffect
  <2>4. txs[t] \in TxRow /\ a \in DOMAIN apps BY <1>0, <1>9 DEF SettleInternally
  <2>5. row.app = b /\ Effect(row) = amt /\ Effect(txs[t]) = 0 /\ row \in TxRow
    BY <2>1, <2>2, <2>4 DEF Effect, TxRow
  <2>6. PICK u : u = lastTx + 1 OBVIOUS
  <2>7. PICK mid : mid = [txs EXCEPT ![t] = row] OBVIOUS
  <2>8. txs' = Inserted(mid, u, out) BY <2>1, <2>6, <2>7
  <2> HIDE DEF out, row
  <2>9. /\ DOMAIN mid = DOMAIN txs /\ mid[t] = row
        /\ \A k \in DOMAIN txs \ {t} : mid[k] = txs[k]
        /\ u \notin DOMAIN txs
    BY <1>0, <2>6, <2>7
  <2>10. /\ DOMAIN txs' = DOMAIN mid \cup {u} /\ txs'[u] = out
         /\ \A k \in DOMAIN mid : txs'[k] = mid[k]
    BY <2>8, <2>9 DEF Inserted
  <2>11. OneRow(txs, mid, t) /\ OneRow(mid, txs', u) BY <2>9, <2>10 DEF OneRow
  <2>12. TypedTable(mid)
    <3>1. mid \in [DOMAIN mid -> TxRow] /\ DOMAIN mid \subseteq 1..lastTx
      BY <1>0, <2>5, <2>7, <2>9
    <3>2. lastTx \in 0..MaxTx BY DEF StoreTypeOK
    <3> QED BY <3>1, <3>2, TypedTables
  <2>13. \A c : /\ Share(txs, t, c) = 0 /\ Share(mid, t, c) = OnlyFor(c, b, amt)
                /\ Share(mid, u, c) = 0 /\ Share(txs', u, c) = OnlyFor(c, a, -amt)
    BY <2>2, <2>3, <2>5, <2>9, <2>10 DEF Share, OnlyFor
  <2>14. /\ DOMAIN apps' = DOMAIN apps
         /\ \A c \in DOMAIN apps :
              apps'[c].balance = apps[c].balance - OnlyFor(c, a, amt) + OnlyFor(c, b, amt)
    BY <2>1, <2>2, <2>4, MoveBalances
  <2>15. \A c \in DOMAIN apps :
           apps'[c].balance =
             apps[c].balance - 0 + OnlyFor(c, b, amt) - 0 + OnlyFor(c, a, -amt)
    BY <1>0, <2>14 DEF OnlyFor
  <2> QED BY <2>11, <2>12, <2>13, <2>14, <2>15, TwoRowsBooked
<1>10. ASSUME NEW a \in AppId, NEW h \in Hash, NEW amt \in Amount,
              ReserveExternal(a, amt, FeeReserve(amt), h)
       PROVE BalanceMatchesRows'
  <2>1. PICK reserve \in Nat : ReserveExternal(a, amt, reserve, h)
    BY <1>10, FeeReserveNat
  <2> DEFINE row == Row(a, "outgoing", "pending", amt, reserve, h)
  <2>2. PICK x \in Nat : x = amt + reserve OBVIOUS
  <2>3. row.app = a /\ Effect(row) = -x BY <2>2, RowEffect
  <2>4. InsertTx(row) /\ a \in DOMAIN apps /\ apps' = Debit(a, x)
    BY <2>1, <2>2 DEF ReserveExternal
  <2> HIDE DEF row
  <2>5. /\ DOMAIN apps' = DOMAIN apps
        /\ \A c \in DOMAIN apps : apps'[c].balance = apps[c].balance - OnlyFor(c, a, x)
    BY <2>4, DebitBalances
  <2>6. \A c \in DOMAIN apps : apps'[c].balance = apps[c].balance + OnlyFor(c, a, -x)
    BY <1>0, <2>5 DEF OnlyFor
  <2> QED BY <2>3, <2>4, <2>5, <2>6, InsertBooked
<1>11. ASSUME NEW t \in PendingOutgoing, NEW row, row.app = txs[t].app,
              txs' = [txs EXCEPT ![t] = row], NEW back \in Nat,
              apps' = Credit(txs[t].app, back),
              Effect(row) = Effect(txs[t]) + back
       PROVE BalanceMatchesRows'
  <2>1. t \in DOMAIN txs /\ txs[t].app \in DOMAIN apps BY <1>0 DEF PendingOutgoing
  <2>2. /\ DOMAIN apps' = DOMAIN apps
        /\ \A c \in DOMAIN apps :
             apps'[c].balance = apps[c].balance + OnlyFor(c, row.app, back)
    BY <1>11, <2>1, CreditBalances
  <2>3. back \in Int OBVIOUS
  <2> QED BY <1>11, <2>1, <2>2, <2>3, UpdateBooked
<1>12. ASSUME NEW t \in PendingOutgoing, NEW fee \in 0..txs[t].reserve,
              FinalizeSucceeded(t, fee)
       PROVE BalanceMatchesRows'
  <2> DEFINE back == Max({0, txs[t].reserve - fee})
             row == [txs[t] EXCEPT !.state = "settled", !.fees = fee, !.reserve = 0]
  <2>1. /\ txs[t] \in TxRow /\ txs[t].type = "outgoing" /\ txs[t].state = "pending"
        /\ txs[t].fees = 0
    BY <1>0 DEF PendingOutgoing, StoreTypeOK
  <2>a. Effect(txs[t]) = -(txs[t].amount + txs[t].reserve)
    BY <2>1 DEF Effect, BudgetUse, TxRow
  <2>2. txs' = [txs EXCEPT ![t] = row] /\ apps' = Credit(txs[t].app, back)
    BY <1>12 DEF FinalizeSucceeded
  <2>3. back = txs[t].reserve - fee
    <3>1. PICK rest \in Nat : rest = txs[t].reserve - fee BY <2>1 DEF TxRow
    <3>2. Max({0, rest}) \in {0, rest} /\ Max({0, rest}) >= rest BY MaxOfTwo
    <3> QED BY <3>1, <3>2
  <2> HIDE DEF back
  <2>4. row.app = txs[t].app /\ Effect(row) = Effect(txs[t]) + back
    <3>1. /\ row.app = txs[t].app /\ row.type = "outgoing" /\ row.state = "settled"
          /\ row.amount = txs[t].amount /\ row.fees = fee /\ row.reserve = 0
      BY <2>1 DEF TxRow
    <3> HIDE DEF row
    <3>2. Effect(row) = -(txs[t].amount + fee)
      BY <2>1, <3>1 DEF Effect, BudgetUse, TxRow
    <3> QED BY <2>1, <2>a, <2>3, <3>1, <3>2 DEF TxRow
  <2>5. back \in Nat BY <2>1, <2>3 DEF TxRow
  <2> HIDE DEF row
  <2> QED BY <1>11, <2>2, <2>4, <2>5
<1>13. ASSUME NEW t \in PendingOutgoing, FinalizeFailed(t) PROVE BalanceMatchesRows'
  <2> DEFINE row == [txs[t] EXCEPT !.state = "failed", !.reserve = 0]
  <2>1. /\ txs[t] \in TxRow /\ txs[t].type = "outgoing" /\ txs[t].state = "pending"
        /\ txs[t].fees = 0
    BY <1>0 DEF PendingOutgoing, StoreTypeOK
  <2>a. Effect(txs[t]) = -(txs[t].amount + txs[t].reserve)
    BY <2>1 DEF Effect, BudgetUse, TxRow
  <2>2. PICK back \in Nat : back = txs[t].amount + txs[t].reserve BY <2>1 DEF TxRow
  <2>3. txs' = [txs EXCEPT ![t] = row] /\ apps' = Credit(txs[t].app, back)
    BY <1>13, <2>2 DEF FinalizeFailed
  <2>4. row.app = txs[t].app /\ Effect(row) = Effect(txs[t]) + back
    <3>1. row.app = txs[t].app /\ row.type = "outgoing" /\ row.state = "failed"
      BY <2>1 DEF TxRow
    <3> HIDE DEF row
    <3>2. Effect(row) = 0 BY <3>1 DEF Effect
    <3> QED BY <2>1, <2>a, <2>2, <3>1, <3>2 DEF TxRow
  <2> HIDE DEF row
  <2> QED BY <1>11, <2>3, <2>4
<1> QED
  BY <1>1, <1>2, <1>3, <1>4, <1>5, <1>6, <1>7, <1>8, <1>9, <1>10, <1>12, <1>13
  DEF StoreNext, Operator, Receive, Pay

\* A wallet's balance, a column that eight methods keep up to date, is at every
\* moment what its transactions add up to.
THEOREM BalanceIsRowsSum == StoreSpec => []BalanceMatchesRows
<1>1. StoreInit => BalanceMatchesRows
  BY DEF StoreInit, BalanceMatchesRows
<1>2. StoreTypeOK /\ StoreTypeOK' /\ BalanceMatchesRows /\ [StoreNext]_storeVars
        => BalanceMatchesRows'
  BY BalanceStep
<1> QED BY <1>1, <1>2, StoreTypeCorrect, PTL DEF StoreSpec

-----------------------------------------------------------------------------
(* The limit on a wallet's payments.                                       *)

\* What the payments of a wallet have cost, pending ones with their reserve.
Spent(a) == SumFunctionOnSet(Uses(txs), PaymentRows(a))

\* The rows of the budget query are finitely many, and each uses a natural
\* number of the budget.
LEMMA UsesType ==
  ASSUME StoreTypeOK, NEW a
  PROVE  /\ IsFiniteSet(BudgetRows(a)) /\ IsFiniteSet(PaymentRows(a))
         /\ PaymentRows(a) \subseteq BudgetRows(a)
         /\ BudgetRows(a) \subseteq DOMAIN txs
         /\ \A t \in BudgetRows(a) : Uses(txs)[t] = BudgetUse(txs[t]) /\ Uses(txs)[t] \in Nat
         /\ Spent(a) \in Int
<1>1. IsFiniteSet(DOMAIN txs) BY TypedTables DEF StoreTypeOK, TypedTable
<1>2. /\ BudgetRows(a) \subseteq DOMAIN txs /\ PaymentRows(a) \subseteq BudgetRows(a)
      /\ IsFiniteSet(BudgetRows(a)) /\ IsFiniteSet(PaymentRows(a))
  BY <1>1, FS_Subset DEF BudgetRows, PaymentRows
<1>3. \A t \in BudgetRows(a) : Uses(txs)[t] = BudgetUse(txs[t]) /\ Uses(txs)[t] \in Nat
  BY <1>2 DEF Uses, BudgetUse, StoreTypeOK, TxRow
<1>4. Spent(a) \in Int BY <1>2, <1>3, SumInt DEF Spent
<1> QED BY <1>2, <1>3, <1>4

\* What the payments of a wallet cost is part of what the budget query adds up.
LEMMA SpentIsBudgeted ==
  ASSUME StoreTypeOK, NEW a \in DOMAIN apps, NEW needed \in Nat, BudgetAllows(a, needed),
         apps[a].limit # 0
  PROVE  Spent(a) + needed <= apps[a].limit
<1>1. \A t \in BudgetRows(a) : Uses(txs)[t] \in Nat BY UsesType
<1>2. \A t \in PaymentRows(a) : Uses(txs)[t] \in Int /\ Uses(txs)[t] <= Uses(txs)[t]
  BY UsesType
<1>3. Spent(a) <= SumFunctionOnSet(Uses(txs), BudgetRows(a))
  BY <1>1, <1>2, UsesType, SumMonotone DEF Spent
<1>4. SumFunctionOnSet(Uses(txs), BudgetRows(a)) \in Int BY <1>1, UsesType, SumInt
<1>5. Spent(a) \in Int BY UsesType
<1>6. SumFunctionOnSet(Uses(txs), BudgetRows(a)) + needed <= apps[a].limit
  BY DEF BudgetAllows
<1>7. apps[a].limit \in Int BY DEF StoreTypeOK, AppRow
<1> QED BY <1>3, <1>4, <1>5, <1>6, <1>7

\* A step that adds no payment and makes none dearer does not raise the cost.
LEMMA SpentDrops ==
  ASSUME StoreTypeOK, StoreTypeOK', NEW a, PaymentRows(a)' \subseteq PaymentRows(a),
         \A t \in PaymentRows(a)' : BudgetUse(txs'[t]) <= BudgetUse(txs[t])
  PROVE  Spent(a)' <= Spent(a)
<1>1. PICK S : S = PaymentRows(a) OBVIOUS
<1>2. PICK T : T = PaymentRows(a)' OBVIOUS
<1>3. PICK f : f = Uses(txs) OBVIOUS
<1>4. PICK g : g = Uses(txs') OBVIOUS
<1>5. IsFiniteSet(S) /\ T \subseteq S /\ \A t \in S : f[t] \in Nat
  BY <1>1, <1>2, <1>3, UsesType
<1>6. \A t \in T : g[t] \in Int /\ g[t] <= f[t]
  <2> SUFFICES ASSUME NEW t \in T PROVE g[t] \in Int /\ g[t] <= f[t] OBVIOUS
  <2>1. t \in DOMAIN txs /\ t \in DOMAIN txs'
    BY <1>1, <1>2, <1>5 DEF PaymentRows, BudgetRows
  <2>2. f[t] = BudgetUse(txs[t]) /\ g[t] = BudgetUse(txs'[t])
    BY <1>3, <1>4, <2>1 DEF Uses
  <2>3. txs'[t] \in TxRow BY <2>1 DEF StoreTypeOK
  <2>4. BudgetUse(txs'[t]) \in Int BY <2>3 DEF BudgetUse, TxRow
  <2> QED BY <1>2, <2>2, <2>4
<1>7. SumFunctionOnSet(g, T) <= SumFunctionOnSet(f, S) BY <1>5, <1>6, SumMonotone
<1> QED BY <1>1, <1>2, <1>3, <1>4, <1>7 DEF Spent

\* A step that adds one payment raises the cost by what that payment uses.
LEMMA SpentGrows ==
  ASSUME StoreTypeOK, StoreTypeOK', NEW a, NEW u,
         PaymentRows(a)' = PaymentRows(a) \cup {u}, u \notin PaymentRows(a),
         \A t \in PaymentRows(a) : txs'[t] = txs[t]
  PROVE  Spent(a)' = Spent(a) + BudgetUse(txs'[u])
<1>1. PICK S : S = PaymentRows(a) OBVIOUS
<1>2. PICK f : f = Uses(txs) OBVIOUS
<1>3. PICK g : g = Uses(txs') OBVIOUS
<1>4. IsFiniteSet(S) /\ S \subseteq DOMAIN txs /\ \A t \in S : f[t] \in Nat
  BY <1>1, <1>2, UsesType
<1>5. S \cup {u} \subseteq DOMAIN txs'
  BY <1>1 DEF PaymentRows, BudgetRows
<1>6. \A t \in S \cup {u} : g[t] = BudgetUse(txs'[t]) /\ g[t] \in Int
  BY <1>3, <1>5 DEF Uses, BudgetUse, StoreTypeOK, TxRow
<1>7. \A t \in S : f[t] = g[t]
  BY <1>1, <1>2, <1>3, <1>4, <1>5 DEF Uses
<1>8. SumFunctionOnSet(g, S \cup {u}) = SumFunctionOnSet(g, S) + g[u]
  BY <1>1, <1>4, <1>6, SumAdd
<1>9. SumFunctionOnSet(f, S) = SumFunctionOnSet(g, S) BY <1>4, <1>7, SumSame
<1> QED BY <1>1, <1>2, <1>3, <1>6, <1>8, <1>9 DEF Spent

\* No step takes the payments of a wallet over its limit.
LEMMA LimitStep ==
  ASSUME StoreTypeOK, StoreTypeOK', PaymentsWithinLimit, [StoreNext]_storeVars
  PROVE  PaymentsWithinLimit'
<1> USE StoreAssumption
<1> SUFFICES ASSUME NEW a \in DOMAIN apps', apps'[a].limit # 0
             PROVE  Spent(a)' <= apps'[a].limit
  BY DEF PaymentsWithinLimit, Spent
<1>0. /\ apps \in [DOMAIN apps -> AppRow] /\ DOMAIN apps \subseteq 1..lastApp
      /\ txs \in [DOMAIN txs -> TxRow] /\ DOMAIN txs \subseteq 1..lastTx
      /\ \A t \in DOMAIN txs : txs[t].app \in DOMAIN apps
      /\ lastApp \in Nat /\ lastTx \in Nat
      /\ apps'[a].limit \in Nat
      /\ Spent(a) \in Int /\ Spent(a)' \in Int
  <2>1. Spent(a) \in Int BY UsesType
  <2>2. Spent(a)' \in Int
    <3>1. IsFiniteSet(DOMAIN txs') BY TypedTables DEF StoreTypeOK, TypedTable
    <3>2. PaymentRows(a)' \subseteq DOMAIN txs' BY DEF PaymentRows, BudgetRows
    <3>3. IsFiniteSet(PaymentRows(a)') BY <3>1, <3>2, FS_Subset
    <3>4. \A t \in PaymentRows(a)' : Uses(txs')[t] \in Int
      BY <3>2 DEF Uses, BudgetUse, StoreTypeOK, TxRow
    <3> QED BY <3>3, <3>4, SumInt DEF Spent
  <2> QED BY <2>1, <2>2 DEF StoreTypeOK, AppRow
<1>1. ASSUME a \in DOMAIN apps, apps'[a].limit = apps[a].limit, Spent(a)' <= Spent(a)
      PROVE  Spent(a)' <= apps'[a].limit
  <2>1. Spent(a) <= apps[a].limit BY <1>1 DEF PaymentsWithinLimit, Spent
  <2> QED BY <1>0, <1>1, <2>1
<1>2. ASSUME a \in DOMAIN apps, apps'[a].limit = apps[a].limit,
             PaymentRows(a)' \subseteq PaymentRows(a),
             \A t \in PaymentRows(a)' : txs'[t] = txs[t]
      PROVE  Spent(a)' <= apps'[a].limit
  <2>1. \A t \in PaymentRows(a)' : BudgetUse(txs'[t]) <= BudgetUse(txs[t])
    <3> SUFFICES ASSUME NEW t \in PaymentRows(a)'
                 PROVE BudgetUse(txs'[t]) <= BudgetUse(txs[t])
      OBVIOUS
    <3>1. txs[t] \in TxRow BY <1>0, <1>2 DEF PaymentRows, BudgetRows
    <3>2. BudgetUse(txs[t]) \in Int BY <3>1 DEF BudgetUse, TxRow
    <3> QED BY <1>2, <3>2
  <2> QED BY <1>1, <1>2, <2>1, SpentDrops
<1>3. CASE UNCHANGED storeVars
  BY <1>2, <1>3 DEF storeVars, PaymentRows, BudgetRows
<1>4. ASSUME NEW limit \in Limit, CreateApp(limit)
      PROVE  Spent(a)' <= apps'[a].limit
  <2>1. /\ DOMAIN apps' = DOMAIN apps \cup {lastApp + 1} /\ txs' = txs
        /\ \A b \in DOMAIN apps : apps'[b] = apps[b]
    BY <1>0, <1>4 DEF CreateApp, Inserted
  <2>2. CASE a \in DOMAIN apps
    BY <1>2, <2>1, <2>2 DEF PaymentRows, BudgetRows
  <2>3. CASE a = lastApp + 1
    <3>1. PaymentRows(a)' = {} BY <1>0, <2>1, <2>3 DEF PaymentRows, BudgetRows
    <3>2. Spent(a)' = 0 BY <3>1, SumEmpty DEF Spent
    <3> QED BY <1>0, <3>2
  <2> QED BY <2>1, <2>2, <2>3
<1>5. ASSUME NEW b \in AppId, DeleteApp(b) PROVE Spent(a)' <= apps'[a].limit
  <2>1. a \in DOMAIN apps /\ apps'[a] = apps[a] BY <1>5 DEF DeleteApp, Restrict
  <2>2. /\ DOMAIN txs' \subseteq DOMAIN txs
        /\ \A t \in DOMAIN txs' : txs'[t] = txs[t]
    BY <1>5, DeletedRows
  <2> QED BY <1>2, <2>1, <2>2 DEF PaymentRows, BudgetRows
<1>6. ASSUME NEW row, InsertTx(row), row.type = "incoming" \/ row.hash = NoHash,
             a \in DOMAIN apps, apps'[a].limit = apps[a].limit
      PROVE  Spent(a)' <= apps'[a].limit
  <2>1. /\ DOMAIN txs' = DOMAIN txs \cup {lastTx + 1} /\ txs'[lastTx + 1] = row
        /\ \A t \in DOMAIN txs : txs'[t] = txs[t]
    BY <1>6, InsertRow
  <2> QED BY <1>2, <1>6, <2>1 DEF PaymentRows, BudgetRows
<1>7. ASSUME NEW b \in AppId, NEW amt \in Amount, FundFromNode(b, amt)
      PROVE  Spent(a)' <= apps'[a].limit
  <2> DEFINE row == Row(b, "incoming", "settled", amt, 0, NoHash)
  <2>1. row.type = "incoming" BY DEF Row
  <2>2. InsertTx(row) /\ b \in DOMAIN apps /\ apps' = Credit(b, amt)
    BY <1>7 DEF FundFromNode
  <2> HIDE DEF row
  <2>3. amt \in Nat /\ a \in DOMAIN apps /\ apps'[a].limit = apps[a].limit
    BY <2>2, CreditBalances
  <2> QED BY <1>6, <2>1, <2>2, <2>3
<1>8. ASSUME NEW b \in AppId, NEW amt \in Amount, DrainToNode(b, amt)
      PROVE  Spent(a)' <= apps'[a].limit
  <2> DEFINE row == Row(b, "outgoing", "settled", amt, 0, NoHash)
  <2>1. row.hash = NoHash BY DEF Row
  <2>2. InsertTx(row) /\ b \in DOMAIN apps /\ apps' = Debit(b, amt)
    BY <1>8 DEF DrainToNode
  <2> HIDE DEF row
  <2>3. amt \in Nat /\ a \in DOMAIN apps /\ apps'[a].limit = apps[a].limit
    BY <2>2, DebitBalances
  <2> QED BY <1>6, <2>1, <2>2, <2>3
<1>9. ASSUME NEW b \in AppId, NEW c \in AppId, NEW amt \in Amount,
             TransferBetween(b, c, amt)
      PROVE  Spent(a)' <= apps'[a].limit
  <2> DEFINE out == Row(b, "outgoing", "settled", amt, 0, NoHash)
             inc == Row(c, "incoming", "settled", amt, 0, NoHash)
  <2>1. out.hash = NoHash /\ inc.hash = NoHash BY DEF Row
  <2>2. /\ b \in DOMAIN apps /\ c \in DOMAIN apps /\ apps' = Move(b, c, amt)
        /\ txs' = Inserted(Inserted(txs, lastTx + 1, out), lastTx + 2, inc)
    BY <1>9 DEF TransferBetween
  <2> HIDE DEF out, inc
  <2>3. amt \in Nat /\ a \in DOMAIN apps /\ apps'[a].limit = apps[a].limit
    BY <2>2, MoveBalances
  <2>4. /\ \A t \in DOMAIN txs : txs'[t] = txs[t]
        /\ \A t \in DOMAIN txs' \ DOMAIN txs : txs'[t].hash = NoHash
    BY <1>0, <2>1, <2>2 DEF Inserted
  <2>5. PaymentRows(a)' \subseteq PaymentRows(a) /\ \A t \in PaymentRows(a)' : t \in DOMAIN txs
    BY <2>4 DEF PaymentRows, BudgetRows
  <2> QED BY <1>2, <2>3, <2>4, <2>5
<1>10. ASSUME NEW b \in AppId, NEW h \in Hash, NEW amt \in Amount,
              RecordIncomingInvoice(b, h, amt)
       PROVE  Spent(a)' <= apps'[a].limit
  <2> DEFINE row == Row(b, "incoming", "pending", amt, 0, h)
  <2>1. row.type = "incoming" BY DEF Row
  <2>2. InsertTx(row) /\ apps' = apps BY <1>10 DEF RecordIncomingInvoice
  <2> HIDE DEF row
  <2> QED BY <1>6, <2>1, <2>2
<1>11. ASSUME NEW h \in Hash, NEW amt \in Amount, SettleIncoming(h, amt)
       PROVE  Spent(a)' <= apps'[a].limit
  <2>1. PICK t \in DOMAIN txs :
          /\ txs[t].type = "incoming"
          /\ apps' = Credit(txs[t].app, amt)
          /\ txs' = [txs EXCEPT ![t].state = "settled", ![t].amount = amt]
    BY <1>11 DEF SettleIncoming, Newest, Incoming
  <2>2. PICK b \in DOMAIN apps : b = txs[t].app BY <1>0
  <2>3. amt \in Nat /\ a \in DOMAIN apps /\ apps'[a].limit = apps[a].limit
    BY <2>1, <2>2, CreditBalances
  <2>4. /\ DOMAIN txs' = DOMAIN txs /\ txs'[t].type = "incoming"
        /\ \A u \in DOMAIN txs \ {t} : txs'[u] = txs[u]
    BY <1>0, <2>1 DEF TxRow
  <2>5. PaymentRows(a)' \subseteq PaymentRows(a) /\ t \notin PaymentRows(a)'
        /\ PaymentRows(a)' \subseteq DOMAIN txs
    BY <2>4 DEF PaymentRows, BudgetRows
  <2> QED BY <1>2, <2>3, <2>4, <2>5
<1>12. ASSUME NEW u, NEW b \in DOMAIN apps, NEW x \in Nat,
              a \in DOMAIN apps, apps'[a].limit = apps[a].limit,
              PaymentRows(a)' = PaymentRows(a) \cup (IF a = b THEN {u} ELSE {}),
              u \notin DOMAIN txs,
              \A t \in PaymentRows(a) : txs'[t] = txs[t],
              a = b => BudgetUse(txs'[u]) = x, BudgetAllows(b, x)
       PROVE  Spent(a)' <= apps'[a].limit
  <2>1. CASE a # b BY <1>2, <1>12, <2>1
  <2>2. CASE a = b
    <3>1. u \notin PaymentRows(a) BY <1>12 DEF PaymentRows, BudgetRows
    <3>2. Spent(a)' = Spent(a) + x BY <1>12, <2>2, <3>1, SpentGrows
    <3>3. Spent(a) + x <= apps[a].limit BY <1>12, <2>2, SpentIsBudgeted
    <3> QED BY <1>12, <3>2, <3>3
  <2> QED BY <2>1, <2>2
<1>13. ASSUME NEW b \in AppId, NEW h \in Hash, NEW amt \in Amount,
              SettleInternally(b, amt, h)
       PROVE  Spent(a)' <= apps'[a].limit
  <2>1. PICK inc \in DOMAIN txs :
          /\ txs[inc].type = "incoming"
          /\ apps' = Move(b, txs[inc].app, amt)
          /\ txs' = Inserted([txs EXCEPT ![inc].state = "settled", ![inc].amount = amt],
                             lastTx + 1, Row(b, "outgoing", "settled", amt, 0, h))
    BY <1>13 DEF SettleInternally, Newest, PendingIncoming, Incoming
  <2> DEFINE out == Row(b, "outgoing", "settled", amt, 0, h)
  <2>2. /\ out.app = b /\ out.type = "outgoing" /\ out.state = "settled"
        /\ out.hash = h /\ BudgetUse(out) = amt + 0 + 0
    BY DEF Row, BudgetUse
  <2>3. PICK u : u = lastTx + 1 OBVIOUS
  <2>4. PICK c \in DOMAIN apps : c = txs[inc].app BY <1>0
  <2>5. b \in DOMAIN apps /\ BudgetAllows(b, amt) /\ amt \in Nat /\ amt + 0 + 0 = amt
    BY <1>13 DEF SettleInternally
  <2>6. a \in DOMAIN apps /\ apps'[a].limit = apps[a].limit
    BY <2>1, <2>4, <2>5, MoveBalances
  <2>7. txs' = Inserted([txs EXCEPT ![inc].state = "settled", ![inc].amount = amt], u, out)
    BY <2>1, <2>3
  <2> HIDE DEF out
  <2>8. /\ DOMAIN txs' = DOMAIN txs \cup {u} /\ txs'[u] = out /\ u \notin DOMAIN txs
        /\ txs'[inc].type = "incoming"
        /\ \A t \in DOMAIN txs \ {inc} : txs'[t] = txs[t]
    BY <1>0, <2>1, <2>3, <2>7 DEF Inserted, TxRow
  <2>9. inc \notin PaymentRows(a) /\ inc \notin PaymentRows(a)'
    BY <2>1, <2>8 DEF PaymentRows, BudgetRows
  <2>10. /\ PaymentRows(a)' = PaymentRows(a) \cup (IF a = b THEN {u} ELSE {})
         /\ \A t \in PaymentRows(a) : txs'[t] = txs[t]
    BY <2>2, <2>8, <2>9 DEF PaymentRows, BudgetRows
  <2> QED BY <1>12, <2>2, <2>5, <2>6, <2>8, <2>10
<1>14. ASSUME NEW b \in AppId, NEW h \in Hash, NEW amt \in Amount,
              ReserveExternal(b, amt, FeeReserve(amt), h)
       PROVE  Spent(a)' <= apps'[a].limit
  <2>1. PICK reserve \in Nat : ReserveExternal(b, amt, reserve, h)
    BY <1>14, FeeReserveNat
  <2> DEFINE out == Row(b, "outgoing", "pending", amt, reserve, h)
  <2>2. PICK x \in Nat : x = amt + reserve /\ x = amt + 0 + reserve OBVIOUS
  <2>3. /\ out.app = b /\ out.type = "outgoing" /\ out.state = "pending"
        /\ out.hash = h /\ BudgetUse(out) = amt + 0 + reserve
    BY DEF Row, BudgetUse
  <2>4. PICK u : u = lastTx + 1 OBVIOUS
  <2>5. /\ b \in DOMAIN apps /\ BudgetAllows(b, x) /\ InsertTx(out)
        /\ apps' = Debit(b, x)
    BY <2>1, <2>2 DEF ReserveExternal
  <2> HIDE DEF out
  <2>6. a \in DOMAIN apps /\ apps'[a].limit = apps[a].limit BY <2>5, DebitBalances
  <2>7. /\ DOMAIN txs' = DOMAIN txs \cup {u} /\ txs'[u] = out /\ u \notin DOMAIN txs
        /\ \A t \in DOMAIN txs : txs'[t] = txs[t]
    BY <2>4, <2>5, InsertRow
  <2>8. /\ PaymentRows(a)' = PaymentRows(a) \cup (IF a = b THEN {u} ELSE {})
        /\ \A t \in PaymentRows(a) : txs'[t] = txs[t]
    BY <2>3, <2>7 DEF PaymentRows, BudgetRows
  <2> QED BY <1>12, <2>2, <2>3, <2>5, <2>6, <2>7, <2>8
<1>15. ASSUME NEW t \in PendingOutgoing, NEW row, txs' = [txs EXCEPT ![t] = row],
              row.app = txs[t].app, row.hash = txs[t].hash, row.type = txs[t].type,
              NEW back \in Nat, apps' = Credit(txs[t].app, back),
              BudgetUse(row) <= BudgetUse(txs[t])
       PROVE  Spent(a)' <= apps'[a].limit
  <2>1. t \in DOMAIN txs /\ txs[t].type = "outgoing" /\ txs[t].state = "pending"
    BY DEF PendingOutgoing
  <2>2. PICK b \in DOMAIN apps : b = txs[t].app BY <1>0, <2>1
  <2>3. a \in DOMAIN apps /\ apps'[a].limit = apps[a].limit
    BY <1>15, <2>2, CreditBalances
  <2>4. /\ DOMAIN txs' = DOMAIN txs /\ txs'[t] = row
        /\ \A u \in DOMAIN txs \ {t} : txs'[u] = txs[u]
    BY <1>15, <2>1
  <2>5. PaymentRows(a)' \subseteq PaymentRows(a)
    BY <1>15, <2>1, <2>4 DEF PaymentRows, BudgetRows
  <2>6. \A u \in PaymentRows(a)' : BudgetUse(txs'[u]) <= BudgetUse(txs[u])
    <3> SUFFICES ASSUME NEW u \in PaymentRows(a)', u # t
                 PROVE BudgetUse(txs'[u]) <= BudgetUse(txs[u])
      BY <1>15, <2>4
    <3>1. u \in DOMAIN txs BY <2>5 DEF PaymentRows, BudgetRows
    <3>2. txs'[u] = txs[u] /\ txs[u] \in TxRow BY <1>0, <2>4, <3>1
    <3>3. BudgetUse(txs[u]) \in Int BY <3>2 DEF BudgetUse, TxRow
    <3> QED BY <3>2, <3>3
  <2> QED BY <1>1, <2>3, <2>5, <2>6, SpentDrops
<1>16. ASSUME NEW t \in PendingOutgoing, NEW fee \in 0..txs[t].reserve,
              FinalizeSucceeded(t, fee)
       PROVE  Spent(a)' <= apps'[a].limit
  <2> DEFINE row == [txs[t] EXCEPT !.state = "settled", !.fees = fee, !.reserve = 0]
             back == Max({0, txs[t].reserve - fee})
  <2>1. txs[t] \in TxRow BY <1>0 DEF PendingOutgoing
  <2>2. txs' = [txs EXCEPT ![t] = row] /\ apps' = Credit(txs[t].app, back)
    BY <1>16 DEF FinalizeSucceeded
  <2>3. back \in Nat
    <3>1. txs[t].reserve \in Nat /\ fee \in Nat BY <2>1 DEF TxRow
    <3>2. back \in 0..txs[t].reserve BY <3>1, RefundBounds
    <3> QED BY <3>1, <3>2
  <2>4. /\ row.app = txs[t].app /\ row.hash = txs[t].hash /\ row.type = txs[t].type
        /\ row.amount = txs[t].amount /\ row.fees = fee /\ row.reserve = 0
    BY <2>1 DEF TxRow
  <2> HIDE DEF row, back
  <2>5. BudgetUse(row) <= BudgetUse(txs[t]) BY <2>1, <2>4 DEF BudgetUse, TxRow
  <2> QED BY <1>15, <2>2, <2>3, <2>4, <2>5
<1>17. ASSUME NEW t \in PendingOutgoing, FinalizeFailed(t)
       PROVE  Spent(a)' <= apps'[a].limit
  <2> DEFINE row == [txs[t] EXCEPT !.state = "failed", !.reserve = 0]
  <2>1. txs[t] \in TxRow BY <1>0 DEF PendingOutgoing
  <2>2. PICK back \in Nat : back = txs[t].amount + txs[t].reserve BY <2>1 DEF TxRow
  <2>3. txs' = [txs EXCEPT ![t] = row] /\ apps' = Credit(txs[t].app, back)
    BY <1>17, <2>2 DEF FinalizeFailed
  <2>4. /\ row.app = txs[t].app /\ row.hash = txs[t].hash /\ row.type = txs[t].type
        /\ row.amount = txs[t].amount /\ row.fees = txs[t].fees /\ row.reserve = 0
    BY <2>1 DEF TxRow
  <2> HIDE DEF row
  <2>5. BudgetUse(row) <= BudgetUse(txs[t]) BY <2>1, <2>4 DEF BudgetUse, TxRow
  <2> QED BY <1>15, <2>2, <2>3, <2>4, <2>5
<1> QED
  BY <1>3, <1>4, <1>5, <1>7, <1>8, <1>9, <1>10, <1>11, <1>13, <1>14, <1>16, <1>17
  DEF StoreNext, Operator, Receive, Pay

\* The limit set on a wallet holds whatever its payments do and in whatever
\* order: the budget query counts what is still in flight, at its worst.
THEOREM LimitHolds == StoreSpec => []PaymentsWithinLimit
<1>1. StoreInit => PaymentsWithinLimit
  BY DEF StoreInit, PaymentsWithinLimit
<1>2. StoreTypeOK /\ StoreTypeOK' /\ PaymentsWithinLimit /\ [StoreNext]_storeVars
        => PaymentsWithinLimit'
  BY LimitStep
<1> QED BY <1>1, <1>2, StoreTypeCorrect, PTL DEF StoreSpec
=============================================================================

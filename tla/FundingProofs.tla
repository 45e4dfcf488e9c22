--------------------------- MODULE FundingProofs ---------------------------
(***************************************************************************)
(* Theorems about fundings and the node's channels, for every number of    *)
(* HTTP threads, every amount and every local balance.                     *)
(*                                                                         *)
(* The comparison of POST /api/transfers looks at the balances and the     *)
(* channels only; that it is enough when nothing is on its way follows     *)
(* from a sum that counts what is: every pending row still holds a claim   *)
(* on the channels (Due), a step moves money between balances, claims and  *)
(* channels without making any, and only a funding adds to what they owe.  *)
(* What LND pays for a refunded payment is counted with the channels.      *)
(***************************************************************************)
EXTENDS Funding, NwcStoreProofs

\* What a row still claims of the channels beside the balances: a payment the
\* amount and the fee reserve until LND has made it, then what comes back to
\* the wallet; an invoice its amount from LND's receipt to its credit.
Due(row, t, made, got) ==
  IF row.state # "pending" THEN 0
  ELSE IF row.type = "incoming" THEN IF row.hash \in got THEN row.amount ELSE 0
  ELSE IF t \in DOMAIN made THEN row.reserve - made[t] ELSE row.amount + row.reserve

Dues(table, made, got) == [t \in DOMAIN table |-> Due(table[t], t, made, got)]
Promised(table, made, got) ==
  SumFunctionOnSet(Dues(table, made, got), DOMAIN table)

Balances(accounts) == [a \in DOMAIN accounts |-> accounts[a].balance]
Held(accounts) == SumFunctionOnSet(Balances(accounts), DOMAIN accounts)

\* The fee of a payment that is made and not booked is within its reserve.
FeesWithin(table, made) ==
  \A t \in DOMAIN table \cap DOMAIN made :
    table[t].type = "outgoing" /\ table[t].state = "pending" =>
      made[t] \in 0..table[t].reserve

RowsOK == /\ \A t \in DOMAIN txs : txs[t].amount \in Amount
          /\ \A t, u \in DOMAIN txs :
               /\ txs[t].type = "incoming" /\ txs[u].type = "incoming"
               /\ txs[t].hash = txs[u].hash /\ txs[t].hash \in Hash
               => t = u

NodeOK == /\ node \in Nat
          /\ DOMAIN sent \subseteq DOMAIN txs
          /\ FeesWithin(txs, sent)
          /\ received \subseteq Hash
          /\ \A h \in received : Incoming(h) # {}
          /\ \A t \in abandoned : t \in DOMAIN txs /\ txs[t].state # "pending"
          /\ lost \in Nat

\* The channels and what they have lost to refunded payments.
Means == node + lost

ChecksOK == /\ overlooked \in BOOLEAN
            /\ check = [h \in Http |-> check[h]]
            /\ \A h \in Http :
                 \/ check[h] = Idle
                 \/ \E pc \in {"sum", "transfer"}, a \in DOMAIN apps, amt \in Amount,
                      local \in Nat, checked \in BOOLEAN :
                        check[h] = Handler(pc, a, amt, local, checked)

Shape == StoreTypeOK /\ RowsOK /\ NodeOK /\ ChecksOK

\* A check that nothing has disturbed compares with figures that still hold.
QuietOK ==
  \A h \in Http : Checking(h) /\ h \notin disturbed =>
    /\ ~OnItsWay
    /\ \A g \in Http \ {h} : ~Checking(g)
    /\ check[h].pc = "sum" => check[h].local <= Means /\ check[h].checked
    /\ check[h].pc = "transfer" /\ check[h].checked =>
         Held(apps) + check[h].amount <= Means

\* The balances and the claims together are covered.
Covered == Held(apps) + Promised(txs, sent, received) <= Means

Backing == Shape /\ QuietOK /\ (overlooked \/ Covered)

-----------------------------------------------------------------------------
(* The tables and the node.                                                *)

\* The claims are natural numbers over finitely many rows, and so are the
\* balances.
LEMMA DuesType ==
  ASSUME NEW table, NEW made, NEW got, TypedTable(table), FeesWithin(table, made)
  PROVE  /\ Summable(Dues(table, made, got), DOMAIN table)
         /\ \A t \in DOMAIN table : Due(table[t], t, made, got) \in Nat
<1>1. ASSUME NEW t \in DOMAIN table PROVE Due(table[t], t, made, got) \in Nat
  <2>1. table[t] \in TxRow BY DEF TypedTable
  <2>2. table[t].type = "outgoing" /\ table[t].state = "pending" /\ t \in DOMAIN made
          => made[t] \in 0..table[t].reserve
    BY DEF FeesWithin
  <2> QED BY <2>1, <2>2 DEF Due, TxRow
<1> QED BY <1>1 DEF Summable, Dues, TypedTable

LEMMA BalancesType ==
  ASSUME NEW accounts, NEW last \in 0..MaxApp, DOMAIN accounts \subseteq 1..last,
         accounts \in [DOMAIN accounts -> AppRow]
  PROVE  Summable(Balances(accounts), DOMAIN accounts)
<1>1. last \in Int BY StoreAssumption
<1>2. IsFiniteSet(1..last) BY <1>1, FS_Interval
<1>3. IsFiniteSet(DOMAIN accounts) BY <1>2, FS_Subset
<1> QED BY <1>3 DEF Summable, Balances, AppRow

\* Both sums are natural numbers.
LEMMA SumsType ==
  ASSUME Shape
  PROVE  /\ Held(apps) \in Int /\ Promised(txs, sent, received) \in Int
         /\ node \in Int /\ Means \in Int /\ TypedTable(txs) /\ FeesWithin(txs, sent)
<1>1. TypedTable(txs) /\ FeesWithin(txs, sent) /\ node \in Int /\ Means \in Int
  BY TypedTables DEF Shape, StoreTypeOK, NodeOK, Means
<1>2. Summable(Balances(apps), DOMAIN apps) BY BalancesType DEF Shape, StoreTypeOK
<1>3. Summable(Dues(txs, sent, received), DOMAIN txs) BY <1>1, DuesType
<1> QED BY <1>1, <1>2, <1>3, SumInt DEF Summable, Held, Promised

\* When one balance moves by x, so does the sum.
LEMMA HeldMoves ==
  ASSUME StoreTypeOK, StoreTypeOK', NEW a \in DOMAIN apps, NEW x \in Int,
         DOMAIN apps' = DOMAIN apps,
         \A c \in DOMAIN apps : apps'[c].balance = apps[c].balance + OnlyFor(c, a, x)
  PROVE  Held(apps') = Held(apps) + x
<1>1. PICK S : S = DOMAIN apps OBVIOUS
<1>2. PICK f : f = Balances(apps) OBVIOUS
<1>3. PICK g : g = Balances(apps') OBVIOUS
<1>4. Summable(f, S) /\ Summable(g, S)
  BY <1>1, <1>2, <1>3, BalancesType DEF StoreTypeOK
<1>5. \A c \in S : f[c] \in Int /\ g[c] = f[c] + OnlyFor(c, a, x)
  BY <1>1, <1>2, <1>3, <1>4 DEF Balances, Summable
<1>6. SameBut(a, f, S, g, S) BY <1>5 DEF SameBut, OnlyFor
<1>7. PICK before \in Int, after \in Int :
        before = SumFunctionOnSet(f, S) /\ after = SumFunctionOnSet(g, S)
  BY <1>4, SumInt DEF Summable
<1>8. after = before - Worth(f, S, a) + Worth(g, S, a) BY <1>4, <1>6, <1>7, SumChange
<1>9. Worth(f, S, a) \in Int /\ Worth(g, S, a) = Worth(f, S, a) + x
  BY <1>1, <1>5 DEF Worth, OnlyFor
<1>10. after = before + x BY <1>7, <1>8, <1>9
<1> QED BY <1>1, <1>2, <1>3, <1>7, <1>10 DEF Held

\* When the claim of one row moves by y, so does the sum of the claims.
LEMMA PromisedMoves ==
  ASSUME NEW table, NEW made, NEW got, NEW new, NEW made1, NEW got1, NEW t,
         TypedTable(table), FeesWithin(table, made),
         TypedTable(new), FeesWithin(new, made1),
         SameBut(t, Dues(table, made, got), DOMAIN table,
                    Dues(new, made1, got1), DOMAIN new),
         NEW y \in Int,
         Worth(Dues(new, made1, got1), DOMAIN new, t) =
           Worth(Dues(table, made, got), DOMAIN table, t) + y
  PROVE  Promised(new, made1, got1) = Promised(table, made, got) + y
<1>1. PICK S, T, f, g : /\ S = DOMAIN table /\ T = DOMAIN new
                        /\ f = Dues(table, made, got) /\ g = Dues(new, made1, got1)
  OBVIOUS
<1>2. Summable(f, S) /\ Summable(g, T) BY <1>1, DuesType
<1>3. SameBut(t, f, S, g, T) BY <1>1
<1>4. /\ SumFunctionOnSet(f, S) \in Int /\ Worth(f, S, t) \in Int
      /\ SumFunctionOnSet(g, T) = SumFunctionOnSet(f, S) - Worth(f, S, t) + Worth(g, T, t)
  BY <1>2, <1>3, SumChange
<1>5. PICK before \in Int, worth \in Int :
        before = SumFunctionOnSet(f, S) /\ worth = Worth(f, S, t)
  BY <1>4
<1>6. SumFunctionOnSet(g, T) = before - worth + (worth + y) BY <1>1, <1>4, <1>5
<1>7. SumFunctionOnSet(g, T) = before + y BY <1>5, <1>6
<1> QED BY <1>1, <1>5, <1>7 DEF Promised

-----------------------------------------------------------------------------
(* What a step may do to the money.                                        *)

\* Balances, claims and channels after a step: none of them is made out of
\* nothing, and what the comparison looked at moves only when money was or is
\* on its way, or downwards.
Moved(x, y, z) ==
  /\ Held(apps') = Held(apps) + x
  /\ Promised(txs', sent', received') = Promised(txs, sent, received) + y
  /\ Means' = Means + z
  /\ x + y <= z
  /\ OnItsWay \/ OnItsWay' \/ (x <= 0 /\ z = 0)

\* A row that is added keeps the rows and the node's records in order and
\* changes no claim but its own.
LEMMA RowAdded ==
  ASSUME Shape, StoreTypeOK', NEW row, InsertTx(row), row.amount \in Amount,
         row.type = "incoming" /\ row.hash \in Hash => Incoming(row.hash) = {},
         UNCHANGED lndVars
  PROVE  /\ RowsOK' /\ NodeOK'
         /\ Promised(txs', sent', received') =
              Promised(txs, sent, received) + Due(row, lastTx + 1, sent, received)
         /\ row.type = "outgoing" /\ row.state = "pending" => OnItsWay'
<1>1. PICK t : t = lastTx + 1 OBVIOUS
<1>2. /\ t \notin DOMAIN txs /\ DOMAIN txs' = DOMAIN txs \cup {t} /\ txs'[t] = row
      /\ \A u \in DOMAIN txs : txs'[u] = txs[u]
  BY <1>1, InsertRow DEF Shape
<1>3. sent' = sent /\ received' = received /\ node' = node /\ t \notin DOMAIN sent
  BY <1>2 DEF lndVars, Shape, NodeOK
<1>4. RowsOK' BY <1>2 DEF Shape, RowsOK, Incoming
<1>5. NodeOK'
  <2>1. FeesWithin(txs', sent') BY <1>2, <1>3 DEF Shape, NodeOK, FeesWithin
  <2>2. \A h : Incoming(h) \subseteq Incoming(h)' BY <1>2 DEF Incoming
  <2>3. \A h \in received : Incoming(h)' # {} BY <2>2 DEF Shape, NodeOK
  <2> QED BY <1>2, <1>3, <2>1, <2>3 DEF Shape, NodeOK, lndVars
<1>6. SameBut(t, Dues(txs, sent, received), DOMAIN txs,
                 Dues(txs', sent', received'), DOMAIN txs')
  BY <1>2, <1>3 DEF SameBut, Dues
<1>7. /\ Worth(Dues(txs, sent, received), DOMAIN txs, t) = 0
      /\ Worth(Dues(txs', sent', received'), DOMAIN txs', t) = Due(row, t, sent, received)
  BY <1>2, <1>3 DEF Worth, Dues
<1>8. TypedTable(txs) /\ FeesWithin(txs, sent) /\ TypedTable(txs') /\ FeesWithin(txs', sent')
  BY <1>5, TypedTables DEF Shape, StoreTypeOK, NodeOK
<1>9. PICK y \in Int : y = Due(row, t, sent, received)
  <2>1. \A u \in DOMAIN txs' : Due(txs'[u], u, sent', received') \in Nat
    BY <1>8, DuesType
  <2> QED BY <1>2, <1>3, <2>1
<1>10. Promised(txs', sent', received') = Promised(txs, sent, received) + y
  <2>1. Worth(Dues(txs', sent', received'), DOMAIN txs', t) =
          Worth(Dues(txs, sent, received), DOMAIN txs, t) + y
    BY <1>7, <1>9
  <2> QED BY <1>6, <1>8, <2>1, PromisedMoves
<1>11. row.type = "outgoing" /\ row.state = "pending" => OnItsWay'
  BY <1>2 DEF OnItsWay, PendingOutgoing
<1> QED BY <1>1, <1>4, <1>5, <1>9, <1>10, <1>11

\* A pending row that is closed keeps them as well and gives up its claim.
LEMMA RowClosed ==
  ASSUME Shape, StoreTypeOK', NEW t \in DOMAIN txs, NEW row,
         OneRow(txs, txs', t), t \in DOMAIN txs', txs'[t] = row, row.type = txs[t].type,
         row.hash = txs[t].hash, row.amount = txs[t].amount, row.state # "pending",
         UNCHANGED <<node, sent, received>>, abandoned' \subseteq abandoned \cup {t},
         lost' \in Nat
  PROVE  /\ RowsOK' /\ NodeOK'
         /\ Promised(txs', sent', received') =
              Promised(txs, sent, received) - Due(txs[t], t, sent, received)
<1>2. /\ DOMAIN txs' = DOMAIN txs /\ txs'[t] = row
      /\ \A u \in DOMAIN txs \ {t} : txs'[u] = txs[u]
  BY DEF OneRow
<1>3. sent' = sent /\ received' = received /\ node' = node OBVIOUS
<1>4. RowsOK' BY <1>2 DEF Shape, RowsOK
<1>5. NodeOK'
  <2>1. FeesWithin(txs', sent') BY <1>2, <1>3 DEF Shape, NodeOK, FeesWithin
  <2>2. \A h : Incoming(h)' = Incoming(h) BY <1>2 DEF Incoming
  <2>3. \A u \in abandoned' : u \in DOMAIN txs' /\ txs'[u].state # "pending"
    BY <1>2 DEF Shape, NodeOK
  <2> QED BY <1>2, <1>3, <2>1, <2>2, <2>3 DEF Shape, NodeOK
<1>6. SameBut(t, Dues(txs, sent, received), DOMAIN txs,
                 Dues(txs', sent', received'), DOMAIN txs')
  BY <1>2, <1>3 DEF SameBut, Dues
<1>7. /\ Worth(Dues(txs, sent, received), DOMAIN txs, t) = Due(txs[t], t, sent, received)
      /\ Worth(Dues(txs', sent', received'), DOMAIN txs', t) = 0
  BY <1>2, <1>3 DEF Worth, Dues, Due
<1>8. TypedTable(txs) /\ FeesWithin(txs, sent) /\ TypedTable(txs') /\ FeesWithin(txs', sent')
  BY <1>5, TypedTables DEF Shape, StoreTypeOK, NodeOK
<1>9. PICK y \in Int : y = Due(txs[t], t, sent, received)
  <2>1. t \in DOMAIN txs OBVIOUS
  <2>2. \A u \in DOMAIN txs : Due(txs[u], u, sent, received) \in Nat
    BY ONLY <1>8, DuesType
  <2>3. Due(txs[t], t, sent, received) \in Nat BY ONLY <2>1, <2>2
  <2> QED BY ONLY <2>3
<1>10. PICK z \in Int : z = -y /\ 0 = y + z OBVIOUS
<1>11. Promised(txs', sent', received') = Promised(txs, sent, received) + z
  <2>1. Worth(Dues(txs', sent', received'), DOMAIN txs', t) =
          Worth(Dues(txs, sent, received), DOMAIN txs, t) + z
    BY <1>7, <1>9, <1>10
  <2> QED BY <1>6, <1>8, <2>1, PromisedMoves
<1>12. Promised(txs, sent, received) \in Int BY SumsType
<1> QED BY <1>4, <1>5, <1>9, <1>10, <1>11, <1>12

\* What every step that is not a handler's leaves in order.
Kept == /\ RowsOK' /\ NodeOK' /\ [StoreNext]_storeVars
        /\ DOMAIN apps \subseteq DOMAIN apps'
        /\ \E x, y, z \in Int : Moved(x, y, z)

\* A new wallet holds nothing.
LEMMA CreateKeeps ==
  ASSUME Shape, NEW limit \in Limit, CreateApp(limit), UNCHANGED lndVars
  PROVE  Kept
<1>1. [StoreNext]_storeVars BY DEF StoreNext, Operator
<1>2. StoreTypeOK' BY <1>1, StoreTypeStep DEF Shape
<1>3. PICK a : a = lastApp + 1 OBVIOUS
<1>4. /\ a \notin DOMAIN apps /\ DOMAIN apps' = DOMAIN apps \cup {a}
      /\ apps'[a].balance = 0 /\ \A b \in DOMAIN apps : apps'[b] = apps[b]
      /\ UNCHANGED <<txs, lastTx>>
  BY <1>3 DEF CreateApp, Inserted, Shape, StoreTypeOK
<1>5. sent' = sent /\ received' = received /\ node' = node BY DEF lndVars
<1>6. Held(apps') = Held(apps) + 0
  <2>1. PICK S, T, f, g : /\ S = DOMAIN apps /\ T = DOMAIN apps'
                          /\ f = Balances(apps) /\ g = Balances(apps')
    OBVIOUS
  <2>2. Summable(f, S) /\ Summable(g, T)
    BY <1>2, <2>1, BalancesType DEF Shape, StoreTypeOK
  <2>3. SameBut(a, f, S, g, T) /\ Worth(f, S, a) = 0 /\ Worth(g, T, a) = 0
    BY <1>4, <2>1 DEF SameBut, Worth, Balances
  <2>4. PICK before \in Int : before = SumFunctionOnSet(f, S)
    BY <2>2, SumInt DEF Summable
  <2>5. SumFunctionOnSet(g, T) = before - 0 + 0 BY <2>2, <2>3, <2>4, SumChange
  <2> QED BY <2>1, <2>4, <2>5 DEF Held
<1>7. Promised(txs', sent', received') = Promised(txs, sent, received) + 0
  BY <1>4, <1>5, SumsType
<1>8. RowsOK' /\ NodeOK'
  BY <1>4, <1>5 DEF Shape, RowsOK, NodeOK, FeesWithin, Incoming, lndVars
<1>9. Moved(0, 0, 0) BY <1>5, <1>6, <1>7, SumsType DEF Moved, Means, lndVars
<1> QED BY <1>1, <1>4, <1>8, <1>9 DEF Kept

\* An invoice that LND draws has a new hash: nothing has been received for it.
LEMMA InvoiceKeeps ==
  ASSUME Shape, NEW a \in AppId, NEW h \in Hash, NEW amt \in Amount, Invoice(a, h, amt)
  PROVE  Kept
<1>1. /\ Incoming(h) = {} /\ RecordIncomingInvoice(a, h, amt) /\ UNCHANGED lndVars
  BY DEF Invoice, Ledger
<1>2. [StoreNext]_storeVars BY <1>1 DEF StoreNext, Receive
<1>3. StoreTypeOK' BY <1>2, StoreTypeStep DEF Shape
<1> DEFINE row == Row(a, "incoming", "pending", amt, 0, h)
<1>4. InsertTx(row) /\ apps' = apps BY <1>1 DEF RecordIncomingInvoice
<1>5. h \notin received BY <1>1 DEF Shape, NodeOK
<1>6. /\ row.amount = amt /\ row.hash = h /\ row.type = "incoming"
      /\ Due(row, lastTx + 1, sent, received) = 0
  BY <1>5 DEF Row, Due
<1> HIDE DEF row
<1>7. /\ RowsOK' /\ NodeOK'
      /\ Promised(txs', sent', received') = Promised(txs, sent, received) + 0
  BY <1>1, <1>3, <1>4, <1>6, RowAdded
<1>8. Moved(0, 0, 0) BY <1>1, <1>4, <1>7, SumsType DEF Moved, Means, lndVars
<1> QED BY <1>2, <1>4, <1>7, <1>8 DEF Kept

\* A reserved payment takes from its wallet what it claims of the channels.
LEMMA ReserveKeeps ==
  ASSUME Shape, NEW a \in AppId, NEW h \in Hash, NEW amt \in Amount, Reserve(a, h, amt)
  PROVE  Kept
<1>1. ReserveExternal(a, amt, FeeReserve(amt), h) /\ UNCHANGED lndVars
  BY DEF Reserve, Ledger
<1>2. [StoreNext]_storeVars BY <1>1 DEF StoreNext, Pay
<1>3. StoreTypeOK' BY <1>2, StoreTypeStep DEF Shape
<1>4. PICK reserve \in Nat : ReserveExternal(a, amt, reserve, h) BY <1>1, FeeReserveNat
<1> DEFINE row == Row(a, "outgoing", "pending", amt, reserve, h)
<1>5. PICK x \in Nat : x = amt + reserve BY StoreAssumption
<1>6. PICK z \in Int : z = -x /\ z + x = 0 OBVIOUS
<1>7. a \in DOMAIN apps /\ InsertTx(row) /\ apps' = Debit(a, x)
  BY <1>4, <1>5 DEF ReserveExternal
<1>8. lastTx + 1 \notin DOMAIN sent BY DEF Shape, NodeOK, StoreTypeOK
<1>9. /\ row.amount = amt /\ row.type = "outgoing" /\ row.state = "pending"
      /\ Due(row, lastTx + 1, sent, received) = x
  BY <1>5, <1>8 DEF Row, Due
<1> HIDE DEF row
<1>10. /\ RowsOK' /\ NodeOK' /\ OnItsWay'
       /\ Promised(txs', sent', received') = Promised(txs, sent, received) + x
  BY <1>1, <1>3, <1>7, <1>9, RowAdded
<1>11. /\ DOMAIN apps' = DOMAIN apps
       /\ \A c \in DOMAIN apps : apps'[c].balance = apps[c].balance + OnlyFor(c, a, z)
  <2>1. \A c \in DOMAIN apps : apps[c].balance \in Int BY DEF Shape, StoreTypeOK, AppRow
  <2>2. /\ DOMAIN apps' = DOMAIN apps
        /\ \A c \in DOMAIN apps : apps'[c].balance = apps[c].balance - OnlyFor(c, a, x)
    BY <1>7, DebitBalances DEF Shape
  <2> QED BY <1>6, <2>1, <2>2 DEF OnlyFor
<1>12. Held(apps') = Held(apps) + z BY <1>3, <1>7, <1>11, HeldMoves DEF Shape
<1>13. Means' = Means + 0 BY <1>1, SumsType DEF lndVars, Means
<1>14. z + x <= 0 BY <1>6
<1>15. x \in Int /\ Moved(z, x, 0) BY <1>10, <1>12, <1>13, <1>14 DEF Moved
<1> QED BY <1>2, <1>10, <1>11, <1>15 DEF Kept

\* What the operator takes out of a wallet stays in the channels.
LEMMA DrainKeeps ==
  ASSUME Shape, NEW a \in AppId, NEW amt \in Amount, DrainToNode(a, amt),
         UNCHANGED lndVars
  PROVE  Kept
<1>2. [StoreNext]_storeVars BY DEF StoreNext, Operator
<1>3. StoreTypeOK' BY <1>2, StoreTypeStep DEF Shape
<1> DEFINE row == Row(a, "outgoing", "settled", amt, 0, NoHash)
<1>5. PICK x \in Nat : x = amt BY StoreAssumption
<1>6. PICK z \in Int : z = -x /\ z + 0 <= 0 /\ z <= 0 OBVIOUS
<1>7. a \in DOMAIN apps /\ InsertTx(row) /\ apps' = Debit(a, x)
  BY <1>5 DEF DrainToNode
<1>9. /\ row.amount = amt /\ row.type = "outgoing"
      /\ Due(row, lastTx + 1, sent, received) = 0
  BY DEF Row, Due
<1> HIDE DEF row
<1>10. /\ RowsOK' /\ NodeOK'
       /\ Promised(txs', sent', received') = Promised(txs, sent, received) + 0
  BY <1>3, <1>7, <1>9, RowAdded
<1>11. /\ DOMAIN apps' = DOMAIN apps
       /\ \A c \in DOMAIN apps : apps'[c].balance = apps[c].balance + OnlyFor(c, a, z)
  <2>1. \A c \in DOMAIN apps : apps[c].balance \in Int BY DEF Shape, StoreTypeOK, AppRow
  <2>2. /\ DOMAIN apps' = DOMAIN apps
        /\ \A c \in DOMAIN apps : apps'[c].balance = apps[c].balance - OnlyFor(c, a, x)
    BY <1>7, DebitBalances DEF Shape
  <2> QED BY <1>6, <2>1, <2>2 DEF OnlyFor
<1>12. Held(apps') = Held(apps) + z BY <1>3, <1>7, <1>11, HeldMoves DEF Shape
<1>13. Means' = Means + 0 BY SumsType DEF lndVars, Means
<1>15. Moved(z, 0, 0) BY <1>6, <1>10, <1>12, <1>13 DEF Moved
<1> QED BY <1>2, <1>10, <1>11, <1>15 DEF Kept

\* A row that is closed hands its claim over to its wallet; what the wallet gets
\* beyond the claim, LND has paid for nothing.
LEMMA ClosingKeeps ==
  ASSUME Shape, [StoreNext]_storeVars, UNCHANGED <<node, sent, received>>, OnItsWay,
         NEW t \in DOMAIN txs, NEW row, OneRow(txs, txs', t), t \in DOMAIN txs',
         txs'[t] = row, row.type = txs[t].type, row.hash = txs[t].hash,
         row.amount = txs[t].amount, row.state # "pending",
         NEW x \in Nat, apps' = Credit(txs[t].app, x),
         NEW due \in Int, Due(txs[t], t, sent, received) = due,
         abandoned' \subseteq abandoned \cup {t},
         NEW loss \in Nat, lost' = lost + loss, x <= due + loss
  PROVE  Kept
<1>1. StoreTypeOK' /\ lost' \in Nat BY StoreTypeStep DEF Shape, NodeOK
<1>2. /\ RowsOK' /\ NodeOK'
      /\ Promised(txs', sent', received') = Promised(txs, sent, received) - due
  BY <1>1, RowClosed
<1>3. PICK a \in DOMAIN apps : a = txs[t].app BY DEF Shape, StoreTypeOK
<1>4. /\ DOMAIN apps' = DOMAIN apps
      /\ \A c \in DOMAIN apps : apps'[c].balance = apps[c].balance + OnlyFor(c, a, x)
  BY <1>3, CreditBalances DEF Shape
<1>5. x \in Int OBVIOUS
<1>6. Held(apps') = Held(apps) + x BY <1>1, <1>4, <1>5, HeldMoves DEF Shape
<1>7. PICK y \in Int : y = -due /\ x + y <= loss OBVIOUS
<1>8. Promised(txs', sent', received') = Promised(txs, sent, received) + y
  BY <1>2, <1>7, SumsType
<1>9. Means' = Means + loss BY DEF Means, Shape, NodeOK
<1>10. loss \in Int /\ Moved(x, y, loss) BY <1>6, <1>7, <1>8, <1>9 DEF Moved
<1> QED BY <1>2, <1>4, <1>5, <1>10 DEF Kept

\* A receipt is credited with the amount of its invoice.
LEMMA CreditKeeps ==
  ASSUME Shape, NEW h \in Hash, CreditReceipt(h)
  PROVE  Kept
<1>1. PICK u \in PendingIncoming(h) :
        h \in received /\ SettleIncoming(h, txs[u].amount) /\ UNCHANGED lndVars
  BY DEF CreditReceipt, Ledger
<1>2. u \in DOMAIN txs /\ txs[u].type = "incoming" /\ txs[u].hash = h /\ txs[u].state = "pending"
  BY DEF PendingIncoming, Incoming
<1>3. PICK x \in Amount : x = txs[u].amount BY <1>2 DEF Shape, RowsOK
<1>4. SettleIncoming(h, x) BY <1>1, <1>3
<1>5. [StoreNext]_storeVars BY <1>4 DEF StoreNext, Receive
<1>6. PICK t \in DOMAIN txs :
        /\ txs[t].type = "incoming" /\ txs[t].hash = h
        /\ apps' = Credit(txs[t].app, x)
        /\ txs' = [txs EXCEPT ![t].state = "settled", ![t].amount = x]
  BY <1>4 DEF SettleIncoming, Newest, Incoming
<1>7. t = u BY <1>2, <1>6 DEF Shape, RowsOK
<1>8. OnItsWay BY <1>1 DEF OnItsWay
<1>9. Due(txs[t], t, sent, received) = x BY <1>1, <1>2, <1>3, <1>7 DEF Due
<1>10. PICK row : row = [txs[t] EXCEPT !.state = "settled", !.amount = x] OBVIOUS
<1>11. txs[t] \in TxRow BY DEF Shape, StoreTypeOK
<1>12. /\ row.type = txs[t].type /\ row.hash = txs[t].hash /\ row.amount = txs[t].amount
       /\ row.state # "pending"
  BY <1>3, <1>7, <1>10, <1>11 DEF TxRow
<1>13. OneRow(txs, txs', t) /\ t \in DOMAIN txs' /\ txs'[t] = row
  BY <1>6, <1>10 DEF OneRow
<1>14. x \in Nat /\ UNCHANGED lndVars BY <1>1, StoreAssumption
<1>15. apps' = Credit(txs[t].app, x) BY <1>6
<1>16. /\ UNCHANGED <<node, sent, received, abandoned>> /\ lost' = lost + 0
       /\ x <= x + 0 /\ x \in Int
  BY <1>14 DEF lndVars, Shape, NodeOK
<1> QED BY <1>5, <1>8, <1>9, <1>12, <1>13, <1>14, <1>15, <1>16, ClosingKeeps

\* A payment that LND has made gives back what its fee left of the reserve.
LEMMA BookPaidKeeps ==
  ASSUME Shape, NEW t \in TxId, BookPaid(t)
  PROVE  Kept
<1>1. /\ t \in PendingOutgoing /\ t \in DOMAIN sent /\ FinalizeSucceeded(t, sent[t])
      /\ UNCHANGED lndVars
  BY DEF BookPaid, Ledger
<1>2. t \in DOMAIN txs /\ txs[t].type = "outgoing" /\ txs[t].state = "pending"
  BY <1>1 DEF PendingOutgoing
<1>3. txs[t] \in TxRow BY <1>2 DEF Shape, StoreTypeOK
<1>4. sent[t] \in 0..txs[t].reserve BY <1>1, <1>2 DEF Shape, NodeOK, FeesWithin
<1>5. [StoreNext]_storeVars BY <1>1, <1>4 DEF StoreNext, Pay
<1>6. PICK x \in Nat : x = txs[t].reserve - sent[t] BY <1>3, <1>4 DEF TxRow
<1>7. Max({0, x}) = x
  <2>1. 0 \in Int /\ x \in Int OBVIOUS
  <2>2. Max({0, x}) \in {0, x} /\ Max({0, x}) >= x BY <2>1, MaxOfTwo
  <2> QED BY <2>2
<1>8. apps' = Credit(txs[t].app, x) BY <1>1, <1>6, <1>7 DEF FinalizeSucceeded
<1>9. PICK row :
        row = [txs[t] EXCEPT !.state = "settled", !.fees = sent[t], !.reserve = 0]
  OBVIOUS
<1>10. /\ row.type = txs[t].type /\ row.hash = txs[t].hash /\ row.amount = txs[t].amount
       /\ row.state # "pending"
  BY <1>3, <1>9 DEF TxRow
<1>11. OneRow(txs, txs', t) /\ t \in DOMAIN txs' /\ txs'[t] = row
  BY <1>1, <1>2, <1>9 DEF FinalizeSucceeded, OneRow
<1>12. Due(txs[t], t, sent, received) = x BY <1>1, <1>2, <1>6 DEF Due
<1>13. OnItsWay BY <1>1 DEF OnItsWay
<1>14. /\ UNCHANGED <<node, sent, received, abandoned>> /\ lost' = lost + 0
       /\ x <= x + 0 /\ x \in Int
  BY <1>1 DEF lndVars, Shape, NodeOK
<1> QED BY <1>1, <1>2, <1>5, <1>8, <1>10, <1>11, <1>12, <1>13, <1>14, ClosingKeeps

\* A payment that LND has not made gives everything back.
LEMMA BookFailedKeeps ==
  ASSUME Shape, NEW t \in TxId, BookFailed(t)
  PROVE  Kept
<1>1. /\ t \in PendingOutgoing /\ t \notin DOMAIN sent /\ FinalizeFailed(t)
      /\ UNCHANGED lndVars
  BY DEF BookFailed, Ledger
<1>2. t \in DOMAIN txs /\ txs[t].type = "outgoing" /\ txs[t].state = "pending"
  BY <1>1 DEF PendingOutgoing
<1>3. txs[t] \in TxRow BY <1>2 DEF Shape, StoreTypeOK
<1>5. [StoreNext]_storeVars BY <1>1 DEF StoreNext, Pay
<1>6. PICK x \in Nat : x = txs[t].amount + txs[t].reserve BY <1>3 DEF TxRow
<1>8. apps' = Credit(txs[t].app, x) BY <1>1, <1>6 DEF FinalizeFailed
<1>9. PICK row : row = [txs[t] EXCEPT !.state = "failed", !.reserve = 0]
  OBVIOUS
<1>10. /\ row.type = txs[t].type /\ row.hash = txs[t].hash /\ row.amount = txs[t].amount
       /\ row.state # "pending"
  BY <1>3, <1>9 DEF TxRow
<1>11. OneRow(txs, txs', t) /\ t \in DOMAIN txs' /\ txs'[t] = row
  BY <1>1, <1>2, <1>9 DEF FinalizeFailed, OneRow
<1>12. Due(txs[t], t, sent, received) = x BY <1>1, <1>2, <1>6 DEF Due
<1>13. OnItsWay BY <1>1 DEF OnItsWay
<1>14. /\ UNCHANGED <<node, sent, received, abandoned>> /\ lost' = lost + 0
       /\ x <= x + 0 /\ x \in Int
  BY <1>1 DEF lndVars, Shape, NodeOK
<1> QED BY <1>1, <1>2, <1>5, <1>8, <1>10, <1>11, <1>12, <1>13, <1>14, ClosingKeeps

\* A payment whose answer was lost gives everything back as well; what LND has
\* paid of it is lost.
LEMMA LoseAnswerKeeps ==
  ASSUME Shape, NEW t \in TxId, LoseAnswer(t)
  PROVE  Kept
<1>1. t \in PendingOutgoing /\ FinalizeFailed(t) /\ UNCHANGED <<node, sent, received>>
  BY DEF LoseAnswer
<1>2. t \in DOMAIN txs /\ txs[t].type = "outgoing" /\ txs[t].state = "pending"
  BY <1>1 DEF PendingOutgoing
<1>3. txs[t] \in TxRow BY <1>2 DEF Shape, StoreTypeOK
<1>4. PICK amt \in Nat, reserve \in Nat : amt = txs[t].amount /\ reserve = txs[t].reserve
  BY <1>3 DEF TxRow
<1>5. [StoreNext]_storeVars BY <1>1 DEF StoreNext, Pay
<1>6. PICK x \in Nat : x = amt + reserve OBVIOUS
<1>7. PICK due \in Int, loss \in Nat :
        /\ Due(txs[t], t, sent, received) = due /\ lost' = lost + loss
        /\ x <= due + loss /\ abandoned' \subseteq abandoned \cup {t}
  <2>1. CASE t \in DOMAIN sent
    <3>1. PICK fee \in 0..reserve : fee = sent[t]
      BY <1>2, <1>4, <2>1 DEF Shape, NodeOK, FeesWithin
    <3>2. fee \in Nat /\ reserve - fee \in Int /\ x <= (reserve - fee) + (amt + fee)
      BY <1>6, <3>1
    <3>3. /\ Due(txs[t], t, sent, received) = reserve - fee
          /\ lost' = lost + (amt + fee) /\ abandoned' = abandoned
      BY <1>2, <1>4, <2>1, <3>1 DEF LoseAnswer, Due, Shape, NodeOK
    <3> QED BY <3>2, <3>3
  <2>2. CASE t \notin DOMAIN sent
    <3>1. /\ Due(txs[t], t, sent, received) = x /\ x \in Int /\ x <= x + 0
          /\ lost' = lost + 0 /\ abandoned' = abandoned \cup {t}
      BY <1>2, <1>4, <1>6, <2>2 DEF LoseAnswer, Due, Shape, NodeOK
    <3> QED BY <3>1
  <2> QED BY <2>1, <2>2
<1>8. apps' = Credit(txs[t].app, x) BY <1>1, <1>4, <1>6 DEF FinalizeFailed
<1>9. PICK row : row = [txs[t] EXCEPT !.state = "failed", !.reserve = 0]
  OBVIOUS
<1>10. /\ row.type = txs[t].type /\ row.hash = txs[t].hash /\ row.amount = txs[t].amount
       /\ row.state # "pending"
  BY <1>3, <1>9 DEF TxRow
<1>11. OneRow(txs, txs', t) /\ t \in DOMAIN txs' /\ txs'[t] = row
  BY <1>1, <1>2, <1>9 DEF FinalizeFailed, OneRow
<1>12. OnItsWay BY <1>1 DEF OnItsWay
<1> QED BY <1>1, <1>2, <1>5, <1>7, <1>8, <1>10, <1>11, <1>12, ClosingKeeps

\* LND's side of a payment: the channels give the amount and the fee, and the
\* claim keeps what the fee leaves of the reserve.
LEMMA LndPaysKeeps ==
  ASSUME Shape, NEW t \in TxId, LndPays(t)
  PROVE  Kept
<1>1. PICK fee \in 0..txs[t].reserve :
        /\ t \in PendingOutgoing \ DOMAIN sent
        /\ txs[t].amount + fee <= node
        /\ node' = node - txs[t].amount - fee
        /\ sent' = Inserted(sent, t, fee)
        /\ UNCHANGED <<storeVars, received, abandoned, lost>>
  BY DEF LndPays, Send
<1>2. t \in DOMAIN txs /\ txs[t].type = "outgoing" /\ txs[t].state = "pending"
  BY <1>1 DEF PendingOutgoing
<1>3. txs[t] \in TxRow BY <1>2 DEF Shape, StoreTypeOK
<1>4. /\ DOMAIN sent' = DOMAIN sent \cup {t} /\ sent'[t] = fee
      /\ \A u \in DOMAIN sent : sent'[u] = sent[u]
  BY <1>1 DEF Inserted
<1>5. txs' = txs /\ apps' = apps /\ received' = received
  BY <1>1 DEF storeVars
<1>6. PICK amt \in Nat, reserve \in Nat :
        amt = txs[t].amount /\ reserve = txs[t].reserve /\ fee \in 0..reserve
  BY <1>1, <1>3 DEF TxRow
<1>7. FeesWithin(txs', sent')
  BY <1>2, <1>4, <1>5, <1>6 DEF Shape, NodeOK, FeesWithin
<1>8. node' \in Nat BY <1>1, <1>6 DEF Shape, NodeOK
<1>9. RowsOK' /\ NodeOK'
  <2>1. \A h : Incoming(h)' = Incoming(h) BY <1>5 DEF Incoming
  <2> QED BY <1>1, <1>2, <1>4, <1>5, <1>7, <1>8, <2>1 DEF Shape, RowsOK, NodeOK
<1>10. PICK y \in Int, z \in Int : y = -(amt + fee) /\ z = -(amt + fee) OBVIOUS
<1>11. Means' = Means + z BY <1>1, <1>6, <1>10 DEF Means, Shape, NodeOK
<1>12. SameBut(t, Dues(txs, sent, received), DOMAIN txs,
                  Dues(txs', sent', received'), DOMAIN txs')
  BY <1>4, <1>5 DEF SameBut, Dues, Due
<1>13. Worth(Dues(txs', sent', received'), DOMAIN txs', t) =
         Worth(Dues(txs, sent, received), DOMAIN txs, t) + y
  <2>1. /\ Worth(Dues(txs', sent', received'), DOMAIN txs', t) = reserve - fee
        /\ Worth(Dues(txs, sent, received), DOMAIN txs, t) = amt + reserve
    BY <1>1, <1>2, <1>4, <1>5, <1>6 DEF Worth, Dues, Due
  <2> QED BY <1>10, <2>1
<1>14. Promised(txs', sent', received') = Promised(txs, sent, received) + y
  <2>1. TypedTable(txs) /\ FeesWithin(txs, sent) /\ TypedTable(txs')
    BY <1>5, SumsType
  <2> QED BY <1>7, <1>12, <1>13, <2>1, PromisedMoves
<1>15. Held(apps') = Held(apps) + 0 BY <1>5, SumsType
<1>16. OnItsWay BY <1>1 DEF OnItsWay
<1>17. Moved(0, y, z) BY <1>10, <1>11, <1>14, <1>15, <1>16 DEF Moved
<1> QED BY <1>1, <1>5, <1>9, <1>17 DEF Kept

\* A payment that LND makes after its refund moves no claim: what the channels
\* give is lost.
LEMMA LndPaysLateKeeps ==
  ASSUME Shape, NEW t \in TxId, LndPaysLate(t)
  PROVE  Kept
<1>1. t \in DOMAIN txs /\ txs[t].state # "pending" /\ t \in abandoned
  BY DEF LndPaysLate, Shape, NodeOK
<1>2. PICK amt \in Amount : amt = txs[t].amount BY <1>1 DEF Shape, RowsOK
<1>3. FeeReserve(amt) \in Nat BY FeeReserveNat
<1>4. PICK fee \in Nat :
        /\ amt + fee <= node /\ node' = node - amt - fee
        /\ sent' = Inserted(sent, t, fee) /\ lost' = lost + amt + fee
        /\ UNCHANGED <<storeVars, received, abandoned>>
  BY <1>2, <1>3 DEF LndPaysLate, Send
<1>5. /\ DOMAIN sent' = DOMAIN sent \cup {t}
      /\ \A u \in DOMAIN sent \ {t} : sent'[u] = sent[u]
  BY <1>4 DEF Inserted
<1>6. txs' = txs /\ apps' = apps /\ received' = received BY <1>4 DEF storeVars
<1>7. FeesWithin(txs', sent') BY <1>1, <1>5, <1>6 DEF Shape, NodeOK, FeesWithin
<1>8. node' \in Nat /\ lost' \in Nat /\ Means' = Means + 0
  BY <1>4, StoreAssumption DEF Shape, NodeOK, Means
<1>9. RowsOK' /\ NodeOK'
  <2>1. \A h : Incoming(h)' = Incoming(h) BY <1>6 DEF Incoming
  <2> QED BY <1>1, <1>4, <1>5, <1>6, <1>7, <1>8, <2>1 DEF Shape, RowsOK, NodeOK
<1>10. Dues(txs', sent', received') = Dues(txs, sent, received)
  BY <1>1, <1>5, <1>6 DEF Dues, Due
<1>11. Promised(txs', sent', received') = Promised(txs, sent, received) + 0
  BY <1>6, <1>10, SumsType DEF Promised
<1>12. Held(apps') = Held(apps) + 0 BY <1>6, SumsType
<1>13. Moved(0, 0, 0) BY <1>8, <1>11, <1>12 DEF Moved
<1> QED BY <1>4, <1>6, <1>9, <1>13 DEF Kept

\* And of a receipt: what comes to the channels is claimed by its invoice.
LEMMA LndReceivesKeeps ==
  ASSUME Shape, NEW h \in Hash, LndReceives(h)
  PROVE  Kept
<1>1. PICK t \in PendingIncoming(h) :
        /\ h \notin received
        /\ node' = node + txs[t].amount
        /\ received' = received \cup {h}
        /\ UNCHANGED <<storeVars, sent, abandoned, lost>>
  BY DEF LndReceives
<1>2. /\ t \in DOMAIN txs /\ txs[t].type = "incoming" /\ txs[t].hash = h
      /\ txs[t].state = "pending" /\ t \in Incoming(h)
  BY DEF PendingIncoming, Incoming
<1>3. txs[t] \in TxRow BY <1>2 DEF Shape, StoreTypeOK
<1>4. txs' = txs /\ apps' = apps /\ sent' = sent BY <1>1 DEF storeVars
<1>5. PICK amt \in Nat : amt = txs[t].amount BY <1>3 DEF TxRow
<1>6. RowsOK' /\ NodeOK'
  <2>1. \A g : Incoming(g)' = Incoming(g) BY <1>4 DEF Incoming
  <2>2. node' \in Nat BY <1>1, <1>5 DEF Shape, NodeOK
  <2> QED BY <1>1, <1>2, <1>4, <2>1, <2>2 DEF Shape, RowsOK, NodeOK
<1>7. \A u \in DOMAIN txs \ {t} :
        Due(txs'[u], u, sent', received') = Due(txs[u], u, sent, received)
  BY <1>1, <1>2, <1>4 DEF Shape, RowsOK, Due
<1>8. SameBut(t, Dues(txs, sent, received), DOMAIN txs,
                 Dues(txs', sent', received'), DOMAIN txs')
  BY <1>4, <1>7 DEF SameBut, Dues
<1>9. Worth(Dues(txs', sent', received'), DOMAIN txs', t) =
        Worth(Dues(txs, sent, received), DOMAIN txs, t) + amt
  <2>1. /\ Worth(Dues(txs', sent', received'), DOMAIN txs', t) = amt
        /\ Worth(Dues(txs, sent, received), DOMAIN txs, t) = 0
    BY <1>1, <1>2, <1>4, <1>5 DEF Worth, Dues, Due
  <2> QED BY <2>1
<1>10. Promised(txs', sent', received') = Promised(txs, sent, received) + amt
  <2>1. TypedTable(txs) /\ FeesWithin(txs, sent) /\ TypedTable(txs') /\ FeesWithin(txs', sent')
    BY <1>4, SumsType
  <2>2. amt \in Int OBVIOUS
  <2> QED BY <1>8, <1>9, <2>1, <2>2, PromisedMoves
<1>11. Held(apps') = Held(apps) + 0 BY <1>4, SumsType
<1>12. OnItsWay'
  <2>1. t \in PendingIncoming(h)' BY <1>2, <1>4 DEF PendingIncoming, Incoming
  <2> QED BY <1>1, <2>1 DEF OnItsWay
<1>13. amt \in Int /\ 0 + amt <= amt OBVIOUS
<1>14. Means' = Means + amt BY <1>1, <1>5 DEF Means, Shape, NodeOK
<1>15. Moved(0, amt, amt) BY <1>10, <1>11, <1>12, <1>13, <1>14 DEF Moved
<1> QED BY <1>1, <1>4, <1>6, <1>13, <1>15 DEF Kept

\* Nothing that wallets and LND do makes money or moves what a quiet check has
\* looked at.
LEMMA OthersKeep ==
  ASSUME Shape, Wallets \/ Lnd
  PROVE  Kept /\ UNCHANGED <<check, overlooked>> /\ NoteDisturbance
<1>1. UNCHANGED <<check, overlooked>> /\ NoteDisturbance
  BY DEF Wallets, Lnd, Invoice, Reserve, CreditReceipt, BookPaid, BookFailed, LoseAnswer,
         Ledger, LndPays, LndPaysLate, LndReceives
<1>2. ASSUME NEW limit \in Limit, Ledger(CreateApp(limit)) PROVE Kept
  BY <1>2, CreateKeeps DEF Ledger
<1>3. ASSUME NEW a \in AppId, NEW amt \in Amount, Ledger(DrainToNode(a, amt)) PROVE Kept
  BY <1>3, DrainKeeps DEF Ledger
<1> QED
  BY <1>1, <1>2, <1>3, InvoiceKeeps, ReserveKeeps, CreditKeeps, BookPaidKeeps,
     BookFailedKeeps, LoseAnswerKeeps, LndPaysKeeps, LndPaysLateKeeps, LndReceivesKeeps
  DEF Wallets, Lnd

-----------------------------------------------------------------------------
(* The handler.                                                            *)

\* With no money on its way no row claims anything.
LEMMA NothingPromised ==
  ASSUME Shape, ~OnItsWay
  PROVE  Promised(txs, sent, received) = 0
<1>1. \A t \in DOMAIN txs : Due(txs[t], t, sent, received) = 0
  <2> SUFFICES ASSUME NEW t \in DOMAIN txs, txs[t].state = "pending"
               PROVE  Due(txs[t], t, sent, received) = 0
    BY DEF Due
  <2>1. txs[t] \in TxRow BY DEF Shape, StoreTypeOK
  <2>2. txs[t].type # "outgoing" BY DEF OnItsWay, PendingOutgoing
  <2>3. txs[t].type = "incoming" BY <2>1, <2>2 DEF TxRow
  <2>4. t \in PendingIncoming(txs[t].hash) BY <2>3 DEF PendingIncoming, Incoming
  <2>5. txs[t].hash \notin received BY <2>4 DEF OnItsWay
  <2> QED BY <2>3, <2>5 DEF Due
<1>2. IsFiniteSet(DOMAIN txs) BY SumsType DEF TypedTable
<1>3. PICK f : f = Dues(txs, sent, received) OBVIOUS
<1>4. \A t \in DOMAIN txs : f[t] = 0 BY <1>1, <1>3 DEF Dues
<1>5. SumFunctionOnSet(f, DOMAIN txs) = 0 BY <1>2, <1>4, SumZero
<1> QED BY <1>3, <1>5 DEF Promised

\* A step of a handler that leaves the tables and the node alone.
LEMMA LookingKeeps ==
  ASSUME Backing, NEW k \in Http,
         \/ \E a \in DOMAIN apps, amt \in Amount :
              AskNode(k, a, amt) \/ NodeDoesNotAnswer(k, a, amt)
         \/ Compare(k)
  PROVE  Backing' /\ UNCHANGED storeVars
<1>1. /\ UNCHANGED <<storeVars, lndVars, overlooked>> /\ NoteDisturbance
  BY DEF AskNode, NodeDoesNotAnswer, Compare
<1>2. /\ apps' = apps /\ txs' = txs /\ lastApp' = lastApp /\ lastTx' = lastTx
      /\ node' = node /\ sent' = sent /\ received' = received
      /\ abandoned' = abandoned /\ lost' = lost /\ Means' = Means
  BY <1>1 DEF storeVars, lndVars, Means
<1>3. OnItsWay' = OnItsWay
  BY <1>2 DEF OnItsWay, PendingOutgoing, PendingIncoming, Incoming
<1>4. StoreTypeOK' /\ RowsOK' /\ NodeOK' /\ (overlooked' \/ Covered')
  <2>1. \A h : Incoming(h)' = Incoming(h) BY <1>2 DEF Incoming
  <2>2. overlooked' = overlooked BY <1>1
  <2> QED BY <1>2, <2>1, <2>2
          DEF Backing, Shape, StoreTypeOK, RowsOK, NodeOK, Covered
<1>5. /\ check' = [h \in Http |-> check'[h]]
      /\ \A h \in Http \ {k} : check'[h] = check[h]
  BY DEF AskNode, NodeDoesNotAnswer, Compare, Backing, Shape, ChecksOK
<1>6. \/ check'[k] = Idle
      \/ \E pc \in {"sum", "transfer"}, a \in DOMAIN apps, amt \in Amount,
           local \in Nat, checked \in BOOLEAN :
             /\ check'[k] = Handler(pc, a, amt, local, checked)
             /\ k \notin disturbed' =>
                  /\ pc = "sum" => local <= Means /\ checked
                  /\ pc = "transfer" /\ checked => Held(apps) + amt <= Means
  <2>1. ASSUME NEW a \in DOMAIN apps, NEW amt \in Amount,
               AskNode(k, a, amt) \/ NodeDoesNotAnswer(k, a, amt)
        PROVE  \E local \in Nat, checked \in BOOLEAN :
                 \/ /\ check'[k] = Handler("sum", a, amt, local, checked)
                    /\ local <= Means /\ checked
                 \/ check'[k] = Handler("transfer", a, amt, local, checked) /\ ~checked
    <3>1. node \in Nat /\ node <= Means BY DEF Backing, Shape, NodeOK, Means
    <3>2. CASE AskNode(k, a, amt)
      <4>1. check'[k] = Handler("sum", a, amt, node, TRUE)
        BY <3>2 DEF AskNode, Backing, Shape, ChecksOK
      <4> QED BY <3>1, <4>1
    <3>3. CASE NodeDoesNotAnswer(k, a, amt)
      <4>1. check'[k] = Handler("transfer", a, amt, 0, FALSE)
        BY <3>3 DEF NodeDoesNotAnswer, Backing, Shape, ChecksOK
      <4> QED BY <4>1
    <3> QED BY <2>1, <3>2, <3>3
  <2>2. CASE Compare(k)
    <3>1. PICK a \in DOMAIN apps, amt \in Amount, local \in Nat, checked \in BOOLEAN :
            check[k] = Handler("sum", a, amt, local, checked)
      BY <2>2 DEF Compare, Backing, Shape, ChecksOK, Handler, Idle
    <3>2. CASE local > 0 /\ Held(apps) + amt > local
      BY <2>2, <3>1, <3>2 DEF Compare, Handler, Allocated, Held, Balances,
                              Backing, Shape, ChecksOK
    <3>3. CASE ~(local > 0 /\ Held(apps) + amt > local)
      <4>1. PICK both \in BOOLEAN : /\ check'[k] = Handler("transfer", a, amt, local, both)
                                    /\ both => checked /\ local > 0
        <5>1. ~(check[k].local > 0 /\ Allocated + check[k].amount > check[k].local)
          BY <3>1, <3>3 DEF Handler, Allocated, Held, Balances
        <5>2. /\ check[k].app = a /\ check[k].amount = amt /\ check[k].local = local
              /\ check[k].checked = checked
          BY <3>1 DEF Handler
        <5>3. check'[k] = Handler("transfer", check[k].app, check[k].amount, check[k].local,
                                  check[k].checked /\ check[k].local > 0)
          BY <2>2, <5>1 DEF Compare, Backing, Shape, ChecksOK
        <5>4. check'[k] = Handler("transfer", a, amt, local, checked /\ local > 0)
          BY <5>2, <5>3
        <5>5. PICK both \in BOOLEAN : both = (checked /\ local > 0) OBVIOUS
        <5> QED BY <5>4, <5>5
      <4>2. Checking(k) /\ Checking(k)' BY <3>1, <4>1 DEF Checking, Handler
      <4>3. k \notin disturbed' => k \notin disturbed
        BY <1>1, <4>2 DEF NoteDisturbance
      <4>4. k \notin disturbed => local <= Means
        BY <3>1, <4>2 DEF Backing, QuietOK, Handler
      <4>5. Held(apps) \in Int /\ amt \in Int /\ Means \in Int
        BY SumsType, StoreAssumption DEF Backing
      <4>6. k \notin disturbed' => (local > 0 => Held(apps) + amt <= Means)
        BY <3>3, <4>3, <4>4, <4>5
      <4> QED BY <4>1, <4>6
    <3> QED BY <3>2, <3>3
  <2> QED BY <2>1, <2>2
<1>7. ChecksOK'
  BY <1>1, <1>2, <1>5, <1>6 DEF Backing, Shape, ChecksOK
<1>8. QuietOK'
  <2> SUFFICES ASSUME NEW h \in Http, Checking(h)', h \notin disturbed'
               PROVE  /\ ~OnItsWay'
                      /\ \A g \in Http \ {h} : ~Checking(g)'
                      /\ check'[h].pc = "sum" => check'[h].local <= Means /\ check'[h].checked
                      /\ check'[h].pc = "transfer" /\ check'[h].checked =>
                           Held(apps) + check'[h].amount <= Means
    BY <1>2 DEF QuietOK
  <2>1. /\ h \notin disturbed /\ ~OnItsWay' /\ \A g \in Http \ {h} : ~Checking(g)'
    BY <1>1 DEF NoteDisturbance
  <2>2. CASE h = k
    <3>1. PICK pc, a, amt, local, checked :
            /\ check'[h] = Handler(pc, a, amt, local, checked)
            /\ pc = "sum" => local <= Means /\ checked
            /\ pc = "transfer" /\ checked => Held(apps) + amt <= Means
      BY <1>6, <2>2 DEF Checking, Idle, Handler
    <3> QED BY <2>1, <3>1 DEF Handler
  <2>3. CASE h # k
    <3>1. check'[h] = check[h] /\ Checking(h) BY <1>5, <2>3 DEF Checking
    <3> QED BY <2>1, <3>1 DEF Backing, QuietOK
  <2> QED BY <2>2, <2>3
<1> QED BY <1>1, <1>4, <1>7, <1>8 DEF Backing, Shape

\* A funding that was compared while it was quiet finds no claims, and room for
\* its amount beside what the wallets hold.
LEMMA TransferKeeps ==
  ASSUME Backing, NEW k \in Http, Transfer(k)
  PROVE  Backing' /\ [StoreNext]_storeVars
<1>1. PICK a \in DOMAIN apps, amt \in Amount, local \in Nat, checked \in BOOLEAN :
        check[k] = Handler("transfer", a, amt, local, checked)
  BY DEF Transfer, Backing, Shape, ChecksOK, Handler, Idle
<1>2. /\ FundFromNode(a, amt) /\ UNCHANGED lndVars /\ NoteDisturbance
      /\ check' = [check EXCEPT ![k] = Idle]
      /\ overlooked' = (overlooked \/ ~check[k].checked \/ k \in disturbed)
  BY <1>1 DEF Transfer, Handler
<1>3. a \in AppId
  <2>1. DOMAIN apps \subseteq 1..lastApp /\ lastApp \in 0..MaxApp /\ MaxApp \in Nat
    BY StoreAssumption DEF Backing, Shape, StoreTypeOK
  <2> QED BY <2>1 DEF AppId
<1>4. [StoreNext]_storeVars BY <1>2, <1>3 DEF StoreNext, Operator
<1>5. StoreTypeOK' BY <1>4, StoreTypeStep DEF Backing, Shape
<1> DEFINE row == Row(a, "incoming", "settled", amt, 0, NoHash)
<1>6. PICK x \in Nat : x = amt BY StoreAssumption
<1>7. InsertTx(row) /\ apps' = Credit(a, x) BY <1>2, <1>6 DEF FundFromNode
<1>8. /\ row.amount = amt /\ row.hash \notin Hash
      /\ Due(row, lastTx + 1, sent, received) = 0
  BY StoreAssumption DEF Row, Due
<1> HIDE DEF row
<1>9. /\ RowsOK' /\ NodeOK'
      /\ Promised(txs', sent', received') = Promised(txs, sent, received) + 0
  BY <1>2, <1>5, <1>7, <1>8, RowAdded DEF Backing
<1>10. /\ DOMAIN apps' = DOMAIN apps
       /\ \A c \in DOMAIN apps : apps'[c].balance = apps[c].balance + OnlyFor(c, a, x)
  BY <1>7, CreditBalances DEF Backing, Shape
<1>11. x \in Int OBVIOUS
<1>12. Held(apps') = Held(apps) + x
  BY <1>5, <1>10, <1>11, HeldMoves DEF Backing, Shape
<1>13. /\ check' = [h \in Http |-> check'[h]] /\ check'[k] = Idle
       /\ \A h \in Http \ {k} : check'[h] = check[h]
  BY <1>2 DEF Backing, Shape, ChecksOK
<1>14. ChecksOK'
  <2>1. overlooked' \in BOOLEAN BY <1>2
  <2> QED BY <1>10, <1>13, <2>1 DEF Backing, Shape, ChecksOK
<1>15. Checking(k) BY <1>1 DEF Checking, Handler
<1>16. QuietOK'
  <2>1. \A h \in Http : Checking(h)' => h # k /\ Checking(h)
    BY <1>13 DEF Checking, Idle, Handler
  <2>2. \A h \in Http : Checking(h)' /\ h \notin disturbed' => h \notin disturbed
    BY <1>2 DEF NoteDisturbance
  <2> QED BY <1>15, <2>1, <2>2 DEF Backing, QuietOK
<1>17. overlooked' \/ Covered'
  <2>a. check[k].checked = checked BY <1>1 DEF Handler
  <2>b. ~checked \/ k \in disturbed => overlooked' BY <1>2, <2>a
  <2> SUFFICES ASSUME checked, k \notin disturbed PROVE Covered'
    BY <2>b
  <2>1. ~OnItsWay /\ Held(apps) + x <= Means
    BY <1>1, <1>6, <1>15 DEF Backing, QuietOK, Handler
  <2>2. Promised(txs, sent, received) = 0 BY <2>1, NothingPromised DEF Backing
  <2>3. Held(apps) \in Int /\ Means' = Means BY <1>2, SumsType DEF Backing, lndVars, Means
  <2>4. Held(apps') + Promised(txs', sent', received') = Held(apps) + x
    BY <1>9, <1>12, <2>2, <2>3
  <2> QED BY <2>1, <2>3, <2>4 DEF Covered
<1> QED BY <1>4, <1>5, <1>9, <1>14, <1>16, <1>17 DEF Backing, Shape

\* What wallets and LND do keeps the claims covered and quiet checks right.
LEMMA OthersBack ==
  ASSUME Backing, Wallets \/ Lnd
  PROVE  Backing'
<1>1. Kept /\ UNCHANGED <<check, overlooked>> /\ NoteDisturbance
  BY OthersKeep DEF Backing
<1>2. /\ RowsOK' /\ NodeOK' /\ StoreTypeOK' /\ DOMAIN apps \subseteq DOMAIN apps'
  BY <1>1, StoreTypeStep DEF Kept, Backing, Shape
<1>3. ChecksOK' BY <1>1, <1>2 DEF Backing, Shape, ChecksOK
<1>4. PICK x \in Int, y \in Int, z \in Int : Moved(x, y, z) BY <1>1 DEF Kept
<1>5. PICK held \in Int, promised \in Int, funds \in Int :
        /\ held = Held(apps) /\ promised = Promised(txs, sent, received) /\ funds = Means
  BY SumsType DEF Backing
<1>6. /\ Held(apps') = held + x /\ Promised(txs', sent', received') = promised + y
      /\ Means' = funds + z /\ x + y <= z
      /\ OnItsWay \/ OnItsWay' \/ (x <= 0 /\ z = 0)
  BY <1>4, <1>5 DEF Moved
<1>7. overlooked' \/ Covered'
  BY <1>1, <1>5, <1>6 DEF Backing, Covered
<1>8. QuietOK'
  <2> SUFFICES ASSUME NEW h \in Http, Checking(h)', h \notin disturbed'
               PROVE  /\ ~OnItsWay'
                      /\ \A g \in Http \ {h} : ~Checking(g)'
                      /\ check[h].pc = "sum" => check[h].local <= Means' /\ check[h].checked
                      /\ check[h].pc = "transfer" /\ check[h].checked =>
                           Held(apps') + check[h].amount <= Means'
    BY <1>1 DEF QuietOK
  <2>1. h \notin disturbed /\ ~OnItsWay' /\ \A g \in Http \ {h} : ~Checking(g)'
    BY <1>1 DEF NoteDisturbance
  <2>2. Checking(h) BY <1>1 DEF Checking
  <2>3. /\ ~OnItsWay
        /\ check[h].pc = "sum" => check[h].local <= Means /\ check[h].checked
        /\ check[h].pc = "transfer" /\ check[h].checked =>
             Held(apps) + check[h].amount <= Means
    BY <2>1, <2>2 DEF Backing, QuietOK
  <2>4. x <= 0 /\ z = 0 BY <1>6, <2>1, <2>3
  <2>5. Means' = Means BY <1>5, <1>6, <2>4
  <2>6. PICK amt \in Int : amt = check[h].amount
    <3>1. check[h] # Idle BY <2>2 DEF Checking, Idle, Handler
    <3>2. PICK pc \in {"sum", "transfer"}, a \in DOMAIN apps, amt \in Amount,
               local \in Nat, checked \in BOOLEAN :
            check[h] = Handler(pc, a, amt, local, checked)
      BY <3>1 DEF Backing, Shape, ChecksOK
    <3> QED BY <3>2, StoreAssumption DEF Handler
  <2>7. held + amt <= funds => held + x + amt <= funds BY <2>4
  <2> QED BY <1>5, <1>6, <2>1, <2>3, <2>5, <2>6, <2>7
<1> QED BY <1>2, <1>3, <1>7, <1>8 DEF Backing, Shape

\* Every step keeps the strengthening, and moves the ledger as a call of the
\* store would.
LEMMA BackingStep == Backing /\ [Next]_vars => Backing' /\ [StoreNext]_storeVars
<1> SUFFICES ASSUME Backing, [Next]_vars PROVE Backing' /\ [StoreNext]_storeVars
  OBVIOUS
<1>1. CASE UNCHANGED vars
  <2>1. Backing'
    BY <1>1 DEF vars, storeVars, lndVars, Backing, Shape, StoreTypeOK, RowsOK, NodeOK,
                FeesWithin, ChecksOK, QuietOK, Covered, Means, Checking, OnItsWay,
                PendingOutgoing, PendingIncoming, Incoming
  <2> QED BY <1>1, <2>1 DEF vars
<1>2. CASE Wallets \/ Lnd
  BY <1>2, OthersBack, OthersKeep DEF Kept, Backing
<1>3. CASE Handlers
  <2>1. PICK k \in Http :
          \/ \E a \in DOMAIN apps, amt \in Amount :
               AskNode(k, a, amt) \/ NodeDoesNotAnswer(k, a, amt)
          \/ Compare(k)
          \/ Transfer(k)
    BY <1>3 DEF Handlers
  <2>2. CASE Transfer(k) BY <2>2, TransferKeeps
  <2>3. CASE ~Transfer(k) BY <2>1, <2>3, LookingKeeps
  <2> QED BY <2>2, <2>3
<1> QED BY <1>1, <1>2, <1>3 DEF Next

\* Nothing is held, claimed or checked at the start.
LEMMA BackingInit == Init => Backing
<1> SUFFICES ASSUME Init PROVE Backing OBVIOUS
<1>1. StoreTypeOK BY StoreAssumption DEF Init, StoreInit, StoreTypeOK
<1>2. DOMAIN apps = {} /\ DOMAIN txs = {} /\ DOMAIN sent = {}
  BY DEF Init, StoreInit
<1>3. RowsOK /\ NodeOK
  BY <1>2, FundingAssumption DEF Init, RowsOK, NodeOK, FeesWithin
<1>4. ChecksOK /\ QuietOK BY DEF Init, ChecksOK, QuietOK, Checking, Idle, Handler
<1>5. Covered
  <2>1. Held(apps) = 0 /\ Promised(txs, sent, received) = 0
    BY <1>2, SumEmpty DEF Held, Promised
  <2> QED BY <2>1, FundingAssumption DEF Init, Covered, Means
<1> QED BY <1>1, <1>3, <1>4, <1>5 DEF Backing, Shape

LEMMA BackingHolds == Spec => []Backing
BY BackingInit, BackingStep, PTL DEF Spec

\* Fundings, payments and receipts, however they interleave, are calls of the
\* store: all that is proved of the ledger, the books and the limits among it,
\* holds while the node is being asked.
THEOREM FundingImplementsStore == Spec => StoreSpec
<1>1. Init => StoreInit BY DEF Init
<1> QED BY <1>1, BackingHolds, BackingStep, PTL DEF Spec, StoreSpec

\* The wallets never hold more than the node's channels, and what LND paid for
\* refunded payments, if every funding was compared while it was quiet: the comparison, which does not look at what is
\* on its way, is enough then, whatever was paid and received before and after.
THEOREM QuietFundingsBacked == Spec => []QuietFundingsAreBacked
<1>1. Backing => QuietFundingsAreBacked
  <2> SUFFICES ASSUME Backing, ~overlooked PROVE Allocated <= Means
    BY DEF QuietFundingsAreBacked, Means
  <2>1. Allocated = Held(apps) BY DEF Allocated, Held, Balances
  <2>2. Promised(txs, sent, received) >= 0
    <3>1. PICK S, f : S = DOMAIN txs /\ f = Dues(txs, sent, received) OBVIOUS
    <3>2. IsFiniteSet(S) /\ \A t \in S : f[t] \in Nat
      BY <3>1, SumsType, DuesType DEF Backing, Summable, Dues
    <3>3. SumFunctionOnSet(f, {}) <= SumFunctionOnSet(f, S) BY <3>2, SumMonotone
    <3>4. SumFunctionOnSet(f, {}) = 0 BY SumEmpty
    <3> QED BY <3>1, <3>3, <3>4 DEF Promised
  <2>3. Held(apps) + Promised(txs, sent, received) <= Means
    BY DEF Backing, Covered
  <2>4. Held(apps) \in Int /\ Promised(txs, sent, received) \in Int /\ Means \in Int
    BY SumsType DEF Backing
  <2> QED BY <2>1, <2>2, <2>3, <2>4
<1> QED BY <1>1, BackingHolds, PTL

\* While wallets are funded, pay and receive at once, each balance is what the
\* wallet's rows add up to, a settled row is never written again, only a
\* wallet's own payment takes money from it, and its limit holds.
THEOREM FundingKeepsTheLedger ==
  Spec => /\ [](BalanceMatchesRows /\ PaymentsWithinLimit)
          /\ ClosedRowsFinal /\ OnlyOwnRowsDebit
<1> QED BY FundingImplementsStore, BalanceIsRowsSum, LimitHolds, ClosedRowsAreFinal,
           DebitsAreOwn, PTL
=============================================================================

--------------------------- MODULE HubManagerProofs ---------------------------
(***************************************************************************)
(* Proofs about the managed wallets: about class AlbyHubManager, its       *)
(* operations (HubManager) and its session with the daemon (HubSession),   *)
(* and about the unit that creates the declared wallets (Provisioning):    *)
(* three specifications with variables of their own.                       *)
(*                                                                         *)
(* For any number of managers, aliases and wallets, any amounts and any    *)
(* number of msat per satoshi, the operations and their wallets keep their *)
(* types, a quiet drain is complete, and an alias names one wallet.  The   *)
(* inductive invariant is Management.  A manager relies, between two       *)
(* requests, on what it read before: Fits says for every operation what of *)
(* it is still true, Exclusive that nobody else works on its alias.        *)
(*                                                                         *)
(* For any number of threads, any sequences of calls and any number of     *)
(* restarts, no call of a request is executed twice.  The retry of         *)
(* _authenticated_request is not idempotent by itself; what makes it safe  *)
(* is that it follows a refusal only.                                      *)
(*                                                                         *)
(* For any configurations, any spelling of the aliases in them and any     *)
(* number of stops, failures and commands of the operator, the script of   *)
(* the unit never loses the pairing URI of a wallet.                       *)
(***************************************************************************)
EXTENDS HubManager, HubSession, Provisioning, NwcStoreProofs

-----------------------------------------------------------------------------
(* A list that is read page by page; LnurlServiceProofs has the same lemmas,  *)
(* for the same _paginate.                                                    *)

\* The wallets of S that are on the first o places of their list.
RankIn(S, i) == Cardinality({j \in S : j < i})
ReadIn(S, o) == {i \in S : RankIn(S, i) < o}
PageIn(S, o, p) == {i \in S : RankIn(S, i) \in o..(o + p - 1)}

LEMMA RankType ==
  ASSUME NEW S, IsFiniteSet(S), NEW i
  PROVE  RankIn(S, i) \in Nat /\ RankIn(S, i) <= Cardinality(S) /\ Cardinality(S) \in Nat
BY FS_Subset, FS_CardinalityType DEF RankIn

\* A new wallet is the last one, so it is behind what was read.
LEMMA ReadGrows ==
  ASSUME NEW n \in Nat, NEW S \in SUBSET (1..n), NEW o \in Nat, o <= Cardinality(S)
  PROVE  /\ Cardinality(S \cup {n + 1}) = Cardinality(S) + 1
         /\ Cardinality(S) \in Nat
         /\ ReadIn(S \cup {n + 1}, o) = ReadIn(S, o)
<1>1. IsFiniteSet(S)
  <2>1. IsFiniteSet(1..n) BY FS_Interval
  <2> QED BY <2>1, FS_Subset
<1>2. n + 1 \notin S /\ ~(n + 1 < n + 1) /\ \A j \in S : j < n + 1 OBVIOUS
<1>3. \A i \in S : RankIn(S \cup {n + 1}, i) = RankIn(S, i)
  <2> SUFFICES ASSUME NEW i \in S PROVE RankIn(S \cup {n + 1}, i) = RankIn(S, i) OBVIOUS
  <2>1. {j \in S \cup {n + 1} : j < i} = {j \in S : j < i} OBVIOUS
  <2> QED BY <2>1 DEF RankIn
<1>4. RankIn(S \cup {n + 1}, n + 1) = Cardinality(S)
  <2>1. {j \in S \cup {n + 1} : j < n + 1} = S
    <3>1. \A j \in S \cup {n + 1} : j < n + 1 <=> j \in S BY <1>2
    <3> QED BY <3>1
  <2> QED BY <2>1 DEF RankIn
<1>5. Cardinality(S) \in Nat BY <1>1, FS_CardinalityType
<1>6. ~(RankIn(S \cup {n + 1}, n + 1) < o) BY <1>4, <1>5
<1>7. ReadIn(S \cup {n + 1}, o) = ReadIn(S, o) BY <1>2, <1>3, <1>6 DEF ReadIn
<1>8. Cardinality(S \cup {n + 1}) = Cardinality(S) + 1 BY <1>1, <1>2, FS_AddElement
<1> QED BY <1>5, <1>7, <1>8

\* A page adds the next p places; the list is read when nothing is left.
LEMMA ReadMore ==
  ASSUME NEW S, IsFiniteSet(S), NEW o \in Nat, NEW p \in Nat,
         NEW page, page = PageIn(S, o, p)
  PROVE  /\ ReadIn(S, o + p) = ReadIn(S, o) \cup page
         /\ Cardinality(ReadIn(S, o + p)) = Cardinality(ReadIn(S, o)) + Cardinality(page)
         /\ Cardinality(ReadIn(S, o + p)) < Cardinality(S) => o + p <= Cardinality(S)
         /\ Cardinality(ReadIn(S, o + p)) >= Cardinality(S) => ReadIn(S, o + p) = S
<1>1. \A i \in S : RankIn(S, i) \in Nat /\ RankIn(S, i) <= Cardinality(S)
  BY RankType
<1>2. ReadIn(S, o + p) = ReadIn(S, o) \cup page BY <1>1 DEF ReadIn, PageIn
<1>3. ReadIn(S, o) \cap page = {} BY <1>1 DEF ReadIn, PageIn
<1>4. /\ IsFiniteSet(ReadIn(S, o)) /\ IsFiniteSet(page) /\ IsFiniteSet(ReadIn(S, o + p))
      /\ ReadIn(S, o + p) \subseteq S
  BY FS_Subset DEF ReadIn, PageIn
<1>5. Cardinality(ReadIn(S, o + p)) = Cardinality(ReadIn(S, o)) + Cardinality(page)
  <2>1. Cardinality(ReadIn(S, o) \cap page) = 0 BY <1>3, FS_EmptySet
  <2>2. Cardinality(ReadIn(S, o)) \in Nat /\ Cardinality(page) \in Nat
    BY <1>4, FS_CardinalityType
  <2>3. Cardinality(ReadIn(S, o) \cup page) =
          Cardinality(ReadIn(S, o)) + Cardinality(page) - Cardinality(ReadIn(S, o) \cap page)
    BY <1>4, FS_Union
  <2>4. PICK a \in Nat, b \in Nat :
          a = Cardinality(ReadIn(S, o)) /\ b = Cardinality(page) BY <2>2
  <2>5. Cardinality(ReadIn(S, o) \cup page) = a + b - 0 BY <2>1, <2>3, <2>4
  <2>6. a + b - 0 = a + b OBVIOUS
  <2> QED BY ONLY <1>2, <2>4, <2>5, <2>6
<1>6. Cardinality(S) \in Nat /\ Cardinality(ReadIn(S, o + p)) \in Nat
  BY <1>4, FS_CardinalityType
<1>7. ASSUME Cardinality(ReadIn(S, o + p)) < Cardinality(S) PROVE o + p <= Cardinality(S)
  <2>1. ReadIn(S, o + p) # S BY <1>6, <1>7
  <2>2. PICK i \in S : i \notin ReadIn(S, o + p) BY <1>4, <2>1
  <2>3. ~(RankIn(S, i) < o + p) BY <2>2 DEF ReadIn
  <2> QED BY <1>1, <1>6, <2>2, <2>3
<1>8. ASSUME Cardinality(ReadIn(S, o + p)) >= Cardinality(S) PROVE ReadIn(S, o + p) = S
  <2>1. Cardinality(ReadIn(S, o + p)) <= Cardinality(S) BY <1>4, FS_Subset
  <2>2. Cardinality(ReadIn(S, o + p)) = Cardinality(S) BY <1>6, <1>8, <2>1
  <2> QED BY <1>4, <2>2, FS_Subset
<1> QED BY <1>2, <1>5, <1>7, <1>8

-----------------------------------------------------------------------------
(* The invariant.                                                          *)

\* Of what an operation keeps about its wallet while nobody else touches it.
Undisturbed(o) ==
  /\ o.pc \notin {"listing", "found"}
  /\ o.pc \in {"resolving", "checking", "sending"} =>
       o.app \in DOMAIN apps /\ apps[o.app].balance = o.seen
  /\ o.pc \in {"verifying", "drained", "deleting"} =>
       o.app \in DOMAIN apps /\ apps[o.app].balance = Dust(o.seen)
  /\ o.pc \in {"sending", "verifying", "drained", "deleting"} =>
       PendingRows(o.app) = {}

\* What was read of the list is a beginning of it without the alias.
ListFits(o) ==
  /\ o.offset <= Cardinality(DOMAIN apps)
  /\ o.count = Cardinality(ReadIn(DOMAIN apps, o.offset))
  /\ \A a \in ReadIn(DOMAIN apps, o.offset) : alias[a] # o.alias

\* The wallet an operation found has its alias, one about to create an app
\* found the alias free, and one that looks for it has found nobody yet.
Fits(o) ==
  /\ o \in Operation
  /\ o.pc # "idle" => o.alias \in Alias
  /\ o.pc = "idle" => o.offset = 0
  /\ o.app # 0 /\ o.pc \notin {"idle", "creating"} =>
       /\ o.app \in 1..lastApp
       /\ o.app \in DOMAIN apps => alias[o.app] = o.alias
  /\ o.hit \/ o.pc \notin {"idle", "listing", "resolving", "creating"} => o.app # 0
  /\ o.pc = "creating" /\ o.alias \notin disputed => Found(o.alias) = {}
  /\ Unique(o) /\ o.alias \notin disputed => ListFits(o)
  /\ o.quiet => Undisturbed(o)

Exclusive == \A m, n \in Manager :
  m # n /\ op[m].alias = op[n].alias => op[m].alias \in disputed \cup {NoAlias}

Management ==
  /\ StoreTypeOK
  /\ alias \in [DOMAIN apps -> Alias]
  /\ op \in [Manager -> Operation] /\ disputed \subseteq Alias
  /\ Exclusive
  /\ AliasUnique
  /\ \A n \in Manager : Fits(op[n])

-----------------------------------------------------------------------------
(* Sums of money, and what touches a wallet.                               *)

\* A balance is its whole satoshis and its dust.
LEMMA SatParts ==
  ASSUME NEW x \in Nat
  PROVE  /\ WholeSats(x) \in Nat /\ WholeSats(x) <= x
         /\ Dust(x) \in Nat /\ x - WholeSats(x) = Dust(x)
BY HubAssumption DEF WholeSats, Dust

\* What an operation knows of its wallet is still true after a step that does
\* not touch the wallet.
LEMMA UndisturbedKept ==
  ASSUME NEW o \in Operation, Undisturbed(o), ~Touches(o.app)
  PROVE  Undisturbed(o)'
<1>1. ASSUME o.app \in DOMAIN apps
      PROVE  /\ o.app \in DOMAIN apps' /\ apps'[o.app] = apps[o.app]
             /\ PendingRows(o.app)' \subseteq PendingRows(o.app)
  BY <1>1 DEF Touches, PendingRows, RowsOf
<1>2. CASE o.app \in DOMAIN apps
  BY <1>1, <1>2 DEF Undisturbed
<1>3. CASE o.app \notin DOMAIN apps
  <2>1. o.pc \notin {"listing", "found", "resolving", "checking", "sending",
                     "verifying", "drained", "deleting"}
    BY <1>3 DEF Undisturbed
  <2> QED BY <2>1 DEF Undisturbed
<1> QED BY <1>2, <1>3

LEMMA IdsFinite == ASSUME NEW n \in Nat, NEW S \in SUBSET (1..n) PROVE IsFiniteSet(S)
<1>1. IsFiniteSet(1..n) BY FS_Interval
<1> QED BY <1>1, FS_Subset

LEMMA AppsFinite == ASSUME StoreTypeOK PROVE IsFiniteSet(DOMAIN apps)
<1>1. lastApp \in Nat /\ DOMAIN apps \in SUBSET (1..lastApp)
  BY StoreAssumption DEF StoreTypeOK
<1> QED BY <1>1, IdsFinite

\* A beginning of the list stays one when a wallet is created behind it, and
\* when nothing was read yet.
LEMMA ListKept ==
  ASSUME StoreTypeOK, StoreTypeOK', NEW o \in Operation, ListFits(o),
         \A a \in DOMAIN apps \cap DOMAIN apps' : alias'[a] = alias[a],
         \/ DOMAIN apps' \in {DOMAIN apps, DOMAIN apps \cup {lastApp + 1}}
         \/ o.offset = 0
  PROVE  ListFits(o)'
<1>1. PICK i \in Nat, c \in Nat : i = o.offset /\ c = o.count BY DEF Operation
<1>2. PICK S, T : S = DOMAIN apps /\ T = DOMAIN apps' OBVIOUS
<1>3. IsFiniteSet(S) /\ IsFiniteSet(T)
  <2>1. PICK n \in Nat, k \in Nat : n = lastApp /\ k = lastApp'
    BY StoreAssumption DEF StoreTypeOK
  <2>2. S \in SUBSET (1..n) /\ T \in SUBSET (1..k) BY <1>2, <2>1 DEF StoreTypeOK
  <2> QED BY <2>2, IdsFinite
<1>4. Cardinality(T) \in Nat BY <1>3, FS_CardinalityType
<1>5. i <= Cardinality(S) /\ c = Cardinality(ReadIn(S, i))
  BY <1>1, <1>2 DEF ListFits
<1>6. i <= Cardinality(T) /\ ReadIn(T, i) = ReadIn(S, i)
  <2>1. CASE T = S BY <1>5, <2>1
  <2>2. CASE T = S \cup {lastApp + 1}
    <3>1. PICK n \in Nat : n = lastApp /\ S \in SUBSET (1..n)
      BY <1>2, StoreAssumption DEF StoreTypeOK
    <3> QED BY <1>5, <2>2, <3>1, ReadGrows
  <2>3. CASE i = 0
    <3>1. \A j \in S : ~(RankIn(S, j) < 0) BY <1>3, RankType
    <3>2. \A j \in T : ~(RankIn(T, j) < 0) BY <1>3, RankType
    <3>3. ReadIn(S, 0) = {} /\ ReadIn(T, 0) = {} BY <3>1, <3>2 DEF ReadIn
    <3> QED BY <1>4, <2>3, <3>3
  <2> QED BY <1>1, <1>2, <2>1, <2>2, <2>3
<1>7. \A a \in ReadIn(S, i) : a \in DOMAIN apps /\ a \in DOMAIN apps' /\ alias[a] # o.alias
  <2>1. \A a \in ReadIn(S, i) : a \in S BY DEF ReadIn
  <2>2. \A a \in ReadIn(T, i) : a \in T BY DEF ReadIn
  <2> QED BY <1>1, <1>2, <1>6, <2>1, <2>2 DEF ListFits
<1>8. /\ o.offset <= Cardinality(DOMAIN apps')
      /\ o.count = Cardinality(ReadIn(DOMAIN apps', o.offset))
      /\ \A a \in ReadIn(DOMAIN apps', o.offset) : alias'[a] # o.alias
  BY <1>1, <1>2, <1>5, <1>6, <1>7
<1> QED BY <1>8 DEF ListFits, ReadIn, RankIn

\* The client requests add no wallet and remove none.
LEMMA ClientsKeepApps ==
  ASSUME StoreTypeOK, Receive \/ Pay
  PROVE  DOMAIN apps' = DOMAIN apps /\ UNCHANGED lastApp
<1>1. apps \in [DOMAIN apps -> AppRow] BY DEF StoreTypeOK
<1>2. CASE Receive
  BY <1>1, <1>2 DEF Receive, RecordIncomingInvoice, SettleIncoming, Credit
<1>3. CASE Pay
  <2>1. ASSUME NEW a, NEW h, NEW amt, SettleInternally(a, amt, h)
        PROVE  DOMAIN apps' = DOMAIN apps /\ UNCHANGED lastApp
    BY <2>1 DEF SettleInternally, Move, Debit
  <2>2. ASSUME NEW a, NEW h, NEW amt, ReserveExternal(a, amt, FeeReserve(amt), h)
        PROVE  DOMAIN apps' = DOMAIN apps /\ UNCHANGED lastApp
    BY <2>2 DEF ReserveExternal, Debit
  <2>3. ASSUME NEW t, NEW fee, FinalizeSucceeded(t, fee)
        PROVE  DOMAIN apps' = DOMAIN apps /\ UNCHANGED lastApp
    BY <2>3 DEF FinalizeSucceeded, Credit
  <2>4. ASSUME NEW t, FinalizeFailed(t)
        PROVE  DOMAIN apps' = DOMAIN apps /\ UNCHANGED lastApp
    BY <2>4 DEF FinalizeFailed, Credit
  <2> QED BY <1>3, <2>1, <2>2, <2>3, <2>4 DEF Pay
<1> QED BY <1>2, <1>3

-----------------------------------------------------------------------------
(* Steps of one manager, seen by the others.                                *)

\* The operation of a manager that only watches: the tables change, no app
\* changes its alias, a new app has another alias or a disputed one, and so has
\* a wallet that leaves the list while somebody looks for the alias in it.
LEMMA WatcherFits ==
  ASSUME StoreTypeOK, StoreTypeOK', NEW n \in Manager, op[n] \in Operation, Fits(op[n]),
         op'[n] = Disturbed(n), disputed \subseteq disputed', lastApp <= lastApp',
         \A a \in DOMAIN apps \cap DOMAIN apps' : alias'[a] = alias[a],
         \A a \in DOMAIN apps' \ DOMAIN apps :
           a > lastApp /\ (alias'[a] = op[n].alias => op[n].alias \in disputed),
         \/ DOMAIN apps' \in {DOMAIN apps, DOMAIN apps \cup {lastApp + 1}}
         \/ op[n].kind = "create" /\ op[n].offset > 0 => op[n].alias \in disputed'
  PROVE  Fits(op[n])' /\ op'[n].alias = op[n].alias
<1>0. lastApp \in Nat /\ lastApp' \in Nat BY StoreAssumption DEF StoreTypeOK
<1>1. PICK o \in Operation : o = op[n] OBVIOUS
<1>2. PICK q \in BOOLEAN : q = (o.quiet /\ ~Touches(o.app)) OBVIOUS
<1>3. PICK p : p = op'[n] OBVIOUS
<1>4. p = [o EXCEPT !.quiet = q] BY <1>1, <1>2, <1>3 DEF Disturbed, Operation
<1>5. /\ p \in Operation /\ p.pc = o.pc /\ p.alias = o.alias /\ p.app = o.app
      /\ p.seen = o.seen /\ p.quiet = q /\ p.kind = o.kind /\ p.hit = o.hit
      /\ p.offset = o.offset /\ p.count = o.count
  BY <1>4 DEF Operation
<1>6. Fits(o) BY <1>1
<1>7. p.quiet => Undisturbed(p)'
  <2>1. SUFFICES ASSUME p.quiet PROVE Undisturbed(p)' OBVIOUS
  <2>2. o.quiet /\ ~Touches(o.app) BY <1>2, <1>5, <2>1
  <2>3. Undisturbed(o)' BY <1>6, <2>2, UndisturbedKept DEF Fits
  <2> QED BY <1>5, <2>3 DEF Undisturbed
<1>8. ASSUME p.app # 0, p.pc \notin {"idle", "creating"}
      PROVE  /\ p.app \in 1..lastApp'
             /\ p.app \in DOMAIN apps' => alias'[p.app] = p.alias
  <2>1. /\ p.app \in 1..lastApp
        /\ p.app \in DOMAIN apps => alias[p.app] = p.alias
    BY <1>5, <1>6, <1>8 DEF Fits
  <2> QED BY <1>0, <2>1
<1>9. ASSUME p.pc = "creating", p.alias \notin disputed' PROVE Found(p.alias)' = {}
  <2>1. Found(p.alias) = {} BY <1>5, <1>6, <1>9 DEF Fits
  <2>2. \A a \in DOMAIN apps' : alias'[a] # p.alias BY <1>1, <1>5, <1>9, <2>1 DEF Found
  <2> QED BY <2>2 DEF Found
<1>10. ASSUME Unique(p), p.alias \notin disputed' PROVE ListFits(p)'
  <2>1. Unique(o) /\ o.alias \notin disputed BY <1>5, <1>10 DEF Unique
  <2>2. ListFits(o) BY <1>6, <2>1 DEF Fits
  <2>3. \/ DOMAIN apps' \in {DOMAIN apps, DOMAIN apps \cup {lastApp + 1}}
        \/ o.offset = 0
    BY <1>1, <1>5, <1>10, <2>1 DEF Unique, Operation
  <2>4. ListFits(o)' BY <2>2, <2>3, ListKept
  <2> QED BY <1>5, <2>4 DEF ListFits
<1>11. /\ p.pc # "idle" => p.alias \in Alias
       /\ p.pc = "idle" => p.offset = 0
       /\ p.hit \/ p.pc \notin {"idle", "listing", "resolving", "creating"} => p.app # 0
  BY <1>5, <1>6 DEF Fits
<1>12. Fits(p)' BY <1>5, <1>7, <1>8, <1>9, <1>10, <1>11 DEF Fits, Unique
<1> QED BY <1>1, <1>3, <1>5, <1>12 DEF Fits, Unique, ListFits, Undisturbed, Found,
           PendingRows, RowsOf, ReadIn, RankIn

\* m's step leaves the tables alone.
LEMMA StayStep ==
  ASSUME Management, NEW m \in Manager, NEW o, Fits(o), Stay(m, o),
         disputed \subseteq disputed', disputed' \subseteq Alias,
         \A n \in Manager \ {m} :
           o.alias = op[n].alias => o.alias \in disputed' \cup {NoAlias}
  PROVE  Management'
<1>0. UNCHANGED <<apps, txs, lastApp, lastTx, alias>> /\ op' = [op EXCEPT ![m] = o]
  BY DEF Stay, storeVars
<1>1. StoreTypeOK' BY <1>0 DEF Management, StoreTypeOK
<1>2. alias' \in [DOMAIN apps' -> Alias] BY <1>0 DEF Management
<1>3. op' \in [Manager -> Operation] /\ op'[m] = o
      /\ \A n \in Manager \ {m} : op'[n] = op[n]
  BY <1>0 DEF Management, Fits
<1>4. Exclusive' BY <1>3 DEF Management, Exclusive
<1>5. AliasUnique' BY <1>0 DEF Management, AliasUnique, Found
<1>6. ASSUME NEW p, Fits(p) PROVE Fits(p)'
  BY <1>0, <1>6 DEF Fits, Unique, ListFits, Undisturbed, Found, PendingRows, RowsOf,
                    ReadIn, RankIn
<1>7. ASSUME NEW n \in Manager PROVE Fits(op[n])'
  <2>1. PICK p : p = op'[n] OBVIOUS
  <2>2. Fits(p)
    <3>1. CASE n = m BY <1>3, <2>1, <3>1
    <3>2. CASE n # m
      <4>1. p = op[n] BY <1>3, <2>1, <3>2
      <4> QED BY <4>1 DEF Management
    <3> QED BY <3>1, <3>2
  <2>3. Fits(p)' BY <1>6, <2>2
  <2> QED BY <2>1, <2>3 DEF Fits, Unique, ListFits, Undisturbed, Found, PendingRows,
             RowsOf, ReadIn, RankIn
<1> QED BY <1>1, <1>2, <1>3, <1>4, <1>5, <1>7 DEF Management

\* m's step changes the tables.
LEMMA TablesStep ==
  ASSUME Management, StoreTypeOK', alias' \in [DOMAIN apps' -> Alias],
         lastApp <= lastApp', disputed \subseteq disputed', disputed' \subseteq Alias,
         \A a \in DOMAIN apps \cap DOMAIN apps' : alias'[a] = alias[a],
         NEW m \in Manager, NEW o, Continue(m, o), Fits(o)',
         o.alias \in {op[m].alias, NoAlias},
         \A a \in DOMAIN apps' \ DOMAIN apps :
           a = lastApp + 1 /\ alias'[a] = op[m].alias /\ op[m].pc = "creating",
         \/ DOMAIN apps' \in {DOMAIN apps, DOMAIN apps \cup {lastApp + 1}}
         \/ \A n \in Manager :
              op[n].kind = "create" /\ op[n].offset > 0 => op[n].alias \in disputed'
  PROVE  Management'
<1>0. /\ lastApp \in Nat /\ DOMAIN apps \subseteq 1..lastApp
  BY StoreAssumption DEF Management, StoreTypeOK
<1>1. /\ op'[m] = o /\ DOMAIN op' = Manager
      /\ \A n \in Manager \ {m} : op'[n] = Disturbed(n)
      /\ op' = [n \in Manager |-> op'[n]]
  BY DEF Continue
<1>2. ASSUME NEW n \in Manager \ {m} PROVE Fits(op[n])' /\ op'[n].alias = op[n].alias
  <2>1. ASSUME NEW a \in DOMAIN apps' \ DOMAIN apps
        PROVE  a > lastApp /\ (alias'[a] = op[n].alias => op[n].alias \in disputed)
    <3>1. op[m].alias # NoAlias BY <2>1, HubAssumption DEF Management, Fits
    <3> QED BY <1>0, <2>1, <3>1 DEF Management, Exclusive
  <2> QED BY <1>1, <2>1, WatcherFits DEF Management
<1>3. ASSUME NEW n \in Manager PROVE Fits(op[n])'
  <2>1. CASE n = m
    BY <1>1, <2>1 DEF Fits, Unique, ListFits, Undisturbed, Found, PendingRows, RowsOf,
                      ReadIn, RankIn
  <2> QED BY <1>2, <2>1
<1>4. op' \in [Manager -> Operation] BY <1>1, <1>3 DEF Fits
<1>5. Exclusive'
  <2>1. ASSUME NEW k \in Manager, NEW n \in Manager, k # n,
               op'[k].alias = op'[n].alias
        PROVE  op'[k].alias \in disputed' \cup {NoAlias}
    <3>1. \A j \in Manager : op'[j].alias \in {op[j].alias, NoAlias}
      BY <1>1, <1>2
    <3> QED BY <2>1, <3>1 DEF Management, Exclusive
  <2> QED BY <2>1 DEF Exclusive
<1>6. AliasUnique'
  <2>1. SUFFICES ASSUME NEW al \in Alias \ disputed', NEW a \in Found(al)',
                        NEW b \in Found(al)'
                 PROVE  a = b
    BY DEF AliasUnique
  <2>2. \A c \in Found(al)' : c \in DOMAIN apps => c \in Found(al) BY DEF Found
  <2>3. ASSUME NEW c \in Found(al)', c \notin DOMAIN apps
        PROVE  c = lastApp + 1 /\ Found(al) = {}
    <3>1. c \in DOMAIN apps' /\ alias'[c] = al BY DEF Found
    <3>2. c = lastApp + 1 /\ al = op[m].alias /\ op[m].pc = "creating" BY <2>3, <3>1
    <3> QED BY <3>2 DEF Management, Fits
  <2> QED BY <2>2, <2>3 DEF Management, AliasUnique
<1> QED BY <1>3, <1>4, <1>5, <1>6 DEF Management

-----------------------------------------------------------------------------
(* The operations.                                                         *)

\* No operation is a good operation.
LEMMA IdleFits == Fits(Idle)
BY StoreAssumption DEF Fits, Idle, Operation, Undisturbed, Unique

\* A new operation, which may work on an alias another one works on.
LEMMA StartStep ==
  ASSUME Management, NEW m \in Manager, NEW o, Fits(o), Start(m, o), o.alias \in Alias
  PROVE  Management'
<1>1. disputed' = disputed \cup ({o.alias} \cap {op[n].alias : n \in Manager})
  BY DEF Start
<1>2. disputed \subseteq disputed' /\ disputed' \subseteq Alias BY <1>1 DEF Management
<1>3. \A n \in Manager \ {m} : o.alias = op[n].alias => o.alias \in disputed' BY <1>1
<1> QED BY <1>2, <1>3, StayStep DEF Start

\* An operation goes on with its alias, or ends.
LEMMA GoOnStep ==
  ASSUME Management, NEW m \in Manager, NEW o, Fits(o), Stay(m, o),
         o.alias \in {op[m].alias, NoAlias}, UNCHANGED disputed
  PROVE  Management'
BY StayStep DEF Management, Exclusive

\* An operation that has read nothing yet.
LEMMA FreshFits ==
  ASSUME Management, NEW o \in Operation, o.alias \in Alias,
         o.pc \in {"listing", "resolving"}, o.kind = "create" => o.pc = "listing",
         o.app = 0, o.offset = 0, o.count = 0, ~o.hit, ~o.quiet
  PROVE  Fits(o)
<1>1. ListFits(o)
  <2>1. IsFiniteSet(DOMAIN apps) BY AppsFinite DEF Management
  <2>2. \A j \in DOMAIN apps : ~(RankIn(DOMAIN apps, j) < 0) BY <2>1, RankType
  <2>3. ReadIn(DOMAIN apps, 0) = {} BY <2>2 DEF ReadIn
  <2>4. Cardinality(ReadIn(DOMAIN apps, 0)) = 0 BY <2>3, FS_EmptySet
  <2>5. Cardinality(DOMAIN apps) \in Nat BY <2>1, FS_CardinalityType
  <2>6. 0 <= Cardinality(DOMAIN apps) BY <2>5
  <2> QED BY <2>3, <2>4, <2>6 DEF ListFits
<1> QED BY <1>1 DEF Fits

LEMMA StartCreateStep ==
  ASSUME Management, NEW m \in Manager, NEW al \in Alias, NEW amount \in Nat,
         StartCreate(m, al, amount)
  PROVE  Management'
<1>1. Idle \in Operation BY IdleFits DEF Fits
<1>2. PICK o : o = [Idle EXCEPT !.pc = "listing", !.kind = "create", !.alias = al,
                               !.amount = amount]
  OBVIOUS
<1>3. /\ o \in Operation /\ o.pc = "listing" /\ o.alias = al /\ o.app = 0
      /\ o.offset = 0 /\ o.count = 0 /\ ~o.hit /\ ~o.quiet
  BY <1>1, <1>2 DEF Operation, Idle
<1>4. Start(m, o) BY <1>2 DEF StartCreate
<1> QED BY <1>3, <1>4, FreshFits, StartStep

LEMMA StartOnStep ==
  ASSUME Management, NEW m \in Manager, NEW al \in Alias,
         NEW kind \in {"drain", "delete", "rotate"}, StartOn(m, kind, al)
  PROVE  Management'
<1>1. Idle \in Operation BY IdleFits DEF Fits
<1>2. PICK pc \in {"listing", "resolving"} :
        pc = IF kind = "drain" THEN "resolving" ELSE "listing"
  OBVIOUS
<1>3. PICK o : o = [Idle EXCEPT !.kind = kind, !.alias = al, !.pc = pc] OBVIOUS
<1>4. /\ o \in Operation /\ o.pc = pc /\ o.kind = kind /\ o.alias = al /\ o.app = 0
      /\ o.offset = 0 /\ o.count = 0 /\ ~o.hit /\ ~o.quiet
  BY <1>1, <1>3 DEF Operation, Idle
<1>5. Start(m, o) BY <1>2, <1>3 DEF StartOn
<1> QED BY <1>4, <1>5, FreshFits, StartStep

\* A page of the list, and what the operation o knows after it: the list is
\* read, and the alias is free or its holder known, or the next page is due.
LEMMA TurnPageStep ==
  ASSUME Management, NEW m \in Manager, UNCHANGED disputed, NEW o \in Operation, Fits(o),
         o.alias = op[m].alias, o.pc \in {"listing", "resolving"},
         Unique(o) => Page(o.offset) \cap Found(o.alias) = {},
         TurnPage(m, o, Page(o.offset))
  PROVE  Management'
<1>1. PICK i \in Nat, c \in Nat : i = o.offset /\ c = o.count BY DEF Operation
<1>2. PICK S, page : S = DOMAIN apps /\ page = Page(i) OBVIOUS
<1>3. IsFiniteSet(S) BY <1>2, AppsFinite DEF Management
<1>4. page = PageIn(S, i, PageSize) /\ page \subseteq S
  BY <1>2 DEF Page, PageIn, RankIn
<1>5. /\ IsFiniteSet(page) /\ Cardinality(page) \in Nat /\ Cardinality(S) \in Nat
  BY <1>3, <1>4, FS_Subset, FS_CardinalityType
<1>6. PICK k \in Nat : k = c + Cardinality(page) BY <1>5
<1>7. PICK j \in Nat : j = i + PageSize BY HubAssumption
<1>8. ASSUME Unique(o), o.alias \notin disputed
      PROVE  /\ k = Cardinality(ReadIn(S, j))
             /\ k < Cardinality(S) => j <= Cardinality(S)
             /\ k >= Cardinality(S) => ReadIn(S, j) = S
             /\ \A a \in ReadIn(S, j) : alias[a] # o.alias
  <2>1. c = Cardinality(ReadIn(S, i)) /\ \A a \in ReadIn(S, i) : alias[a] # o.alias
    BY <1>1, <1>2, <1>8 DEF Fits, ListFits
  <2>2. \A a \in page : a \in DOMAIN apps /\ alias[a] # o.alias
    BY <1>1, <1>2, <1>4, <1>8 DEF Found
  <2>3. /\ ReadIn(S, j) = ReadIn(S, i) \cup page
        /\ Cardinality(ReadIn(S, j)) = Cardinality(ReadIn(S, i)) + Cardinality(page)
        /\ Cardinality(ReadIn(S, j)) < Cardinality(S) => j <= Cardinality(S)
        /\ Cardinality(ReadIn(S, j)) >= Cardinality(S) => ReadIn(S, j) = S
    <3>1. PageSize \in Nat BY HubAssumption
    <3>2. /\ ReadIn(S, i + PageSize) = ReadIn(S, i) \cup page
          /\ Cardinality(ReadIn(S, i + PageSize)) =
               Cardinality(ReadIn(S, i)) + Cardinality(page)
          /\ Cardinality(ReadIn(S, i + PageSize)) < Cardinality(S) =>
               i + PageSize <= Cardinality(S)
          /\ Cardinality(ReadIn(S, i + PageSize)) >= Cardinality(S) =>
               ReadIn(S, i + PageSize) = S
      BY ONLY <1>3, <1>4, <3>1, ReadMore, SMTT(30)
    <3> QED BY <1>7, <3>2
  <2> QED BY <1>6, <2>1, <2>2, <2>3
<1>9. CASE k >= Cardinality(S)
  <2>1. Stay(m, AfterList(o)) /\ (Unique(o) \/ o.hit)
    BY <1>1, <1>2, <1>6, <1>9 DEF TurnPage
  <2>2. PICK p : p = AfterList(o) OBVIOUS
  <2>3. PICK pc \in {"creating", "checking", "found", "resolving"} :
          /\ pc = IF Unique(o) THEN "creating"
                  ELSE IF o.pc = "resolving" THEN "checking"
                  ELSE IF o.kind = "delete" THEN "found" ELSE "resolving"
    OBVIOUS
  <2>4. p = [o EXCEPT !.offset = 0, !.count = 0, !.hit = FALSE, !.pc = pc]
    BY <2>2, <2>3 DEF AfterList
  <2>5. /\ p \in Operation /\ p.pc = pc /\ p.kind = o.kind /\ p.alias = o.alias
        /\ p.app = o.app /\ p.seen = o.seen /\ p.quiet = o.quiet /\ p.hit = FALSE
    BY <2>4 DEF Operation
  <2>6. ASSUME pc = "creating", o.alias \notin disputed PROVE Found(o.alias) = {}
    <3>1. Unique(o) BY <2>3, <2>6
    <3> QED BY <1>2, <1>8, <1>9, <2>6, <3>1 DEF Found
  <2>7. ASSUME o.quiet PROVE Undisturbed(p)
    <3>1. o.pc = "resolving" /\ Undisturbed(o) BY <2>7 DEF Fits, Undisturbed
    <3>2. pc = "checking" BY <2>3, <3>1 DEF Unique
    <3> QED BY <2>5, <3>1, <3>2 DEF Undisturbed
  <2>8. pc # "creating" => o.app # 0 BY <2>1, <2>3 DEF Fits
  <2>9. Fits(p) BY <2>3, <2>5, <2>6, <2>7, <2>8 DEF Fits, Unique
  <2> QED BY <2>1, <2>2, <2>5, <2>9, GoOnStep
<1>10. CASE k < Cardinality(S)
  <2>1. PICK p : p = [o EXCEPT !.offset = j, !.count = k] OBVIOUS
  <2>2. Stay(m, p)
    <3>1. o.offset + PageSize = j BY <1>1, <1>7
    <3>2. ~(k >= Cardinality(S)) BY <1>5, <1>10
    <3> QED BY <1>1, <1>2, <1>6, <2>1, <3>1, <3>2 DEF TurnPage, Operation
  <2>3. /\ p \in Operation /\ p.pc = o.pc /\ p.kind = o.kind /\ p.alias = o.alias
        /\ p.app = o.app /\ p.seen = o.seen /\ p.quiet = o.quiet /\ p.hit = o.hit
        /\ p.offset = j /\ p.count = k
    BY <2>1 DEF Operation
  <2>4. ASSUME Unique(p), p.alias \notin disputed PROVE ListFits(p)
    <3>1. Unique(o) /\ o.alias \notin disputed BY <2>3, <2>4 DEF Unique
    <3> QED BY <1>2, <1>8, <1>10, <2>3, <3>1 DEF ListFits
  <2>5. o.quiet => Undisturbed(p) BY <2>3 DEF Fits, Undisturbed
  <2>6. Fits(p) BY <2>3, <2>4, <2>5 DEF Fits
  <2> QED BY <2>2, <2>3, <2>6, GoOnStep
<1> QED BY <1>5, <1>9, <1>10

LEMMA ReadMatchStep ==
  ASSUME Management, NEW m \in Manager, UNCHANGED disputed, ReadMatch(m)
  PROVE  Management'
<1>1. PICK o \in Operation : o = op[m] BY DEF Management
<1>2. /\ Fits(o) /\ o.pc \in {"listing", "resolving"} /\ ~Unique(o)
      /\ o.alias \in Alias
  BY <1>1 DEF Management, ReadMatch, Fits
<1>3. PICK a \in DOMAIN apps :
        /\ Page(o.offset) \cap Found(o.alias) = {a}
        /\ TurnPage(m, Matched(o, a), Page(o.offset))
  BY <1>1 DEF ReadMatch
<1>4. /\ a \in 1..lastApp /\ a \in AppId /\ alias[a] = o.alias
      /\ apps[a].balance \in Nat /\ a # 0 /\ a \in 0..MaxApp
  BY <1>3, StoreAssumption DEF Management, StoreTypeOK, Found, AppId, AppRow
<1>5. CASE o.pc = "listing"
  <2>1. PICK p : p = [o EXCEPT !.hit = TRUE, !.app = a] OBVIOUS
  <2>2. /\ p \in Operation /\ p.pc = o.pc /\ p.kind = o.kind /\ p.alias = o.alias
        /\ p.app = a /\ p.quiet = o.quiet /\ p.offset = o.offset
    BY <1>4, <2>1 DEF Operation
  <2>3. ~Unique(p) /\ ~o.quiet BY <1>2, <1>5, <2>2 DEF Unique, Fits, Undisturbed
  <2>4. Fits(p) BY <1>2, <1>4, <1>5, <2>2, <2>3 DEF Fits
  <2>5. TurnPage(m, p, Page(p.offset)) BY <1>3, <1>5, <2>1, <2>2 DEF Matched
  <2> QED BY <1>1, <1>2, <2>2, <2>3, <2>4, <2>5, TurnPageStep
<1>6. CASE o.pc = "resolving"
  <2>1. PICK kind \in {"none", "create", "drain", "delete", "rotate", "late"} :
          kind = IF a = o.app THEN o.kind ELSE "drain"
    BY DEF Operation
  <2>2. PICK p : p = [o EXCEPT !.hit = TRUE, !.app = a, !.seen = apps[a].balance,
                        !.quiet = TRUE, !.kind = kind]
    OBVIOUS
  <2>3. /\ p \in Operation /\ p.pc = o.pc /\ p.kind = kind /\ p.alias = o.alias
        /\ p.app = a /\ p.seen = apps[a].balance /\ p.offset = o.offset
    BY <1>4, <2>2 DEF Operation
  <2>4. ~Unique(p) BY <1>6, <2>3 DEF Unique
  <2>5. Undisturbed(p) BY <1>6, <2>3 DEF Undisturbed
  <2>6. Fits(p) BY <1>2, <1>4, <1>6, <2>3, <2>4, <2>5 DEF Fits
  <2>7. TurnPage(m, p, Page(p.offset))
    <3>1. p = Matched(o, a) BY <1>6, <2>1, <2>2 DEF Matched, Operation
    <3> QED BY <1>3, <2>3, <3>1
  <2> QED BY <1>1, <1>2, <1>6, <2>3, <2>4, <2>6, <2>7, TurnPageStep
<1> QED BY <1>2, <1>5, <1>6

\* The steps of an operation that change no table.
LEMMA CheckStep ==
  ASSUME Management, NEW m \in Manager, UNCHANGED disputed, Check(m)
  PROVE  Management'
<1>0. PICK o \in Operation : o = op[m] BY DEF Management
<1>1. Fits(o) BY <1>0 DEF Management
<1>2. ASSUME NEW pc, NEW p, p = [o EXCEPT !.pc = pc]
      PROVE  /\ p.pc = pc /\ p.alias = o.alias /\ p.app = o.app /\ p.kind = o.kind
             /\ p.seen = o.seen /\ p.quiet = o.quiet /\ p.hit = o.hit
             /\ pc \in {"resolving", "sending", "drained", "deleting"} => p \in Operation
  BY <1>2 DEF Operation
<1>3. CASE FirstPendingCheck(m)
  <2>1. PICK p : p = [o EXCEPT !.pc = "resolving"] OBVIOUS
  <2>2. Stay(m, p) /\ o.pc = "found" BY <1>0, <1>3, <2>1 DEF FirstPendingCheck
  <2>3. ~o.quiet BY <1>1, <2>2 DEF Fits, Undisturbed
  <2>4. Fits(p) BY <1>1, <1>2, <2>1, <2>2, <2>3 DEF Fits, Unique
  <2> QED BY <1>0, <1>2, <2>1, <2>2, <2>4, GoOnStep
<1>4. CASE ReadPage(m)
  <2>1. /\ Page(o.offset) \cap Found(o.alias) = {} /\ TurnPage(m, o, Page(o.offset))
        /\ o.pc \in {"listing", "resolving"}
    BY <1>0, <1>4 DEF ReadPage
  <2> QED BY <1>0, <1>1, <2>1, TurnPageStep
<1>5. CASE PendingCheck(m)
  <2>1. PICK p : p = [o EXCEPT !.pc = IF WholeSats(o.seen) = 0 THEN "drained"
                                      ELSE "sending"]
    OBVIOUS
  <2>2. /\ Stay(m, p) /\ o.pc = "checking" /\ PendingRows(o.app) = {}
    BY <1>0, <1>5, <2>1 DEF PendingCheck
  <2>3. /\ p \in Operation /\ p.alias = o.alias /\ p.app = o.app /\ p.seen = o.seen
        /\ p.quiet = o.quiet /\ p.kind = o.kind /\ p.hit = o.hit
        /\ p.pc = IF WholeSats(o.seen) = 0 THEN "drained" ELSE "sending"
    BY <2>1 DEF Operation
  <2>4. o.seen \in Nat /\ (WholeSats(o.seen) = 0 => Dust(o.seen) = o.seen)
    BY SatParts DEF Operation
  <2>5. Fits(p) BY <1>1, <2>2, <2>3, <2>4 DEF Fits, Undisturbed, Unique
  <2> QED BY <1>0, <2>2, <2>3, <2>5, GoOnStep
<1>6. CASE Verify(m)
  <2>1. PICK p : p = [o EXCEPT !.pc = "drained"] OBVIOUS
  <2>2. Stay(m, p) /\ o.pc = "verifying" BY <1>0, <1>6, <2>1 DEF Verify
  <2>3. Fits(p) BY <1>1, <1>2, <2>1, <2>2 DEF Fits, Undisturbed, Unique
  <2> QED BY <1>0, <1>2, <2>1, <2>2, <2>3, GoOnStep
<1>7. CASE ConfirmEmpty(m)
  <2>1. PICK p : p = [o EXCEPT !.pc = "deleting"] OBVIOUS
  <2>2. Stay(m, p) /\ o.pc = "drained" BY <1>0, <1>7, <2>1 DEF ConfirmEmpty
  <2>3. Fits(p) BY <1>1, <1>2, <2>1, <2>2 DEF Fits, Undisturbed, Unique
  <2> QED BY <1>0, <1>2, <2>1, <2>2, <2>3, GoOnStep
<1>8. CASE ReportDrain(m) \/ Abort(m)
  <2>1. Stay(m, Idle) /\ Idle.alias = NoAlias BY <1>8 DEF ReportDrain, Abort, Idle
  <2> QED BY <2>1, IdleFits, GoOnStep
<1>9. CASE GiveUp(m)
  <2>1. PICK p : p = [o EXCEPT !.kind = "late"] OBVIOUS
  <2>2. Stay(m, p) BY <1>0, <1>9, <2>1 DEF GiveUp
  <2>3. /\ p \in Operation /\ p.pc = o.pc /\ p.alias = o.alias /\ p.app = o.app
        /\ p.seen = o.seen /\ p.quiet = o.quiet /\ p.hit = o.hit /\ p.kind = "late"
        /\ p.offset = o.offset
    BY <2>1 DEF Operation
  <2>4. o.quiet => Undisturbed(p) BY <1>1, <2>3 DEF Fits, Undisturbed
  <2>5. Fits(p) BY <1>1, <2>3, <2>4 DEF Fits, Unique
  <2> QED BY <1>0, <2>2, <2>3, <2>5, GoOnStep
<1> QED BY <1>3, <1>4, <1>5, <1>6, <1>7, <1>8, <1>9, ReadMatchStep DEF Check

-----------------------------------------------------------------------------
(* The requests that change the tables.                                     *)

\* POST /api/apps: nobody else works on the alias, or it is disputed.
LEMMA PostAppStep ==
  ASSUME Management, NEW m \in Manager, PostApp(m)
  PROVE  Management'
<1> USE StoreAssumption
<1>0. /\ lastApp \in Nat /\ DOMAIN apps \subseteq 1..lastApp /\ StoreTypeOK
  BY DEF Management, StoreTypeOK
<1>1. PICK o \in Operation : o = op[m] BY DEF Management
<1>2. Fits(o) /\ o.pc = "creating" /\ o.alias \in Alias
  BY <1>1 DEF Management, Fits, PostApp
<1>a. /\ CreateApp(0) /\ UNCHANGED disputed
      /\ alias' = [a \in DOMAIN apps' |-> IF a = lastApp' THEN o.alias ELSE alias[a]]
  BY <1>1 DEF PostApp, Created
<1>3. /\ StoreTypeOK' /\ lastApp' = lastApp + 1
      /\ DOMAIN apps' = DOMAIN apps \cup {lastApp + 1}
  BY <1>0, <1>a, CreateType DEF CreateApp, Inserted
<1>4. /\ alias' \in [DOMAIN apps' -> Alias] /\ alias'[lastApp + 1] = o.alias
      /\ \A a \in DOMAIN apps : alias'[a] = alias[a]
  BY <1>0, <1>1, <1>2, <1>3, <1>a DEF Management
<1>5. PICK p : p = IF o.kind = "create" /\ o.amount > 0
                   THEN [o EXCEPT !.pc = "funding", !.app = lastApp']
                   ELSE Idle
  OBVIOUS
<1>6. Continue(m, p) BY <1>1, <1>5 DEF PostApp
<1>7. Fits(p)' /\ p.alias \in {o.alias, NoAlias}
  <2>1. CASE p = Idle BY <1>3, <2>1 DEF Fits, Idle, Operation, Undisturbed, Unique
  <2>2. CASE p # Idle
    <3>1. p = [o EXCEPT !.pc = "funding", !.app = lastApp'] BY <1>5, <2>2
    <3>2. lastApp' \in 0..MaxApp /\ lastApp' \in 1..lastApp' /\ lastApp' # 0
      BY <1>0, <1>3 DEF StoreTypeOK
    <3>3. /\ p.pc = "funding" /\ p.app = lastApp' /\ p.alias = o.alias
          /\ p \in Operation
      BY <3>1, <3>2 DEF Operation
    <3> QED BY <1>2, <1>3, <1>4, <3>2, <3>3 DEF Fits, Undisturbed, Unique
  <2> QED BY <2>1, <2>2
<1>8. /\ lastApp <= lastApp'
      /\ \A a \in DOMAIN apps \cap DOMAIN apps' : alias'[a] = alias[a]
      /\ \A a \in DOMAIN apps' \ DOMAIN apps :
           a = lastApp + 1 /\ alias'[a] = op[m].alias /\ op[m].pc = "creating"
  BY <1>0, <1>1, <1>2, <1>3, <1>4
<1> QED BY <1>1, <1>3, <1>4, <1>6, <1>7, <1>8, <1>a, TablesStep DEF Management

\* The two transfers leave the wallets and their aliases as they are.
LEMMA TransferStep ==
  ASSUME Management, StoreTypeOK', DOMAIN apps' = DOMAIN apps,
         UNCHANGED <<lastApp, alias, disputed>>,
         NEW m \in Manager, NEW p, Continue(m, p), Fits(p)',
         p.alias \in {op[m].alias, NoAlias}
  PROVE  Management'
<1>1. lastApp <= lastApp' /\ alias' \in [DOMAIN apps' -> Alias]
  BY StoreAssumption DEF Management, StoreTypeOK
<1> QED BY <1>1, TablesStep DEF Management

LEMMA PostFundingStep ==
  ASSUME Management, NEW m \in Manager, PostFunding(m)
  PROVE  Management'
<1>1. PICK o \in Operation : o = op[m] BY DEF Management
<1>2. o.app \in AppId /\ o.amount \in Nat /\ StoreTypeOK
  BY <1>1, StoreAssumption DEF Management, Fits, PostFunding, StoreTypeOK, AppId, Operation
<1>3. /\ FundFromNode(o.app, o.amount) /\ Continue(m, Idle)
      /\ UNCHANGED <<alias, disputed>>
  BY <1>1 DEF PostFunding, Funded
<1>4. StoreTypeOK' /\ DOMAIN apps' = DOMAIN apps BY <1>2, <1>3, FundType
<1>5. UNCHANGED lastApp BY <1>3 DEF FundFromNode
<1>6. Fits(Idle)' /\ Idle.alias = NoAlias
  BY StoreAssumption DEF Fits, Idle, Operation, Undisturbed, Unique
<1> QED BY <1>3, <1>4, <1>5, <1>6, TransferStep

\* What the drain leaves, if the wallet is as it was when its balance was read,
\* is the dust of that balance; of a late one nobody knows.
LEMMA PostDrainStep ==
  ASSUME Management, NEW m \in Manager, PostDrain(m)
  PROVE  Management'
<1>1. PICK o \in Operation : o = op[m] BY DEF Management
<1>2. /\ o.app \in 1..lastApp /\ o.app \in AppId /\ StoreTypeOK
      /\ o.pc = "sending" /\ Fits(o)
  BY <1>1, StoreAssumption DEF Management, Fits, PostDrain, StoreTypeOK, AppId
<1>a. PICK x \in Nat : x = WholeSats(o.seen) BY SatParts DEF Operation
<1>b. PICK p : p = IF o.kind = "late" THEN Idle ELSE [o EXCEPT !.pc = "verifying"]
  OBVIOUS
<1>3. DrainToNode(o.app, x) /\ UNCHANGED <<alias, disputed>> /\ Continue(m, p)
  BY <1>1, <1>a, <1>b DEF PostDrain, Drained
<1>4. StoreTypeOK' /\ DOMAIN apps' = DOMAIN apps BY <1>2, <1>3, DrainType
<1>5. UNCHANGED lastApp BY <1>3 DEF DrainToNode
<1>6. CASE o.kind = "late"
  <2>1. p = Idle BY <1>b, <1>6
  <2>2. Fits(p)' /\ p.alias = NoAlias
    BY <2>1, StoreAssumption DEF Fits, Idle, Operation, Undisturbed, Unique
  <2> QED BY <1>3, <1>4, <1>5, <2>2, TransferStep
<1>7. CASE o.kind # "late"
  <2>1. p = [o EXCEPT !.pc = "verifying"] BY <1>b, <1>7
  <2>2. /\ p \in Operation /\ p.pc = "verifying" /\ p.alias = o.alias /\ p.app = o.app
        /\ p.seen = o.seen /\ p.quiet = o.quiet
    BY <2>1 DEF Operation
  <2>3. ASSUME Undisturbed(o) PROVE Undisturbed(p)'
    <3>1. /\ o.app \in DOMAIN apps /\ apps[o.app].balance = o.seen
          /\ PendingRows(o.app) = {}
      BY <1>2, <2>3 DEF Undisturbed
    <3>2. apps'[o.app].balance = o.seen - x
      <4>1. /\ apps' = Debit(o.app, x) /\ apps \in [DOMAIN apps -> AppRow]
            /\ apps[o.app].balance >= x
        BY <1>2, <1>3 DEF DrainToNode, StoreTypeOK
      <4> QED BY <3>1, <4>1, DebitType
    <3>3. o.seen - x = Dust(o.seen)
      <4>1. o.seen \in Nat BY DEF Operation
      <4> QED BY <1>a, <4>1, SatParts
    <3>4. PendingRows(o.app)' = {}
      <4> DEFINE row == Row(o.app, "outgoing", "settled", x, 0, NoHash)
      <4>1. InsertTx(row) /\ row.state = "settled" BY <1>3 DEF DrainToNode, Row
      <4> HIDE DEF row
      <4>2. /\ DOMAIN txs' = DOMAIN txs \cup {lastTx + 1}
            /\ txs'[lastTx + 1].state = "settled"
            /\ \A t \in DOMAIN txs : txs'[t] = txs[t]
        BY <1>2, <4>1, InsertRow
      <4> QED BY <3>1, <4>2 DEF PendingRows, RowsOf
    <3> QED BY <1>4, <2>2, <3>1, <3>2, <3>3, <3>4 DEF Undisturbed
  <2>4. Fits(p)' /\ p.alias \in {op[m].alias, NoAlias}
    BY <1>1, <1>2, <1>3, <1>4, <1>5, <2>2, <2>3 DEF Fits, Unique
  <2> QED BY <1>3, <1>4, <1>5, <2>4, TransferStep
<1> QED BY <1>6, <1>7

\* After a deletion the alias is free: the app was the only one that had it.
LEMMA DeleteStep ==
  ASSUME Management, NEW m \in Manager, DeleteByPubkey(m)
  PROVE  Management'
<1>1. PICK o \in Operation : o = op[m] BY DEF Management
<1>2. /\ o.app \in AppId /\ o.app \in 1..lastApp /\ StoreTypeOK /\ Fits(o)
      /\ o.alias \in Alias /\ o.pc = "deleting"
  BY <1>1, StoreAssumption DEF Management, Fits, DeleteByPubkey, StoreTypeOK, AppId
<1>7. PICK p : p = IF o.kind = "rotate"
                   THEN [Idle EXCEPT !.pc = "creating", !.kind = "rotate",
                                     !.alias = o.alias]
                   ELSE Idle
  OBVIOUS
<1>3. /\ DeleteApp(o.app) /\ alias' = Restrict(alias, DOMAIN apps')
      /\ disputed' = disputed \cup
           {op[n].alias : n \in {n \in Manager : op[n].kind = "create" /\ op[n].offset > 0}}
      /\ Continue(m, p)
  BY <1>1, <1>7 DEF DeleteByPubkey, Deleted
<1>4. StoreTypeOK'
  BY <1>2, <1>3, StoreTypeStep DEF StoreNext, Operator
<1>5. /\ o.app \in DOMAIN apps /\ DOMAIN apps' = DOMAIN apps \ {o.app}
      /\ UNCHANGED lastApp
  BY <1>3 DEF DeleteApp, Restrict
<1>6. /\ alias' \in [DOMAIN apps' -> Alias]
      /\ \A a \in DOMAIN apps' : alias'[a] = alias[a]
  BY <1>3, <1>5 DEF Management, Restrict
<1>8. /\ disputed \subseteq disputed' /\ disputed' \subseteq Alias
      /\ \A n \in Manager :
           op[n].kind = "create" /\ op[n].offset > 0 => op[n].alias \in disputed'
  <2>1. \A n \in Manager : op[n].offset > 0 => op[n].alias \in Alias
    BY DEF Management, Fits
  <2> QED BY <1>3, <2>1 DEF Management
<1>9. Fits(p)' /\ p.alias \in {op[m].alias, NoAlias}
  <2>1. CASE p = Idle
    BY <2>1, StoreAssumption DEF Fits, Idle, Operation, Undisturbed, Unique
  <2>2. CASE p # Idle
    <3>1. p = [Idle EXCEPT !.pc = "creating", !.kind = "rotate", !.alias = o.alias]
      BY <1>7, <2>2
    <3>2. /\ p \in Operation /\ p.pc = "creating" /\ p.alias = o.alias
          /\ p.hit = FALSE /\ p.quiet = FALSE
      <4>1. Idle \in Operation BY IdleFits DEF Fits
      <4> QED BY <1>2, <3>1, <4>1 DEF Operation, Idle
    <3>3. ASSUME o.alias \notin disputed' PROVE Found(o.alias)' = {}
      <4>1. o.app # 0 /\ o.alias \notin disputed BY <1>2, <1>8, <3>3
      <4>2. alias[o.app] = o.alias BY <1>2, <1>5, <4>1 DEF Fits
      <4>3. \A a \in Found(o.alias) : a = o.app
        BY <1>2, <1>5, <4>1, <4>2 DEF Management, AliasUnique, Found
      <4> QED BY <1>5, <1>6, <4>3 DEF Found
    <3>4. p.alias \notin disputed' => Found(p.alias)' = {} BY <3>2, <3>3
    <3> QED BY <1>1, <1>2, <3>2, <3>4 DEF Fits, Undisturbed, Unique, Found
  <2> QED BY <2>1, <2>2
<1>10. /\ lastApp <= lastApp' /\ DOMAIN apps' \ DOMAIN apps = {}
       /\ \A a \in DOMAIN apps \cap DOMAIN apps' : alias'[a] = alias[a]
  BY <1>5, <1>6, StoreAssumption, <1>2 DEF StoreTypeOK
<1> QED BY <1>3, <1>4, <1>6, <1>8, <1>9, <1>10, TablesStep

\* The clients change balances and rows, of any wallet.
LEMMA ClientsStep == ASSUME Management, Clients PROVE Management'
<1>1. /\ Receive \/ Pay
      /\ op' = [n \in Manager |-> Disturbed(n)]
      /\ UNCHANGED <<alias, disputed>> /\ StoreTypeOK
  BY DEF Clients, Management
<1>2. StoreTypeOK' BY <1>1, StoreTypeStep DEF StoreNext
<1>3. DOMAIN apps' = DOMAIN apps /\ UNCHANGED lastApp BY <1>1, ClientsKeepApps
<1>4. lastApp <= lastApp' BY <1>1, <1>3, StoreAssumption DEF StoreTypeOK
<1>5. ASSUME NEW n \in Manager PROVE Fits(op[n])' /\ op'[n].alias = op[n].alias
  BY <1>1, <1>2, <1>3, <1>4, WatcherFits DEF Management
<1>6. op' \in [Manager -> Operation] BY <1>1, <1>5 DEF Fits
<1>7. Exclusive' BY <1>1, <1>5 DEF Management, Exclusive
<1>8. AliasUnique' BY <1>1, <1>3 DEF Management, AliasUnique, Found
<1> QED BY <1>1, <1>2, <1>3, <1>5, <1>6, <1>7, <1>8 DEF Management

-----------------------------------------------------------------------------
(* The theorems.                                                           *)

\* Management is inductive.
LEMMA ManagementInductive == Management /\ [Next]_vars => Management'
<1> SUFFICES ASSUME Management, [Next]_vars PROVE Management' OBVIOUS
<1>1. ASSUME NEW m \in Manager, NEW al \in Alias, NEW amount \in Amount \cup {0},
             StartCreate(m, al, WholeSats(amount))
      PROVE  Management'
  <2>1. WholeSats(amount) \in Nat BY SatParts, StoreAssumption
  <2> QED BY <1>1, <2>1, StartCreateStep
<1>2. ASSUME NEW m \in Manager, NEW al \in Alias,
             NEW kind \in {"drain", "delete", "rotate"}, StartOn(m, kind, al)
      PROVE  Management'
  BY <1>2, StartOnStep
<1>3. ASSUME NEW m \in Manager, Check(m), UNCHANGED disputed PROVE Management'
  BY <1>3, CheckStep
<1>4. ASSUME NEW m \in Manager, Change(m) PROVE Management'
  BY <1>4, PostAppStep, PostFundingStep, PostDrainStep, DeleteStep DEF Change
<1>5. CASE Clients BY <1>5, ClientsStep
<1>6. CASE UNCHANGED vars
  <2>1. UNCHANGED <<apps, txs, lastApp, lastTx, alias, op, disputed>>
    BY <1>6 DEF vars
  <2>2. ASSUME NEW o, Fits(o) PROVE Fits(o)'
    BY <2>1, <2>2 DEF Fits, Unique, ListFits, Undisturbed, Found, PendingRows, RowsOf,
                      ReadIn, RankIn
  <2>3. ASSUME NEW n \in Manager PROVE Fits(op[n])'
    <3>1. PICK o : o = op[n] OBVIOUS
    <3>2. Fits(o)' /\ o = op'[n] BY <2>1, <2>2, <3>1 DEF Management
    <3> QED BY <3>2 DEF Fits, Unique, ListFits, Undisturbed, Found, PendingRows, RowsOf,
               ReadIn, RankIn
  <2>4. /\ StoreTypeOK' /\ alias' \in [DOMAIN apps' -> Alias] /\ Exclusive' /\ AliasUnique'
        /\ op' \in [Manager -> Operation] /\ disputed' \subseteq Alias
    BY <2>1 DEF Management, StoreTypeOK, Exclusive, AliasUnique, Found
  <2> QED BY <2>3, <2>4 DEF Management
<1> QED BY <1>1, <1>2, <1>3, <1>4, <1>5, <1>6 DEF Next

THEOREM ManagementHolds == Spec => []Management
<1>1. Init => Management
  <2> SUFFICES ASSUME Init PROVE Management OBVIOUS
  <2>1. StoreTypeOK BY StoreAssumption DEF Init, StoreInit, StoreTypeOK
  <2>2. \A n \in Manager : op[n] = Idle BY DEF Init
  <2>3. \A n \in Manager : Fits(op[n]) BY <2>2, IdleFits
  <2>4. op \in [Manager -> Operation] BY <2>2, <2>3 DEF Init, Fits
  <2>5. alias \in [DOMAIN apps -> Alias] /\ disputed \subseteq Alias
    BY DEF Init, StoreInit
  <2>6. Exclusive BY <2>2 DEF Exclusive, Idle
  <2>7. AliasUnique BY DEF AliasUnique, Found, Init, StoreInit
  <2> QED BY <2>1, <2>3, <2>4, <2>5, <2>6, <2>7 DEF Management
<1> QED BY <1>1, ManagementInductive, PTL DEF Spec

\* Whatever managers and clients do between each other's requests, the tables
\* and the operations keep their types and an operation that moves or deletes
\* something has a wallet to do it to.
THEOREM ManagersTypeCorrect == Spec => []HubTypeOK
<1>1. Management => HubTypeOK BY DEF Management, HubTypeOK, Fits
<1> QED BY <1>1, ManagementHolds, PTL

\* However long an operation takes and whatever happens to other wallets, one
\* that reports a wallet drained, or deletes it, leaves only dust behind unless
\* somebody touched that very wallet since its balance was read.
THEOREM QuietDrainsAreComplete == Spec => []QuietDrainIsComplete
<1>1. Management => QuietDrainIsComplete
  BY DEF Management, QuietDrainIsComplete, Fits, Undisturbed
<1> QED BY <1>1, ManagementHolds, PTL

\* Any number of managers that create, rotate and delete wallets, read their
\* list in pages of any size, may stop after any request and leave requests
\* behind that are executed later, never give one alias to two wallets, unless
\* two of them worked on that alias at once or a wallet was deleted while a
\* creator of that alias read the list.
THEOREM AliasesAreUnique == Spec => []AliasUnique
<1>1. Management => AliasUnique BY DEF Management
<1> QED BY <1>1, ManagementHolds, PTL

-----------------------------------------------------------------------------
(* The ledger under the managers.  What they fund and drain are amounts of  *)
(* their own, not only those of Amount, so their requests are not steps of  *)
(* StoreNext.                                                               *)

\* The calls that managers and clients make of the store.
Calls == \/ CreateApp(0)
         \/ \E a \in AppId : \/ DeleteApp(a)
                             \/ \E amt \in Nat : FundFromNode(a, amt) \/ DrainToNode(a, amt)
         \/ Receive
         \/ Pay

\* Every step is one of these calls or leaves the tables alone.
LEMMA ManagersCallTheStore ==
  ASSUME Management, [Next]_vars
  PROVE  [Calls]_storeVars
<1> USE DEF storeVars
<1>1. ASSUME NEW m \in Manager
      PROVE  /\ op[m] \in Operation /\ Fits(op[m])
             /\ op[m].pc \in {"funding", "sending", "deleting"} => op[m].app \in AppId
             /\ op[m].amount \in Nat /\ WholeSats(op[m].seen) \in Nat
  <2>1. op[m] \in Operation /\ Fits(op[m]) BY DEF Management
  <2>2. op[m].amount \in Nat /\ WholeSats(op[m].seen) \in Nat
    BY <2>1, SatParts DEF Operation
  <2>3. op[m].pc \in {"funding", "sending", "deleting"} => op[m].app \in AppId
    BY <2>1, StoreAssumption DEF Fits, Management, StoreTypeOK, AppId
  <2> QED BY <2>1, <2>2, <2>3
<1>2. ASSUME NEW m \in Manager, Change(m) PROVE [Calls]_storeVars
  <2>1. CASE PostApp(m) BY <2>1 DEF PostApp, Created, Calls
  <2>2. CASE PostFunding(m) BY <1>1, <2>2 DEF PostFunding, Funded, Calls
  <2>3. CASE PostDrain(m) BY <1>1, <2>3 DEF PostDrain, Drained, Calls
  <2>4. CASE DeleteByPubkey(m) BY <1>1, <2>4 DEF DeleteByPubkey, Deleted, Calls
  <2> QED BY <1>2, <2>1, <2>2, <2>3, <2>4 DEF Change
<1>a. ASSUME NEW m \in Manager, Check(m) PROVE UNCHANGED storeVars
  <2>1. ASSUME NEW o, NEW page, TurnPage(m, o, page) PROVE UNCHANGED storeVars
    BY <2>1 DEF TurnPage, Stay
  <2>2. CASE ReadPage(m) \/ ReadMatch(m) BY <2>1, <2>2 DEF ReadPage, ReadMatch
  <2>3. CASE ~(ReadPage(m) \/ ReadMatch(m))
    BY <1>a, <2>3 DEF Check, FirstPendingCheck, PendingCheck, Verify, ReportDrain,
                      ConfirmEmpty, Abort, GiveUp, Stay
  <2> QED BY <2>2, <2>3
<1>3. ASSUME NEW m \in Manager, NEW al, NEW amount, StartCreate(m, al, amount)
      PROVE  UNCHANGED storeVars
  BY <1>3 DEF StartCreate, Start, Stay
<1>4. ASSUME NEW m \in Manager, NEW al, NEW kind, StartOn(m, kind, al)
      PROVE  UNCHANGED storeVars
  BY <1>4 DEF StartOn, Start, Stay
<1>5. CASE Clients BY <1>5 DEF Clients, Calls
<1>6. CASE UNCHANGED vars BY <1>6 DEF vars
<1> QED BY <1>2, <1>a, <1>3, <1>4, <1>5, <1>6 DEF Next

\* The three facts of the ledger, for these calls.
LEMMA CallsBooked ==
  ASSUME StoreTypeOK, StoreTypeOK', BalanceMatchesRows, [Calls]_storeVars
  PROVE  BalanceMatchesRows'
<1>1. ASSUME NEW a \in AppId, DeleteApp(a) PROVE BalanceMatchesRows'
  BY <1>1, BalanceStep DEF StoreNext, Operator
<1>2. CASE Receive \/ Pay \/ UNCHANGED storeVars BY <1>2, BalanceStep DEF StoreNext
<1> QED BY <1>1, <1>2, CreateBooked, FundBooked, DrainBooked DEF Calls

LEMMA CallsKeepClosedRows ==
  ASSUME StoreTypeOK, [Calls]_storeVars,
         NEW t \in DOMAIN txs \cap DOMAIN txs', txs[t].state # "pending"
  PROVE  txs'[t] = txs[t]
<1>1. ASSUME NEW row, InsertTx(row) PROVE txs'[t] = txs[t] BY <1>1, InsertRow
<1>2. CASE CreateApp(0) BY <1>2 DEF CreateApp
<1>3. ASSUME NEW a \in AppId, DeleteApp(a) PROVE txs'[t] = txs[t]
  BY <1>3, ClosedRowsStep DEF StoreNext, Operator
<1>4. CASE Receive \/ Pay \/ UNCHANGED storeVars BY <1>4, ClosedRowsStep DEF StoreNext
<1> QED BY <1>1, <1>2, <1>3, <1>4 DEF Calls, FundFromNode, DrainToNode

LEMMA CallsDebitOwn ==
  ASSUME StoreTypeOK, [Calls]_storeVars, NEW a \in DOMAIN apps \cap DOMAIN apps',
         apps'[a].balance < apps[a].balance
  PROVE  \E t \in DOMAIN txs' \ DOMAIN txs :
           txs'[t].app = a /\ txs'[t].type = "outgoing"
<1>0. apps[a].balance \in Nat /\ DOMAIN apps \subseteq 1..lastApp /\ lastApp \in Nat
  BY StoreAssumption DEF StoreTypeOK, AppRow
<1>1. ASSUME CreateApp(0) PROVE FALSE
  <2>1. apps'[a] = apps[a] BY <1>0, <1>1 DEF CreateApp, Inserted
  <2> QED BY <1>0, <2>1
<1>2. ASSUME NEW b \in AppId, NEW amt \in Nat, FundFromNode(b, amt) PROVE FALSE
  BY <1>2, CreditRaises DEF FundFromNode
<1>3. ASSUME NEW b \in AppId, NEW amt \in Nat, DrainToNode(b, amt)
      PROVE  \E t \in DOMAIN txs' \ DOMAIN txs :
               txs'[t].app = a /\ txs'[t].type = "outgoing"
  <2> DEFINE row == Row(b, "outgoing", "settled", amt, 0, NoHash)
  <2>1. row.app = b /\ row.type = "outgoing" BY DEF Row
  <2>2. InsertTx(row) BY <1>3 DEF DrainToNode
  <2>3. a = b BY <1>3, OnlyPayerLoses DEF DrainToNode
  <2> HIDE DEF row
  <2>4. /\ lastTx + 1 \notin DOMAIN txs /\ lastTx + 1 \in DOMAIN txs'
        /\ txs'[lastTx + 1] = row
    BY <2>2, InsertRow
  <2> QED BY <2>1, <2>3, <2>4
<1>4. ASSUME NEW b \in AppId, DeleteApp(b)
      PROVE  \E t \in DOMAIN txs' \ DOMAIN txs :
               txs'[t].app = a /\ txs'[t].type = "outgoing"
  BY <1>4, DebitStep DEF StoreNext, Operator
<1>5. CASE Receive \/ Pay BY <1>5, DebitStep DEF StoreNext
<1>6. ~(UNCHANGED storeVars) BY <1>0 DEF storeVars
<1> QED BY <1>1, <1>2, <1>3, <1>4, <1>5, <1>6 DEF Calls

\* Managers that fund, drain, delete and rotate, and stop after any request, and
\* the wallets' clients beside them: a balance is what the wallet's rows add up
\* to, a settled row is never written again, and money leaves a wallet only by a
\* payment or a drain of its own.
THEOREM ManagersKeepTheLedger ==
  Spec => []BalanceMatchesRows /\ ClosedRowsFinal /\ OnlyOwnRowsDebit
<1>1. Init => BalanceMatchesRows BY DEF Init, StoreInit, BalanceMatchesRows
<1>2. Management => StoreTypeOK BY DEF Management
<1>3. Management /\ Management' /\ BalanceMatchesRows /\ [Next]_vars => BalanceMatchesRows'
  BY ManagersCallTheStore, CallsBooked DEF Management
<1>4. Management /\ [Next]_vars =>
        /\ [\A t \in DOMAIN txs \cap DOMAIN txs' :
              txs[t].state # "pending" => txs'[t] = txs[t]]_storeVars
        /\ [\A a \in DOMAIN apps \cap DOMAIN apps' :
              apps'[a].balance < apps[a].balance =>
                \E t \in DOMAIN txs' \ DOMAIN txs :
                  txs'[t].app = a /\ txs'[t].type = "outgoing"]_storeVars
  BY <1>2, ManagersCallTheStore, CallsKeepClosedRows, CallsDebitOwn
<1> QED BY <1>1, <1>3, <1>4, ManagementHolds, PTL
        DEF Spec, ClosedRowsFinal, OnlyOwnRowsDebit

-----------------------------------------------------------------------------
(* The session.                                                            *)

\* A record as At makes them.
IsThread(x) == x = At(x.pc, x.todo, x.token, x.retried)

\* Only a thread that waits for a reply, or has ended its request, has had its
\* call executed, and once.
ExecutedOnce(x, n) == /\ IsThread(x)
                      /\ n \in {0, 1}
                      /\ x.pc \notin {"idle", "reply"} => n = 0

Executions == /\ DOMAIN thread = Thread /\ DOMAIN served = Thread
              /\ thread = [t \in Thread |-> thread[t]]
              /\ served = [t \in Thread |-> served[t]]
              /\ \A t \in Thread : ExecutedOnce(thread[t], served[t])

\* It is enough to look at the thread that moves.
LEMMA OneThread ==
  ASSUME Executions, NEW t \in Thread, NEW x, NEW n, ExecutedOnce(x, n),
         thread' = [thread EXCEPT ![t] = x], served' = [served EXCEPT ![t] = n]
  PROVE  Executions'
BY DEF Executions

\* A thread that moves before its call is executed, or that ends its request.
LEMMA Unserved ==
  ASSUME Executions, NEW t \in Thread, NEW x, IsThread(x), UNCHANGED served,
         thread' = [thread EXCEPT ![t] = x],
         x.pc = "idle" \/ thread[t].pc \notin {"idle", "reply"}
  PROVE  Executions'
<1>1. PICK n : n = served[t] OBVIOUS
<1>2. served' = [served EXCEPT ![t] = n] BY <1>1 DEF Executions
<1>3. ExecutedOnce(x, n) BY <1>1 DEF Executions, ExecutedOnce
<1> QED BY <1>2, <1>3, OneThread

\* An exception.
LEMMA FailStep ==
  ASSUME Executions, NEW t \in Thread, NEW why, Fail(t, why)
  PROVE  Executions'
<1>1. IsThread(AtRest) /\ AtRest.pc = "idle" BY DEF IsThread, AtRest, At
<1> QED BY <1>1, Unserved DEF Fail, historyVars

\* A step that changes the thread's place, or also its token.
LEMMA PlaceStep ==
  ASSUME Executions, NEW t \in Thread, NEW pc, NEW tok, UNCHANGED served,
         thread[t].pc \notin {"idle", "reply"},
         \/ thread' = [thread EXCEPT ![t].pc = pc]
         \/ thread' = [thread EXCEPT ![t].pc = pc, ![t].token = tok]
  PROVE  Executions'
<1>1. IsThread(thread[t]) BY DEF Executions, ExecutedOnce
<1>2. PICK x : thread' = [thread EXCEPT ![t] = x] /\ IsThread(x)
  <2>1. PICK y : y = thread[t] OBVIOUS
  <2>2. CASE thread' = [thread EXCEPT ![t].pc = pc]
    <3>1. PICK x : x = [y EXCEPT !.pc = pc] OBVIOUS
    <3>2. IsThread(x) BY <1>1, <2>1, <3>1 DEF IsThread, At
    <3> QED BY <2>1, <2>2, <3>1, <3>2 DEF Executions
  <2>3. CASE thread' = [thread EXCEPT ![t].pc = pc, ![t].token = tok]
    <3>1. PICK x : x = [y EXCEPT !.pc = pc, !.token = tok] OBVIOUS
    <3>2. IsThread(x) BY <1>1, <2>1, <3>1 DEF IsThread, At
    <3> QED BY <2>1, <2>3, <3>1, <3>2 DEF Executions
  <2> QED BY <2>2, <2>3
<1> QED BY <1>2, Unserved

LEMMA ExecutionsInductive == Executions /\ [SessionNext]_sessionVars => Executions'
<1> SUFFICES ASSUME Executions, [SessionNext]_sessionVars PROVE Executions' OBVIOUS
<1>a. ASSUME NEW pc, NEW r, NEW tok, NEW b
      PROVE  IsThread(At(pc, r, tok, b)) /\ At(pc, r, tok, b).pc = pc
  BY DEF IsThread, At
<1>1. ASSUME NEW t \in Thread, NEW r, Begin(t, r) PROVE Executions'
  <2>1. ExecutedOnce(At("ensure", r, None, FALSE), 0) BY <1>a DEF ExecutedOnce
  <2> QED BY <1>1, <2>1, OneThread DEF Begin
<1>2. ASSUME NEW t \in Thread,
             UseCachedToken(t) \/ EnterSetup(t) \/ HubAnswers(t) \/ NodeIsReady(t)
               \/ ResetToken(t)
      PROVE  Executions'
  BY <1>2, PlaceStep DEF UseCachedToken, EnterSetup, HubAnswers, NodeIsReady,
     ResetToken, Goto, historyVars
<1>3. ASSUME NEW t \in Thread, HubWaitEnds(t) \/ NodeWaitEnds(t) \/ Unreachable(t)
      PROVE  Executions'
  BY <1>3, FailStep DEF HubWaitEnds, NodeWaitEnds, Unreachable
<1>4. ASSUME NEW t \in Thread, Unlock(t) PROVE Executions'
  <2>1. CASE up BY <1>4, <2>1, PlaceStep DEF Unlock, historyVars
  <2>2. CASE ~up BY <1>4, <2>2, FailStep DEF Unlock
  <2> QED BY <2>1, <2>2
<1>5. ASSUME NEW t \in Thread, Serve(t) PROVE Executions'
  <2>1. PICK y : y = thread[t] OBVIOUS
  <2>2. PICK x : x = [y EXCEPT !.pc = "reply"] OBVIOUS
  <2>3. IsThread(y) /\ y.pc = "send" /\ served[t] = 0
    BY <1>5, <2>1 DEF Executions, ExecutedOnce, Serve
  <2>4. IsThread(x) /\ x.pc = "reply" BY <2>2, <2>3 DEF IsThread, At
  <2>5. thread' = [thread EXCEPT ![t] = x]
    BY <1>5, <2>1, <2>2 DEF Serve, Goto, Executions
  <2>6. served' = [served EXCEPT ![t] = 1] BY <1>5, <2>3 DEF Serve, Executions
  <2>7. ExecutedOnce(x, 1) BY <2>4 DEF ExecutedOnce
  <2> QED BY <2>5, <2>6, <2>7, OneThread
<1>6. ASSUME NEW t \in Thread, Refused(t) PROVE Executions'
  <2>1. CASE Call(t) = "auth" /\ ~thread[t].retried
    <3>1. PICK x : x = At("reset", thread[t].todo, None, TRUE) OBVIOUS
    <3>2. thread' = [thread EXCEPT ![t] = x] /\ UNCHANGED served
      BY <1>6, <2>1, <3>1 DEF Refused, historyVars
    <3>3. thread[t].pc \notin {"idle", "reply"} BY <1>6 DEF Refused
    <3> QED BY <1>a, <3>1, <3>2, <3>3, Unserved
  <2>2. CASE ~(Call(t) = "auth" /\ ~thread[t].retried)
    BY <1>6, <2>2, FailStep DEF Refused
  <2> QED BY <2>1, <2>2
<1>7. ASSUME NEW t \in Thread, Reply(t) PROVE Executions'
  <2>1. CASE Len(thread[t].todo) = 1
    <3>1. IsThread(AtRest) /\ AtRest.pc = "idle" BY <1>a DEF AtRest
    <3> QED BY <1>7, <2>1, <3>1, Unserved DEF Reply, historyVars
  <2>2. CASE Len(thread[t].todo) # 1
    <3>1. PICK x : x = AfterReply(thread[t]) OBVIOUS
    <3>2. ExecutedOnce(x, 0) BY <1>a, <3>1 DEF ExecutedOnce, AfterReply
    <3>3. thread' = [thread EXCEPT ![t] = x] /\ served' = [served EXCEPT ![t] = 0]
      BY <1>7, <2>2, <3>1 DEF Reply
    <3> QED BY <3>2, <3>3, OneThread
  <2> QED BY <2>1, <2>2
<1>8. CASE UNCHANGED <<thread, served>> BY <1>8 DEF Executions
<1>11. CASE ProcessStarts
  <2>1. ExecutedOnce(AtRest, 0) BY <1>a DEF AtRest, ExecutedOnce
  <2>2. /\ thread' = [t \in Thread |-> AtRest]
        /\ served' = [t \in Thread |-> 0]
    BY <1>11 DEF ProcessStarts
  <2>3. \A t \in Thread : thread'[t] = AtRest /\ served'[t] = 0 BY <2>2
  <2>4. \A t \in Thread : ExecutedOnce(thread'[t], served'[t]) BY <2>1, <2>3
  <2> QED BY <2>2, <2>3, <2>4 DEF Executions
<1>9. ASSUME NEW t \in Thread, Ask(t) \/ ThreadStep(t) PROVE Executions'
  BY <1>1, <1>2, <1>3, <1>4, <1>5, <1>6, <1>7, <1>9 DEF Ask, ThreadStep
<1>10. DaemonStops \/ DaemonStarts \/ NodeFails \/ NodeReturns =>
         UNCHANGED <<thread, served>>
  BY DEF DaemonStops, DaemonStarts, NodeFails, NodeReturns, historyVars
<1> QED BY <1>8, <1>9, <1>10, <1>11 DEF SessionNext, sessionVars, historyVars

LEMMA SessionStarts == SessionInit => Executions
<1> SUFFICES ASSUME SessionInit PROVE Executions OBVIOUS
<1>1. IsThread(AtRest) /\ AtRest.pc = "idle" BY DEF IsThread, AtRest, At
<1>2. ExecutedOnce(AtRest, 0) BY <1>1 DEF ExecutedOnce
<1>3. \A t \in Thread : thread[t] = AtRest /\ served[t] = 0 BY DEF SessionInit
<1>4. \A t \in Thread : ExecutedOnce(thread[t], served[t]) BY <1>2, <1>3
<1> QED BY <1>3, <1>4 DEF SessionInit, Executions

\* Whatever restarts of the daemon, refusals and other threads that drop or
\* renew the token come in between, the daemon executes a call of a request at
\* most once.
THEOREM CallsServedOnce == SessionSpec => []ServedAtMostOnce
<1>1. SessionInit => Executions BY SessionStarts
<1>2. Executions => ServedAtMostOnce
  <2> SUFFICES ASSUME Executions, NEW t \in Thread PROVE served[t] <= 1
    BY DEF ServedAtMostOnce
  <2>1. served[t] \in {0, 1} BY DEF Executions, ExecutedOnce
  <2> QED BY <2>1
<1> QED BY <1>1, <1>2, ExecutionsInductive, PTL DEF SessionSpec

\* A thread has no token that is still to be issued, the cached one is as new as
\* any in use, a call of _authenticated_request has, or finds, no token older than
\* the call, and one that tries again no token of the run the call began in.
FreshThread(x, b) ==
  /\ x.token \in Nat /\ x.token <= run
  /\ b \in Nat /\ b <= run
  /\ x.pc \in {"send", "reply"} => /\ token = None \/ x.token <= token
                                   /\ Head(x.todo) = "auth" => b <= x.token
                                   /\ x.retried => b < x.token
  /\ x.pc = "ensure" /\ token # None => /\ Head(x.todo) = "auth" => b <= token
                                        /\ x.retried => b < token
  /\ x.retried => b < run

Tokens == /\ run \in Nat /\ token \in Nat /\ token <= run
          /\ DOMAIN began = Thread /\ began = [t \in Thread |-> began[t]]
          /\ \A t \in Thread : FreshThread(thread[t], began[t])

\* The cached token is kept, dropped or set to one the running daemon issued.
Renews == token' \in {token, None, run'} /\ run' \in {run, run + 1}

LEMMA OtherThreads ==
  ASSUME Tokens, Renews, NEW x, NEW b, FreshThread(x, b)
  PROVE  FreshThread(x, b)' /\ run' \in Nat /\ token' \in Nat /\ token' <= run'
BY DEF Tokens, Renews, FreshThread, None

LEMMA OneFreshThread ==
  ASSUME Executions, Tokens, Renews, NEW t \in Thread, NEW x, NEW b, FreshThread(x, b)',
         thread' = [thread EXCEPT ![t] = x], began' = [began EXCEPT ![t] = b]
  PROVE  Tokens'
<1>1. run' \in Nat /\ token' \in Nat /\ token' <= run' BY DEF Tokens, Renews, None
<1>2. DOMAIN began' = Thread /\ began' = [u \in Thread |-> began'[u]] BY DEF Tokens
<1>3. ASSUME NEW u \in Thread PROVE FreshThread(thread[u], began[u])'
  <2>1. PICK y, c : y = thread'[u] /\ c = began'[u] OBVIOUS
  <2>2. FreshThread(y, c)'
    <3>1. CASE u = t BY <2>1, <3>1 DEF Executions, Tokens
    <3>2. CASE u # t
      <4>1. FreshThread(y, c) BY <2>1, <3>2 DEF Executions, Tokens
      <4> QED BY <4>1, OtherThreads
    <3> QED BY <3>1, <3>2
  <2> QED BY <2>1, <2>2 DEF FreshThread
<1> QED BY <1>1, <1>2, <1>3 DEF Tokens

\* A step that changes the thread's place, and its token, only.
LEMMA KeepsFresh ==
  ASSUME Executions, Tokens, Renews, NEW t \in Thread, UNCHANGED began,
         NEW pc, NEW tok \in Nat, tok <= run',
         pc = "ensure" => token' = None,
         pc \in {"send", "reply"} => /\ token' = None \/ tok <= token'
                                     /\ Call(t) = "auth" => began[t] <= tok
                                     /\ thread[t].retried => began[t] < tok,
         \/ thread' = [thread EXCEPT ![t].pc = pc, ![t].token = tok]
         \/ thread' = [thread EXCEPT ![t].pc = pc] /\ tok = thread[t].token
  PROVE  Tokens'
<1>1. PICK y, b : y = thread[t] /\ b = began[t] OBVIOUS
<1>2. PICK x : x = [y EXCEPT !.pc = pc, !.token = tok] OBVIOUS
<1>3. IsThread(y) BY <1>1 DEF Executions, ExecutedOnce
<1>4. x.pc = pc /\ x.token = tok /\ x.retried = y.retried /\ x.todo = y.todo
  BY <1>2, <1>3 DEF IsThread, At
<1>5. FreshThread(y, b) BY <1>1 DEF Tokens
<1>6. FreshThread(x, b)'
  <2>1. b \in Nat /\ b <= run' /\ (x.retried => b < run')
    BY <1>4, <1>5 DEF FreshThread, Renews, Tokens
  <2>2. x.pc \in {"send", "reply"} => /\ token' = None \/ x.token <= token'
                                      /\ Head(x.todo) = "auth" => b <= x.token
                                      /\ x.retried => b < x.token
    BY <1>1, <1>4 DEF Call
  <2> QED BY <1>4, <2>1, <2>2 DEF FreshThread, None
<1>7. thread' = [thread EXCEPT ![t] = x]
  <2>1. CASE thread' = [thread EXCEPT ![t].pc = pc, ![t].token = tok]
    BY <1>1, <1>2, <2>1 DEF Executions
  <2>2. CASE thread' = [thread EXCEPT ![t].pc = pc] /\ tok = y.token
    <3>1. y = At(y.pc, y.todo, y.token, y.retried) BY <1>3 DEF IsThread
    <3>2. x = [y EXCEPT !.pc = pc] BY <1>2, <2>2, <3>1 DEF At
    <3> QED BY <1>1, <2>2, <3>2 DEF Executions
  <2> QED BY <1>1, <2>1, <2>2
<1>8. began' = [began EXCEPT ![t] = b] BY <1>1 DEF Tokens
<1> QED BY <1>6, <1>7, <1>8, OneFreshThread

\* A thread with no token of its own, in a request or not.
LEMMA StartsAnew ==
  ASSUME Executions, Tokens, Renews, NEW t \in Thread, NEW x,
         thread' = [thread EXCEPT ![t] = x], x.token = None,
         x.pc \notin {"send", "reply"},
         x.pc = "ensure" => Head(x.todo) # "auth" /\ x.retried = FALSE,
         \/ UNCHANGED began /\ (x.retried = FALSE \/ began[t] < run')
         \/ began' = [began EXCEPT ![t] = run] /\ x.retried = FALSE
  PROVE  Tokens'
<1>1. PICK b : /\ began' = [began EXCEPT ![t] = b] /\ b \in {run, began[t]}
               /\ x.retried = FALSE \/ b < run'
  <2>1. began = [began EXCEPT ![t] = began[t]] BY DEF Tokens
  <2> QED BY <2>1
<1>2. b \in Nat /\ b <= run' BY <1>1 DEF Tokens, FreshThread, Renews
<1>3. FreshThread(x, b)'
  <2>1. run' \in Nat BY DEF Tokens, Renews
  <2> QED BY <1>1, <1>2, <2>1 DEF FreshThread, None
<1> QED BY <1>1, <1>3, OneFreshThread

LEMMA Rests ==
  ASSUME Executions, Tokens, Renews, NEW t \in Thread, UNCHANGED began,
         thread' = [thread EXCEPT ![t] = AtRest]
  PROVE  Tokens'
<1>1. PICK x : x = AtRest OBVIOUS
<1>2. x.pc = "idle" /\ x.token = None /\ x.retried = FALSE BY <1>1 DEF AtRest, At
<1> QED BY <1>1, <1>2, StartsAnew

LEMMA TokensInductive == Executions /\ Tokens /\ [SessionNext]_sessionVars => Tokens'
<1> SUFFICES ASSUME Executions, Tokens, [SessionNext]_sessionVars PROVE Tokens' OBVIOUS
<1>a. ASSUME NEW t \in Thread, NEW why, Fail(t, why) PROVE Tokens'
  BY <1>a, Rests DEF Fail, daemonVars, historyVars, Renews
<1>b. ASSUME NEW t \in Thread PROVE FreshThread(thread[t], began[t]) BY DEF Tokens
<1>1. ASSUME NEW t \in Thread, NEW r \in Request, Begin(t, r) PROVE Tokens'
  <2>1. PICK x : x = At("ensure", r, None, FALSE) /\ thread' = [thread EXCEPT ![t] = x]
    BY <1>1 DEF Begin
  <2>4. x.pc = "ensure" /\ x.todo = r /\ x.token = None /\ x.retried = FALSE
    BY <2>1 DEF At
  <2>2. began' = [began EXCEPT ![t] = run] /\ Renews
    BY <1>1 DEF Begin, daemonVars, Renews
  <2>3. Head(r) # "auth" BY <1>1, SessionAssumption DEF Begin
  <2> QED BY <2>1, <2>2, <2>3, <2>4, StartsAnew
<1>2. ASSUME NEW t \in Thread, UseCachedToken(t) PROVE Tokens'
  <2>1. PICK tok, pc :
          /\ tok = token /\ pc = "send"
          /\ thread' = [thread EXCEPT ![t].pc = pc, ![t].token = tok]
    BY <1>2 DEF UseCachedToken
  <2>2. UNCHANGED <<began, token, run>> /\ Renews
    BY <1>2 DEF UseCachedToken, daemonVars, historyVars, Renews
  <2>3. tok \in Nat /\ tok <= run' BY <2>1, <2>2 DEF Tokens
  <2>a. thread[t].pc = "ensure" /\ token # None BY <1>2 DEF UseCachedToken
  <2>4. Call(t) = "auth" => began[t] <= tok
    BY <1>b, <2>a, <2>1 DEF FreshThread, Call
  <2>5. thread[t].retried => began[t] < tok
    BY <1>b, <2>a, <2>1 DEF FreshThread
  <2>6. token' = None \/ tok <= token' BY <2>1, <2>2, <2>3
  <2>7. pc # "ensure" BY <2>1
  <2>8. \/ thread' = [thread EXCEPT ![t].pc = pc, ![t].token = tok]
        \/ thread' = [thread EXCEPT ![t].pc = pc] /\ tok = thread[t].token
    BY <2>1
  <2> QED BY <2>2, <2>3, <2>4, <2>5, <2>6, <2>7, <2>8, KeepsFresh
<1>3. ASSUME NEW t \in Thread, EnterSetup(t) \/ HubAnswers(t) PROVE Tokens'
  <2>1. PICK tok, pc :
          tok = thread[t].token /\ pc \in {"wait_for_hub", "unlock"} /\ Goto(t, pc)
    BY <1>3 DEF EnterSetup, HubAnswers
  <2>2. UNCHANGED began /\ Renews /\ run' = run
    BY <1>3 DEF EnterSetup, HubAnswers, daemonVars, historyVars, Renews
  <2>3. tok \in Nat /\ tok <= run BY <1>b, <2>1 DEF FreshThread
  <2> QED BY <2>1, <2>2, <2>3, KeepsFresh DEF Goto
<1>4. ASSUME NEW t \in Thread, Unlock(t) PROVE Tokens'
  <2>1. CASE up
    <3>1. PICK tok, pc : tok = run /\ pc = "wait_for_node" OBVIOUS
    <3>2. thread' = [thread EXCEPT ![t].pc = pc, ![t].token = tok]
      BY <1>4, <2>1, <3>1 DEF Unlock
    <3>3. UNCHANGED began /\ Renews /\ run' = run
      BY <1>4, <2>1 DEF Unlock, daemonVars, historyVars, Renews
    <3>4. tok \in Nat /\ tok <= run' BY <3>1, <3>3 DEF Tokens
    <3>5. pc \notin {"ensure", "send", "reply"} BY <3>1
    <3> QED BY <3>2, <3>3, <3>4, <3>5, KeepsFresh
  <2>2. CASE ~up BY <1>4, <2>2, <1>a DEF Unlock
  <2> QED BY <2>1, <2>2
<1>5. ASSUME NEW t \in Thread, NodeIsReady(t) PROVE Tokens'
  BY <1>5, <1>b, KeepsFresh DEF NodeIsReady, Accepts, Goto, daemonVars, historyVars,
     Renews, FreshThread, Tokens
<1>6. ASSUME NEW t \in Thread, Serve(t) PROVE Tokens'
  BY <1>6, <1>b, KeepsFresh DEF Serve, Goto, daemonVars, Renews, FreshThread, Call
<1>7. ASSUME NEW t \in Thread, Refused(t) PROVE Tokens'
  <2>1. CASE Call(t) = "auth" /\ ~thread[t].retried
    <3>1. PICK x : /\ x = At("reset", thread[t].todo, None, TRUE)
                   /\ thread' = [thread EXCEPT ![t] = x]
      BY <1>7, <2>1 DEF Refused
    <3>5. x.pc = "reset" /\ x.token = None BY <3>1 DEF At
    <3>2. UNCHANGED began /\ Renews /\ run' = run
      BY <1>7, <2>1 DEF Refused, daemonVars, historyVars, Renews
    <3>3. thread[t].pc = "send" /\ thread[t].token # run BY <1>7 DEF Refused, Accepts
    <3>4. began[t] < run BY <1>b, <2>1, <3>3 DEF FreshThread, Call, Tokens
    <3> QED BY <3>1, <3>2, <3>4, <3>5, StartsAnew
  <2>2. CASE ~(Call(t) = "auth" /\ ~thread[t].retried) BY <1>7, <1>a, <2>2 DEF Refused
  <2> QED BY <2>1, <2>2
<1>8. ASSUME NEW t \in Thread, ResetToken(t) PROVE Tokens'
  <2>1. PICK tok, pc : tok = thread[t].token /\ pc = "ensure" OBVIOUS
  <2>2. thread' = [thread EXCEPT ![t].pc = pc] /\ token' = None
    BY <1>8, <2>1 DEF ResetToken, Goto
  <2>3. UNCHANGED began /\ Renews /\ run' = run
    BY <1>8 DEF ResetToken, daemonVars, historyVars, Renews
  <2>4. tok \in Nat /\ tok <= run' BY <1>b, <2>1, <2>3 DEF FreshThread
  <2>5. pc \notin {"send", "reply"} BY <2>1
  <2>6. \/ thread' = [thread EXCEPT ![t].pc = pc, ![t].token = tok]
        \/ thread' = [thread EXCEPT ![t].pc = pc] /\ tok = thread[t].token
    BY <2>1, <2>2
  <2> QED BY <2>2, <2>3, <2>4, <2>5, <2>6, KeepsFresh
<1>9. ASSUME NEW t \in Thread, Reply(t) PROVE Tokens'
  <2>0. Renews BY <1>9 DEF Reply, daemonVars, Renews
  <2>1. CASE Len(thread[t].todo) = 1
    <3>1. thread' = [thread EXCEPT ![t] = AtRest]
      BY <1>9, <2>1 DEF Reply
    <3>2. UNCHANGED began BY <1>9, <2>1 DEF Reply, historyVars
    <3> QED BY <2>0, <3>1, <3>2, Rests
  <2>2. CASE Len(thread[t].todo) # 1
    <3>1. PICK x : x = AfterReply(thread[t]) OBVIOUS
    <3>2. /\ x.retried = FALSE
          /\ \/ x.pc = "send" /\ x.token = thread[t].token /\ Head(x.todo) # "auth"
             \/ x.pc = "ensure" /\ x.token = None
      BY <3>1 DEF AfterReply, At
    <3>a. thread[t].pc = "reply" /\ thread[t].token = run BY <1>9 DEF Reply
    <3>3. FreshThread(x, run) BY <1>b, <3>2, <3>a DEF FreshThread, None, Tokens
    <3>4. thread' = [thread EXCEPT ![t] = x] /\ began' = [began EXCEPT ![t] = run]
      BY <1>9, <2>2, <3>1 DEF Reply
    <3> QED BY <2>0, <3>3, <3>4, OtherThreads, OneFreshThread
  <2> QED BY <2>1, <2>2
<1>10. CASE ProcessStarts
  <2>1. \A t \in Thread : thread'[t] = AtRest BY <1>10 DEF ProcessStarts
  <2>2. AtRest.pc = "idle" /\ AtRest.token = None /\ AtRest.retried = FALSE
    BY DEF AtRest, At
  <2>3. \A t \in Thread : FreshThread(thread[t], began[t])'
    BY <1>10, <1>b, <2>1, <2>2 DEF ProcessStarts, FreshThread, None, Tokens
  <2> QED BY <1>10, <2>3 DEF ProcessStarts, Tokens, None
<1>11. CASE UNCHANGED <<thread, began, token>> /\ run' \in {run, run + 1}
  BY <1>11, <1>b, OtherThreads DEF Tokens, Renews, FreshThread
<1>12. ASSUME NEW t \in Thread, Ask(t) \/ ThreadStep(t) PROVE Tokens'
  <2>1. HubWaitEnds(t) \/ NodeWaitEnds(t) \/ Unreachable(t) => Tokens'
    BY <1>a DEF HubWaitEnds, NodeWaitEnds, Unreachable
  <2> QED BY <1>1, <1>2, <1>3, <1>4, <1>5, <1>6, <1>7, <1>8, <1>9, <1>12, <2>1
          DEF Ask, ThreadStep
<1>13. DaemonStops \/ DaemonStarts \/ NodeFails \/ NodeReturns \/ UNCHANGED sessionVars =>
         UNCHANGED <<thread, began, token>> /\ run' \in {run, run + 1}
  BY DEF DaemonStops, DaemonStarts, NodeFails, NodeReturns, historyVars, sessionVars,
     daemonVars
<1> QED BY <1>10, <1>11, <1>12, <1>13 DEF SessionNext

Outcomes == DOMAIN outcome = Thread

\* A call of _authenticated_request is refused for good only if the daemon was
\* restarted twice while it was made, whatever other threads do to the shared
\* token between its two attempts.
THEOREM AuthRetriesSuffice == SessionSpec => AuthSurvivesRestart
<1>1. SessionInit => Executions /\ Tokens /\ Outcomes
  <2> SUFFICES ASSUME SessionInit PROVE Executions /\ Tokens /\ Outcomes OBVIOUS
  <2>1. Executions BY SessionStarts
  <2>2. AtRest.pc = "idle" /\ AtRest.token = None /\ AtRest.retried = FALSE
    BY DEF AtRest, At
  <2>3. \A t \in Thread : thread[t] = AtRest /\ began[t] = 1 BY DEF SessionInit
  <2>4. \A t \in Thread : FreshThread(thread[t], began[t])
    BY <2>2, <2>3 DEF FreshThread, SessionInit, None
  <2> QED BY <2>1, <2>4 DEF SessionInit, Tokens, Outcomes, None
<1>2. Executions /\ Tokens /\ Outcomes /\ [SessionNext]_sessionVars =>
        [\A t \in Thread : outcome'[t] = "refused" /\ outcome[t] # "refused"
                             => run > began[t] + 1]_sessionVars
  <2> SUFFICES ASSUME Executions, Tokens, Outcomes, SessionNext, NEW t \in Thread,
                      outcome'[t] = "refused", outcome[t] # "refused"
               PROVE  run > began[t] + 1
    OBVIOUS
  <2>1. PICK u \in Thread : Refused(u) /\ outcome' = [outcome EXCEPT ![u] = "refused"]
    <3> DEFINE Ends == \/ UNCHANGED outcome
                       \/ outcome' = [v \in Thread |-> "none"]
                       \/ \E v \in Thread, why \in {"none", "ok", "stale", "unavailable"} :
                            outcome' = [outcome EXCEPT ![v] = why]
    <3>1. ~Ends
      <4>1. DOMAIN outcome = Thread BY DEF Outcomes
      <4> QED BY <4>1
    <3>2. ASSUME NEW v \in Thread, ThreadStep(v) \/ Ask(v), ~Refused(v) PROVE Ends
      BY <3>2 DEF ThreadStep, Ask, Begin, UseCachedToken, EnterSetup, HubAnswers,
         HubWaitEnds, Unlock, NodeIsReady, NodeWaitEnds, Serve, Unreachable, ResetToken,
         Reply, Fail
    <3>3. ~UNCHANGED outcome /\ SessionNext =>
            ProcessStarts \/ \E v \in Thread : Ask(v) \/ ThreadStep(v)
      BY DEF SessionNext, DaemonStops, DaemonStarts, NodeFails, NodeReturns
    <3>4. ProcessStarts => Ends BY DEF ProcessStarts
    <3>5. PICK v \in Thread : Refused(v) BY <3>1, <3>2, <3>3, <3>4
    <3>6. outcome' = [outcome EXCEPT ![v] = "refused"]
      BY <3>1, <3>5 DEF Refused, Fail
    <3> QED BY <3>5, <3>6
  <2>2. u = t BY <2>1
  <2>3. /\ thread[t].pc = "send" /\ thread[t].token # run
        /\ Call(t) = "auth" /\ thread[t].retried
    <3>1. thread[t].pc = "send" /\ thread[t].token # run
      BY <2>1, <2>2 DEF Refused, Accepts
    <3>2. CASE Call(t) = "auth" /\ ~thread[t].retried
      BY <2>1, <2>2, <3>2 DEF Refused
    <3>3. CASE Call(t) # "auth" BY <2>1, <2>2, <3>3 DEF Refused, Fail
    <3> QED BY <3>1, <3>2, <3>3
  <2>4. FreshThread(thread[t], began[t]) BY DEF Tokens
  <2> QED BY <2>3, <2>4 DEF FreshThread, Tokens
<1>3. Outcomes /\ [SessionNext]_sessionVars => Outcomes'
  BY DEF SessionNext, sessionVars, DaemonStops, DaemonStarts, NodeFails, NodeReturns,
     ProcessStarts, Ask, ThreadStep, Begin, UseCachedToken, EnterSetup, HubAnswers,
     HubWaitEnds, Unlock, NodeIsReady, NodeWaitEnds, Serve, Unreachable, Refused,
     ResetToken, Reply, Fail, Outcomes
<1> QED BY <1>1, <1>2, <1>3, ExecutionsInductive, TokensInductive, PTL
        DEF SessionSpec, AuthSurvivesRestart

-----------------------------------------------------------------------------
(* Provisioning: the unit and the script.                                   *)

\* The wallets whose pairing URI may be missing.
Excused == touched \cup interrupted \cup Unwritten

\* The script is at a declared wallet, and what it holds to be written is the
\* URI of the one wallet that has this alias, whatever else the operator does.
ScriptOK ==
  /\ config \in Config
  /\ script.pc # "off" => script.i \in 1..Len(config)
  /\ unit # "starting" => script.pc = "off"
  /\ script.pc \in {"open", "fill"} =>
       \A w \in wallets :
         w.alias = Lower[Declared.alias] => w.alias \in touched \/ w.uri = script.out

FilesOK ==
  /\ DOMAIN file = Spellings
  /\ \A w \in wallets : w = [name |-> w.name, alias |-> w.alias, uri |-> w.uri]

Provisioned == ScriptOK /\ FilesOK /\ UriIsKept

\* Where the script goes, no file is left unwritten that it has begun.
LEMMA ScriptAtFields ==
  ASSUME NEW pc, NEW i, NEW out
  PROVE  /\ ScriptAt(pc, i, out).pc = pc /\ ScriptAt(pc, i, out).i = i
         /\ ScriptAt(pc, i, out).out = out
BY DEF ScriptAt

LEMMA AtWalletOK ==
  ASSUME NEW i \in Nat \ {0}, NEW c \in Config, config' = c, script' = AtWallet(i)',
         unit' = IF script' = Off THEN "active" ELSE "starting"
  PROVE  /\ script'.pc \in {"off", "check"}
         /\ script'.pc # "off" => script'.i \in 1..Len(config')
         /\ unit' # "starting" => script'.pc = "off"
<1>1. Len(c) \in Nat BY ProvisioningAssumption
<1>2. CASE i <= Len(c)
  <2>1. script' = ScriptAt("check", i, NoFile) BY <1>2 DEF AtWallet
  <2>2. script'.pc = "check" /\ script'.i = i BY <2>1, ScriptAtFields
  <2>3. script' # Off BY <2>2, ScriptAtFields DEF Off
  <2> QED BY <1>1, <1>2, <2>2, <2>3
<1>3. CASE ~(i <= Len(c))
  <2>1. script' = Off BY <1>3 DEF AtWallet
  <2> QED BY <2>1, ScriptAtFields DEF Off
<1> QED BY <1>2, <1>3

\* A step that leaves the files alone keeps every URI if no wallet loses its
\* excuse and every new wallet has one.
LEMMA FilesKept ==
  ASSUME UriIsKept, Excused \subseteq Excused', UNCHANGED file,
         \A w \in wallets' \ wallets : w.alias \in Excused'
  PROVE  UriIsKept'
BY DEF UriIsKept, Excused, Spellings

\* The next wallet, from one that needs no file.
LEMMA NextWalletOK ==
  ASSUME ScriptOK, NextWallet, UNCHANGED config, script.pc # "off"
  PROVE  ScriptOK' /\ script'.pc \in {"off", "check"}
<1>1. PICK i \in Nat \ {0} : i = script.i + 1
  <2>1. script.i \in Nat BY DEF ScriptOK
  <2> QED BY <2>1
<1>2. script' = AtWallet(i)' BY <1>1 DEF NextWallet, AtWallet
<1>3. PICK c \in Config : config' = c BY DEF ScriptOK
<1>4. unit' = IF script' = Off THEN "active" ELSE "starting" BY DEF NextWallet
<1>5. /\ script'.pc \in {"off", "check"}
      /\ script'.pc # "off" => script'.i \in 1..Len(config')
      /\ unit' # "starting" => script'.pc = "off"
  BY <1>2, <1>3, <1>4, AtWalletOK
<1> QED BY <1>3, <1>5 DEF ScriptOK

\* The script goes from one of its steps to another, or is ended; a step that
\* ends it may leave a wallet without a file only if the wallet is noted.
LEMMA ScriptOff ==
  ASSUME config' \in Config, script' = Off
  PROVE  ScriptOK' /\ Unwritten' = {}
BY ScriptAtFields DEF ScriptOK, Off, Unwritten

LEMMA ProvisionedInductive == Provisioned /\ [UnitNext]_unitVars => Provisioned'
<1> SUFFICES ASSUME Provisioned, [UnitNext]_unitVars PROVE Provisioned' OBVIOUS
<1>0. ScriptOK /\ FilesOK /\ UriIsKept BY DEF Provisioned
<1>a. config \in Config BY <1>0 DEF ScriptOK
<1>1. CASE StartUnit
  <2>1. PICK c \in Config : config' = c BY <1>a, <1>1 DEF StartUnit
  <2>2. script' = AtWallet(1)' /\ UNCHANGED <<config, wallets, file, touched, interrupted>>
    BY <1>1 DEF StartUnit, AtWallet, listVars
  <2>3. unit' = IF script' = Off THEN "active" ELSE "starting" BY <1>1 DEF StartUnit
  <2>4. /\ script'.pc \in {"off", "check"}
        /\ script'.pc # "off" => script'.i \in 1..Len(config')
        /\ unit' # "starting" => script'.pc = "off"
    BY <2>1, <2>2, <2>3, AtWalletOK
  <2>5. ScriptOK' BY <2>1, <2>4 DEF ScriptOK
  <2>6. Unwritten = {} BY <1>0, <1>1 DEF StartUnit, ScriptOK, Unwritten
  <2>7. UriIsKept' BY <1>0, <2>2, <2>6, FilesKept DEF Excused
  <2> QED BY <1>0, <2>2, <2>5, <2>7 DEF Provisioned, FilesOK, Spellings
<1>2. CASE Listed \/ ListFails
  <2>1. /\ script.pc = "check" /\ Unwritten = {}
        /\ UNCHANGED <<config, wallets, file, touched, interrupted>>
    BY <1>2 DEF Listed, ListFails, listVars, Unwritten
  <2>2. UriIsKept' BY <1>0, <2>1, FilesKept DEF Excused
  <2>3. ScriptOK'
    <3>1. CASE NextWallet BY <1>0, <2>1, <3>1, NextWalletOK
    <3>2. CASE ScriptTo("create", NoFile) /\ UNCHANGED unit
      BY <1>0, <2>1, <3>2, ScriptAtFields DEF ScriptTo, ScriptOK
    <3> QED BY <1>2, <3>1, <3>2 DEF Listed, ListFails
  <2> QED BY <1>0, <2>1, <2>2, <2>3 DEF Provisioned, FilesOK, Spellings
<1>3. CASE Create
  <2>1. PICK a : a = Lower[Declared.alias] OBVIOUS
  <2>2. PICK new : new = [name |-> Declared.name, alias |-> a, uri |-> lastUri + 1]
    OBVIOUS
  <2>3. /\ script.pc = "create" /\ \A w \in wallets : w.alias # a
        /\ wallets' = wallets \cup {new}
        /\ script' = ScriptAt("open", script.i, lastUri + 1)
        /\ UNCHANGED <<config, unit, file, touched, interrupted>>
    BY <1>3, <2>1, <2>2 DEF Create, Taken, NewWallet, ScriptTo
  <2>4. script'.pc = "open" /\ script'.i = script.i /\ script'.out = lastUri + 1
    BY <2>3, ScriptAtFields
  <2>5. Lower[Declared.alias]' = a BY <2>1, <2>3, <2>4 DEF Declared
  <2>6. Unwritten = {} /\ Unwritten' = {a}
    BY <2>3, <2>4, <2>5 DEF Unwritten
  <2>7. ScriptOK' BY <1>0, <2>2, <2>3, <2>4, <2>5 DEF ScriptOK
  <2>8. UriIsKept' BY <1>0, <2>2, <2>3, <2>6, FilesKept DEF Excused
  <2>9. FilesOK' BY <1>0, <2>2, <2>3 DEF FilesOK, Spellings
  <2> QED BY <2>7, <2>8, <2>9 DEF Provisioned
<1>4. CASE CreateRefused
  <2>1. /\ script' = Off /\ Unwritten = {}
        /\ UNCHANGED <<config, wallets, file, touched, interrupted>>
    BY <1>4 DEF CreateRefused, ScriptFails, listVars, Unwritten
  <2>2. ScriptOK' BY <1>a, <2>1, ScriptOff
  <2>3. UriIsKept' BY <1>0, <2>1, FilesKept DEF Excused
  <2> QED BY <1>0, <2>1, <2>2, <2>3 DEF Provisioned, FilesOK, Spellings
<1>5. CASE CreateFails
  <2>1. /\ script' = Off /\ Unwritten = {} /\ UNCHANGED <<config, file, touched>>
    BY <1>5 DEF CreateFails, ScriptFails, Unwritten
  <2>2. ScriptOK' BY <1>a, <2>1, ScriptOff
  <2>3. CASE UNCHANGED <<wallets, interrupted>>
    <3>1. UriIsKept' BY <1>0, <2>1, <2>3, FilesKept DEF Excused
    <3> QED BY <1>0, <2>1, <2>2, <2>3, <3>1 DEF Provisioned, FilesOK, Spellings
  <2>4. CASE ~UNCHANGED <<wallets, interrupted>>
    <3>1. PICK a : a = Lower[Declared.alias] OBVIOUS
    <3>2. PICK new : new = [name |-> Declared.name, alias |-> a, uri |-> lastUri + 1]
      OBVIOUS
    <3>3. wallets' = wallets \cup {new} /\ interrupted' = interrupted \cup {a}
      BY <1>5, <2>4, <3>1, <3>2 DEF CreateFails, NewWallet, listVars
    <3>4. UriIsKept' BY <1>0, <2>1, <3>2, <3>3, FilesKept DEF Excused
    <3>5. FilesOK' BY <1>0, <2>1, <3>2, <3>3 DEF FilesOK, Spellings
    <3> QED BY <2>2, <3>4, <3>5 DEF Provisioned
  <2> QED BY <2>3, <2>4
<1>6. CASE OpenFile
  <2>1. PICK s : s = Declared.alias OBVIOUS
  <2>2. /\ script.pc = "open" /\ script' = ScriptAt("fill", script.i, script.out)
        /\ file' = [file EXCEPT ![s] = Empty]
        /\ UNCHANGED <<config, unit, wallets, touched, interrupted>>
    BY <1>6, <2>1 DEF OpenFile, ScriptTo, listVars
  <2>3. script'.pc = "fill" /\ script'.i = script.i /\ script'.out = script.out
    BY <2>2, ScriptAtFields
  <2>4. Declared' = Declared BY <2>2, <2>3 DEF Declared
  <2>5. Unwritten = {Lower[s]} /\ Unwritten' = {Lower[s]}
    BY <2>1, <2>2, <2>3, <2>4 DEF Unwritten
  <2>6. ScriptOK' BY <1>0, <2>2, <2>3, <2>4 DEF ScriptOK
  <2>7. FilesOK' BY <1>0, <2>2 DEF FilesOK, Spellings
  <2>8. ASSUME NEW w \in wallets, w.alias \notin Excused
        PROVE  \E z \in Spellings : Lower[z] = w.alias /\ file'[z] = w.uri
    <3>1. PICK z \in Spellings : Lower[z] = w.alias /\ file[z] = w.uri
      BY <1>0, <2>8 DEF UriIsKept, Excused
    <3>2. z # s BY <2>5, <2>8, <3>1 DEF Excused
    <3> QED BY <1>0, <2>2, <3>1, <3>2 DEF FilesOK
  <2>9. UriIsKept' BY <2>2, <2>5, <2>8 DEF UriIsKept, Excused, Spellings
  <2> QED BY <2>6, <2>7, <2>9 DEF Provisioned
<1>7. CASE FillFile
  <2>1. PICK s : s = Declared.alias OBVIOUS
  <2>2. /\ script.pc = "fill" /\ NextWallet
        /\ file' = [file EXCEPT ![s] = script.out]
        /\ interrupted' = interrupted \ {Lower[s]}
        /\ UNCHANGED <<config, wallets, touched>>
    BY <1>7, <2>1 DEF FillFile, listVars
  <2>3. ScriptOK' /\ script'.pc \in {"off", "check"} BY <1>0, <2>2, NextWalletOK
  <2>4. Unwritten = {Lower[s]} /\ Unwritten' = {}
    BY <2>1, <2>2, <2>3 DEF Unwritten
  <2>5. s \in Spellings
    <3>1. script.i \in 1..Len(config) BY <1>0, <2>2 DEF ScriptOK
    <3> DEFINE Wallet == [name : STRING, alias : DOMAIN Lower]
    <3>2. config \in Seq(Wallet) BY <1>a, ProvisioningAssumption
    <3>3. ASSUME NEW R, NEW c \in Seq(R), NEW i \in 1..Len(c) PROVE c[i] \in R
      OBVIOUS
    <3> HIDE DEF Wallet
    <3>4. config[script.i] \in Wallet BY <3>1, <3>2, <3>3
    <3> QED BY <2>1, <3>4 DEF Declared, Spellings, Wallet
  <2>6. FilesOK' BY <1>0, <2>2 DEF FilesOK, Spellings
  <2>7. ASSUME NEW w \in wallets, w.alias \notin Excused'
        PROVE  \E z \in Spellings : Lower[z] = w.alias /\ file'[z] = w.uri
    <3>1. CASE w.alias = Lower[s]
      <4>1. w.uri = script.out
        BY <1>0, <2>1, <2>2, <2>7, <3>1 DEF ScriptOK, Excused
      <4> QED BY <1>0, <2>2, <2>5, <3>1, <4>1 DEF FilesOK
    <3>2. CASE w.alias # Lower[s]
      <4>1. w.alias \notin Excused BY <2>2, <2>4, <2>7, <3>2 DEF Excused
      <4>2. PICK z \in Spellings : Lower[z] = w.alias /\ file[z] = w.uri
        BY <1>0, <4>1 DEF UriIsKept, Excused
      <4> QED BY <1>0, <2>2, <3>2, <4>2 DEF FilesOK
    <3> QED BY <3>1, <3>2
  <2>8. UriIsKept' BY <2>2, <2>7 DEF UriIsKept, Excused, Spellings
  <2> QED BY <2>3, <2>6, <2>8 DEF Provisioned
\* Whoever ends the script notes the wallet it leaves without a file.
<1>8. ASSUME script' = Off, config' \in Config, interrupted' = interrupted \cup Unwritten,
             UNCHANGED <<wallets, file, touched>>
      PROVE  Provisioned'
  <2>1. ScriptOK' /\ Unwritten' = {} BY <1>8, ScriptOff
  <2>2. Excused \subseteq Excused' BY <1>8 DEF Excused
  <2>3. UriIsKept' BY <1>0, <1>8, <2>2, FilesKept
  <2> QED BY <1>0, <1>8, <2>1, <2>3 DEF Provisioned, FilesOK, Spellings
<1>9. CASE Stop
  BY <1>a, <1>8, <1>9 DEF Stop, listVars
<1>10. ASSUME NEW c \in Config, Rebuild(c) PROVE Provisioned'
  BY <1>8, <1>10 DEF Rebuild, listVars
\* A command changes wallets of one alias, which is touched from then on.
<1>11. ASSUME NEW a, Command(a), \A w \in wallets' \ wallets : w.alias = a,
              \A w \in wallets' \ wallets :
                 w = [name |-> w.name, alias |-> w.alias, uri |-> w.uri]
       PROVE  Provisioned'
  <2>1. UNCHANGED <<config, unit, script, file, interrupted>> /\ touched' = touched \cup {a}
    BY <1>11 DEF Command
  <2>2. Excused \subseteq Excused' /\ a \in Excused'
    BY <2>1 DEF Excused, Unwritten, Declared
  <2>3. UriIsKept' BY <1>0, <1>11, <2>1, <2>2, FilesKept
  <2>4. FilesOK' BY <1>0, <1>11, <2>1 DEF FilesOK, Spellings
  <2>5. ScriptOK' BY <1>0, <1>11, <2>1 DEF ScriptOK, Declared
  <2> QED BY <2>3, <2>4, <2>5 DEF Provisioned
<1>12. ASSUME NEW new \in ByHand, OperatorCreates(new) PROVE Provisioned'
  <2>1. PICK w : w = [name |-> new.name, alias |-> new.alias, uri |-> lastUri + 1]
    OBVIOUS
  <2>2. wallets' = wallets \cup {w} /\ Command(new.alias)
    BY <1>12, <2>1 DEF OperatorCreates, NewWallet
  <2> QED BY <1>11, <2>1, <2>2
<1>13. ASSUME NEW w \in wallets, OperatorDeletes(w) PROVE Provisioned'
  BY <1>11, <1>13 DEF OperatorDeletes
<1>14. ASSUME NEW w \in wallets, OperatorRotates(w) PROVE Provisioned'
  <2>1. PICK new : new = [w EXCEPT !.uri = lastUri + 1] OBVIOUS
  <2>2. new = [name |-> w.name, alias |-> w.alias, uri |-> lastUri + 1]
    BY <1>0, <2>1 DEF FilesOK
  <2>3. wallets' = (wallets \ {w}) \cup {new} /\ Command(w.alias)
    BY <1>14, <2>1 DEF OperatorRotates
  <2> QED BY <1>11, <2>2, <2>3
<1>15. CASE UNCHANGED unitVars
  <2>1. UNCHANGED <<config, unit, script, wallets, file, interrupted, touched>>
    BY <1>15 DEF unitVars, listVars
  <2> QED BY <1>0, <2>1 DEF Provisioned, ScriptOK, FilesOK, UriIsKept, Unwritten,
             Declared, Spellings
<1> QED BY <1>1, <1>2, <1>3, <1>4, <1>5, <1>6, <1>7, <1>9, <1>10, <1>12, <1>13,
           <1>14, <1>15 DEF UnitNext, Script

\* In every configuration, through every stop, failure and command of the
\* operator, the pairing URI of a wallet that the script created and wrote to
\* disk stays there.
THEOREM UrisAreKept == UnitSpec => []UriIsKept
<1>1. UnitInit => Provisioned
  BY ScriptAtFields DEF UnitInit, Provisioned, ScriptOK, FilesOK, UriIsKept, Off, Spellings
<1>2. Provisioned => UriIsKept BY DEF Provisioned
<1> QED BY <1>1, <1>2, ProvisionedInductive, PTL DEF UnitSpec
=============================================================================

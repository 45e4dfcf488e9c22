----------------------------- MODULE HubManager -----------------------------
(***************************************************************************)
(* class AlbyHubManager of nwc_hub_manager.py: create, drain, delete and   *)
(* rotate, which the nwc-wallet command and wallet provisioning run in     *)
(* processes of their own, each as a sequence of HTTP requests to the      *)
(* daemon.  Nothing is locked between two requests: clients of the wallet  *)
(* go on receiving and paying, another manager may be at work on the same  *)
(* wallet, and an operation may stop after any request - the process is    *)
(* killed, a request fails, or its answer is lost after it was executed.   *)
(* A request whose client gave up may be executed all the same, as long as *)
(* it is on its way: until then it takes the place of its operation, of    *)
(* kind "late", next to the operations of the processes that go on.        *)
(*                                                                         *)
(* A wallet is named by its alias; a name or a Lightning Address resolves  *)
(* the same way.  _paginate reads the list of wallets page by page; the    *)
(* list of a wallet's transactions is read in one step.  The token and     *)
(* metadata other than the alias are not modelled.                         *)
(***************************************************************************)
EXTENDS NwcStore

CONSTANTS Manager,   \* places of the operations that are under way at once
          Alias,     \* lnurl_alias values
          NoAlias,   \* the alias of no operation
          PageSize,  \* page_size of _paginate (100)
          Sat        \* msat per satoshi (1000)

ASSUME HubAssumption == /\ Sat \in Nat \ {0} /\ PageSize \in Nat \ {0}
                        /\ NoAlias \notin Alias

VARIABLES alias,     \* metadata.lnurl_alias of every app
          op,        \* each manager's operation
          disputed   \* history: aliases two operations worked on at once, or
                     \* whose holder create_wallet may have missed because a
                     \* wallet was deleted while it read the list

vars == <<apps, txs, lastApp, lastTx, alias, op, disputed>>

\* offset, count and hit are those of the list being read: its next place, the
\* number of results, and whether one of them matched.  quiet is a history
\* variable: nobody else has touched the wallet since drain_wallet read its
\* balance.
Idle == [pc |-> "idle", kind |-> "none", alias |-> NoAlias, app |-> 0,
         seen |-> 0, amount |-> 0, offset |-> 0, count |-> 0, hit |-> FALSE,
         quiet |-> FALSE]

Operation == [pc : {"idle", "listing", "found", "resolving", "checking", "sending",
                    "verifying", "drained", "deleting", "creating", "funding"},
              kind : {"none", "create", "drain", "delete", "rotate", "late"},
              alias : Alias \cup {NoAlias}, app : 0..MaxApp,
              seen : Nat, amount : Nat, offset : Nat, count : Nat, hit : BOOLEAN,
              quiet : BOOLEAN]

Init == /\ StoreInit
        /\ alias = [a \in {} |-> NoAlias]
        /\ op = [m \in Manager |-> Idle]
        /\ disputed = {}

RowsOf(a) == {t \in DOMAIN txs : txs[t].app = a}
PendingRows(a) == {t \in RowsOf(a) : txs[t].state = "pending"}
WholeSats(x) == (x \div Sat) * Sat
Dust(x) == x % Sat

Found(al) == {a \in DOMAIN apps : alias[a] = al}

\* A step that changes a's row, its transactions or their states.
Touches(a) == /\ a \in DOMAIN apps
              /\ \/ a \notin DOMAIN apps'
                 \/ apps'[a] # apps[a]
                 \/ \E t \in DOMAIN txs' : /\ txs'[t].app = a
                                           /\ t \in DOMAIN txs => txs'[t] # txs[t]

Disturbed(n) == [op[n] EXCEPT !.quiet = @ /\ ~Touches(op[n].app)]

\* m's operation becomes o, whatever m's step does to the others' wallets.
Continue(m, o) == op' = [n \in Manager |-> IF n = m THEN o ELSE Disturbed(n)]
Stay(m, o) == /\ op' = [op EXCEPT ![m] = o]
              /\ UNCHANGED <<storeVars, alias>>
Start(m, o) == /\ Stay(m, o)
               /\ disputed' = disputed \cup ({o.alias} \cap {op[n].alias : n \in Manager})

-----------------------------------------------------------------------------
(* The requests that change the tables.                                     *)

Created(al) ==
  /\ CreateApp(0)
  /\ alias' = [a \in DOMAIN apps' |-> IF a = lastApp' THEN al ELSE alias[a]]
  /\ UNCHANGED disputed

\* What is behind the wallet in the list moves one place up, past the offset of
\* a list that is being read.
Deleted(a) ==
  /\ DeleteApp(a)
  /\ alias' = Restrict(alias, DOMAIN apps')
  /\ disputed' = disputed \cup
       {op[n].alias : n \in {n \in Manager : op[n].kind = "create" /\ op[n].offset > 0}}

Funded(a, amount) == FundFromNode(a, amount) /\ UNCHANGED <<alias, disputed>>
Drained(a, amount) == DrainToNode(a, amount) /\ UNCHANGED <<alias, disputed>>

-----------------------------------------------------------------------------
(* _paginate and what reads a list with it.                                 *)

\* The wallets in the order of their ids that have as many before them as the
\* offset allows.
Page(o) == {a \in DOMAIN apps :
              Cardinality({b \in DOMAIN apps : b < a}) \in o..(o + PageSize - 1)}

\* What the list is read for, and where the operation is when it is read.
Unique(o) == o.pc = "listing" /\ o.kind = "create"
AfterList(o) == [o EXCEPT !.offset = 0, !.count = 0, !.hit = FALSE,
                   !.pc = IF Unique(o) THEN "creating"
                          ELSE IF o.pc = "resolving" THEN "checking"
                          ELSE IF o.kind = "delete" THEN "found" ELSE "resolving"]

\* totalCount comes with every page.
TurnPage(m, o, page) ==
  LET count == o.count + Cardinality(page)
  IN  IF count >= Cardinality(DOMAIN apps)
      THEN (Unique(o) \/ o.hit) /\ Stay(m, AfterList(o))
      ELSE Stay(m, [o EXCEPT !.offset = @ + PageSize, !.count = count])

\* Mutant: an alias that is not on the first page is free.
ReadFirstPage(m) ==
  /\ op[m].pc \in {"listing", "resolving"}
  /\ Page(op[m].offset) \cap Found(op[m].alias) = {}
  /\ IF Unique(op[m]) THEN Stay(m, AfterList(op[m]))
                      ELSE TurnPage(m, op[m], Page(op[m].offset))

\* A page without the alias.  A list without it ends the uniqueness check of
\* create_wallet; for the other operations it is wallet_not_found.
ReadPage(m) ==
  /\ op[m].pc \in {"listing", "resolving"}
  /\ Page(op[m].offset) \cap Found(op[m].alias) = {}
  /\ TurnPage(m, op[m], Page(op[m].offset))

\* The wallet a resolution finds; drain_wallet takes its balance with it.  It may
\* be a successor of the one delete or rotate resolved, which is then drained
\* and not deleted.
Matched(o, a) ==
  IF o.pc = "listing" THEN [o EXCEPT !.hit = TRUE, !.app = a]
  ELSE [o EXCEPT !.hit = TRUE, !.app = a, !.seen = apps[a].balance, !.quiet = TRUE,
          !.kind = IF a = o.app THEN @ ELSE "drain"]

\* A page with the alias: alias_exists for create_wallet, wallet_ambiguous if
\* there was a match before or there are several.
ReadMatch(m) ==
  /\ op[m].pc \in {"listing", "resolving"} /\ ~Unique(op[m]) /\ ~op[m].hit
  /\ \E a \in DOMAIN apps :
       /\ Page(op[m].offset) \cap Found(op[m].alias) = {a}
       /\ TurnPage(m, Matched(op[m], a), Page(op[m].offset))

-----------------------------------------------------------------------------
(* create_wallet.                                                          *)

\* amount is 0 for a receive-only wallet.
StartCreate(m, al, amount) ==
  /\ op[m] = Idle
  /\ Start(m, [Idle EXCEPT !.pc = "listing", !.kind = "create", !.alias = al,
                           !.amount = amount])

\* POST /api/apps, for a new wallet and at the end of a rotation: max_amount
\* is 0, there is no limit beyond the funds.
PostApp(m) ==
  /\ op[m].pc = "creating"
  /\ Created(op[m].alias)
  /\ Continue(m, IF op[m].kind = "create" /\ op[m].amount > 0
                 THEN [op[m] EXCEPT !.pc = "funding", !.app = lastApp']
                 ELSE Idle)

PostFunding(m) ==
  /\ op[m].pc = "funding"
  /\ Funded(op[m].app, op[m].amount)
  /\ Continue(m, Idle)

-----------------------------------------------------------------------------
(* drain_wallet, delete_wallet, rotate_wallet_secret.                      *)

\* delete and rotate resolve the wallet first, drain resolves it again.
StartOn(m, kind, al) ==
  /\ op[m] = Idle
  /\ Start(m, [Idle EXCEPT !.kind = kind, !.alias = al,
                 !.pc = IF kind = "drain" THEN "resolving" ELSE "listing"])

\* delete_wallet looks for pending transactions before it drains.
FirstPendingCheck(m) ==
  /\ op[m].pc = "found"
  /\ PendingRows(op[m].app) = {}
  /\ Stay(m, [op[m] EXCEPT !.pc = "resolving"])

\* Mutant: drain_wallet does not look for pending transactions.
NoPendingCheck(m) ==
  /\ op[m].pc = "checking"
  /\ Stay(m, [op[m] EXCEPT !.pc = IF WholeSats(op[m].seen) = 0 THEN "drained" ELSE "sending"])

PendingCheck(m) ==
  /\ op[m].pc = "checking"
  /\ PendingRows(op[m].app) = {}
  /\ Stay(m, [op[m] EXCEPT !.pc = IF WholeSats(op[m].seen) = 0 THEN "drained" ELSE "sending"])

\* POST /api/transfers moves what was seen before the pending check.
PostDrain(m) ==
  /\ op[m].pc = "sending"
  /\ Drained(op[m].app, WholeSats(op[m].seen))
  /\ Continue(m, IF op[m].kind = "late" THEN Idle ELSE [op[m] EXCEPT !.pc = "verifying"])

\* drain_incomplete when the balance is not the expected dust.
Verify(m) ==
  /\ op[m].pc = "verifying"
  /\ op[m].app \in DOMAIN apps
  /\ apps[op[m].app].balance = Dust(op[m].seen)
  /\ Stay(m, [op[m] EXCEPT !.pc = "drained"])

ReportDrain(m) ==
  /\ op[m].pc = "drained" /\ op[m].kind = "drain"
  /\ Stay(m, Idle)

\* delete_wallet reads the balance once more; rotate_wallet_secret does not.
ConfirmEmpty(m) ==
  /\ op[m].pc = "drained"
  /\ \/ op[m].kind = "rotate"
     \/ /\ op[m].kind = "delete"
        /\ op[m].app \in DOMAIN apps
        /\ apps[op[m].app].balance < Sat
  /\ Stay(m, [op[m] EXCEPT !.pc = "deleting"])

\* DELETE /api/apps/<pubkey>, 404 when it is gone already.
DeleteByPubkey(m) ==
  /\ op[m].pc = "deleting"
  /\ Deleted(op[m].app)
  /\ Continue(m, IF op[m].kind = "rotate"
                 THEN [Idle EXCEPT !.pc = "creating", !.kind = "rotate",
                                   !.alias = op[m].alias]
                 ELSE Idle)

-----------------------------------------------------------------------------
(* Operations that stop.                                                    *)

\* A check fails, a request is refused or gets no answer, or the process dies:
\* the operation ends where it is and nothing is undone.  A late request ends
\* if it never reached the daemon.
Abort(m) == op[m] # Idle /\ Stay(m, Idle)

\* The process gives up a request that changes something before the daemon has
\* executed it, and ends; the daemon may get round to it later.
GiveUp(m) ==
  /\ op[m].pc \in {"creating", "funding", "sending", "deleting"}
  /\ op[m].kind # "late"
  /\ Stay(m, [op[m] EXCEPT !.kind = "late"])

-----------------------------------------------------------------------------
\* Clients of the wallets receive and pay through the daemon all the while.
Clients == /\ Receive \/ Pay
           /\ op' = [n \in Manager |-> Disturbed(n)]
           /\ UNCHANGED <<alias, disputed>>

\* What leaves the tables alone, and what changes them.
Check(m) == \/ ReadPage(m) \/ ReadMatch(m)
            \/ FirstPendingCheck(m) \/ PendingCheck(m)
            \/ Verify(m) \/ ReportDrain(m) \/ ConfirmEmpty(m)
            \/ Abort(m) \/ GiveUp(m)
Change(m) == PostApp(m) \/ PostFunding(m) \/ PostDrain(m) \/ DeleteByPubkey(m)

Next == \/ \E m \in Manager, al \in Alias :
             \/ \E amount \in Amount \cup {0} : StartCreate(m, al, WholeSats(amount))
             \/ \E kind \in {"drain", "delete", "rotate"} : StartOn(m, kind, al)
        \/ \E m \in Manager : Check(m) /\ UNCHANGED disputed
        \/ \E m \in Manager : Change(m)
        \/ Clients

Spec == Init /\ [][Next]_vars

-----------------------------------------------------------------------------
(* Properties.                                                             *)

\* Every app has its alias, operations are records of their type, and one that
\* drains, checks, funds or deletes has a wallet it works on.
HubTypeOK ==
  /\ StoreTypeOK
  /\ alias \in [DOMAIN apps -> Alias]
  /\ op \in [Manager -> Operation]
  /\ disputed \subseteq Alias
  /\ \A m \in Manager :
       op[m].pc \notin {"idle", "listing", "resolving", "creating"} => op[m].app \in 1..lastApp

\* When nobody else touched the wallet since its balance was read, "drained" is
\* the truth and a deletion destroys only dust: what is left is less than one
\* satoshi, and no payment or invoice of the wallet is open whose money would go
\* with it.
QuietDrainIsComplete ==
  \A m \in Manager :
    op[m].pc \in {"drained", "deleting"} /\ op[m].quiet =>
      /\ op[m].app \in DOMAIN apps
      /\ apps[op[m].app].balance = Dust(op[m].seen)
      /\ PendingRows(op[m].app) = {}

\* An alias names one wallet, so payments to a Lightning Address go to one
\* place, through every creation, rotation and operation that stopped half-way,
\* whatever happens to wallets of other aliases, with two exceptions: two
\* operations, or an operation and a request that was given up, worked on the
\* alias at once (nothing is locked); or a wallet, of any alias, was deleted
\* while create_wallet read the list page by page (a holder may be skipped).
AliasUnique ==
  \A al \in Alias \ disputed : \A a, b \in Found(al) : a = b
=============================================================================

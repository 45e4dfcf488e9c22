-------------------------- MODULE LnurlServiceProofs --------------------------
(***************************************************************************)
(* Proofs about LnurlService, for any number of wallets, aliases, clients, *)
(* pages and requests: an invoice that a payer is given is recorded for a  *)
(* wallet that had the Lightning Address during the request, an address    *)
(* is called unknown only if it had none, and the rate limiters keep their *)
(* limits in every window.                                                 *)
(***************************************************************************)
EXTENDS LnurlService, FiniteSetTheorems, WellFoundedInduction, TLAPS

-----------------------------------------------------------------------------
(* The inductive invariant.                                                *)

\* Ids only grow, so the id of a wallet that is gone never comes back.
WalletsOK == /\ lastApp \in Nat /\ Apps \subseteq 1..lastApp
             /\ alias \in [Apps -> Alias]
             /\ rotating \in Alias \cup {NoAlias}

\* An invoice that was recorded keeps its row as long as its wallet is there.
InvoicesOK ==
  /\ \E k \in Nat : DOMAIN invoices = 1..k
  /\ \A n \in DOMAIN invoices : invoices[n].app \in 1..lastApp
  /\ recorded \subseteq DOMAIN invoices
  /\ \A n \in DOMAIN rows : n \in recorded /\ rows[n] = invoices[n].app
  /\ \A n \in recorded : invoices[n].app \in Apps => n \in DOMAIN rows

WantedBy(x) == IF x.spelling \in Spelling THEN AliasOf[x.spelling] ELSE NoAlias

IsWork(x) == x = [pc |-> x.pc, kind |-> x.kind, spelling |-> x.spelling,
                  amount |-> x.amount, offset |-> x.offset, count |-> x.count,
                  app |-> x.app, invoice |-> x.invoice]

\* Whoever has the alias is in held; what was found had it, and still has it if
\* it exists; from the invoice on the request names what it was made for.
RequestOK(x) ==
  /\ IsWork(x)
  /\ x.pc # "waiting" => /\ x.spelling \in Spelling
                         /\ \A i \in Apps : alias[i] = WantedBy(x) => i \in held
  /\ x.app # None => /\ x.app \in held /\ x.app \in 1..lastApp
                     /\ x.app \in Apps => alias[x.app] = WantedBy(x)
  /\ x.pc \in {"check", "lnd", "record", "issued"} => x.app # None
  /\ x.pc \in {"record", "issued"} =>
       x.invoice \in DOMAIN invoices /\ invoices[x.invoice].app = x.app
  /\ x.pc = "issued" => x.invoice \in recorded

ReplyOK(y) ==
  y.invoice # None =>
    /\ y.invoice \in recorded
    /\ invoices[y.invoice].app \in held
    /\ invoices[y.invoice].app \in Apps => alias[invoices[y.invoice].app] = y.alias

Fulfilment == WalletsOK /\ InvoicesOK /\ RequestOK(request) /\ ReplyOK(reply)

-----------------------------------------------------------------------------
(* The wallets.                                                            *)

\* The request in hand does not move.
Untouched == UNCHANGED <<invoices, recorded, request, reply>>

\* A new wallet has an id that nothing refers to.
LEMMA AddStep ==
  ASSUME Fulfilment, NEW a \in Alias, Add(a), rotating' \in Alias \cup {NoAlias},
         Untouched, UNCHANGED rows
  PROVE  Fulfilment'
<1>0. WalletsOK /\ InvoicesOK /\ RequestOK(request) /\ ReplyOK(reply)
  BY DEF Fulfilment
<1>1. PICK id \in Nat : id = lastApp + 1 /\ id \notin Apps /\ id \notin 1..lastApp
  BY <1>0 DEF WalletsOK
<1>2. /\ lastApp' = id /\ Apps' = Apps \cup {id} /\ alias'[id] = a
      /\ \A i \in Apps : alias'[i] = alias[i]
      /\ alias' = [k \in Apps' |-> alias'[k]]
  BY <1>1 DEF Add, WithApp, Apps
<1>3. \A i \in 1..lastApp : i \in 1..lastApp' /\ (i \in Apps' <=> i \in Apps)
  BY <1>0, <1>1, <1>2 DEF WalletsOK
<1>4. WalletsOK' BY <1>0, <1>1, <1>2, <1>3 DEF WalletsOK
<1>5. InvoicesOK' BY <1>0, <1>3 DEF InvoicesOK, Untouched
<1>6. PICK x : x = request OBVIOUS
<1>7. request' = x /\ RequestOK(x) /\ WantedBy(x) = Wanted
  BY <1>0, <1>6 DEF Untouched, WantedBy, Wanted
<1>8. held \subseteq held' /\ (WantedBy(x) = a => id \in held')
  BY <1>1, <1>7 DEF Add
<1>9. RequestOK(x)'
  <2>1. \A i \in Apps' : alias'[i] = WantedBy(x) /\ x.pc # "waiting" => i \in held'
    BY <1>2, <1>7, <1>8 DEF RequestOK
  <2>2. x.app # None => /\ x.app \in held' /\ x.app \in 1..lastApp'
                        /\ x.app \in Apps' => alias'[x.app] = WantedBy(x)
    BY <1>2, <1>3, <1>7, <1>8 DEF RequestOK
  <2> QED BY <1>7, <2>1, <2>2 DEF RequestOK, WantedBy, Untouched
<1>10. ReplyOK(reply)'
  BY <1>0, <1>2, <1>3, <1>8 DEF ReplyOK, InvoicesOK, Untouched
<1> QED BY <1>4, <1>5, <1>7, <1>9, <1>10 DEF Fulfilment, RequestOK, WantedBy, IsWork

\* A deletion takes the rows of the wallet.
LEMMA DeleteStep ==
  ASSUME Fulfilment, NEW i, DeleteApp(i), rotating' \in Alias \cup {NoAlias}
  PROVE  Fulfilment'
<1>0. WalletsOK /\ InvoicesOK /\ RequestOK(request) /\ ReplyOK(reply)
  BY DEF Fulfilment
<1>1. /\ Apps' = Apps \ {i} /\ \A k \in Apps' : alias'[k] = alias[k]
      /\ alias' = [k \in Apps' |-> alias'[k]]
      /\ UNCHANGED <<lastApp, held, invoices, recorded, request, reply>>
  BY DEF DeleteApp, Apps
<1>2. /\ DOMAIN rows' = {m \in DOMAIN rows : rows[m] # i}
      /\ \A n \in DOMAIN rows' : rows'[n] = rows[n]
  BY DEF DeleteApp
<1>3. WalletsOK' BY <1>0, <1>1 DEF WalletsOK
<1>4. InvoicesOK' BY <1>0, <1>1, <1>2 DEF InvoicesOK
<1>5. PICK x : x = request OBVIOUS
<1>6. RequestOK(x)' BY <1>0, <1>1, <1>5 DEF RequestOK, WantedBy
<1>7. ReplyOK(reply)' BY <1>0, <1>1 DEF ReplyOK
<1> QED BY <1>1, <1>3, <1>4, <1>5, <1>6, <1>7 DEF Fulfilment, RequestOK, WantedBy, IsWork

-----------------------------------------------------------------------------
(* The request.                                                            *)

\* A step of the request that leaves wallets and invoices alone.
LEMMA RequestStep ==
  ASSUME Fulfilment, UNCHANGED <<alias, lastApp, rotating, rows, invoices, recorded, held>>,
         NEW x, RequestOK(x), request' = x, NEW y, ReplyOK(y), reply' = y
  PROVE  Fulfilment'
<1>1. Apps' = Apps BY DEF Apps
<1>2. WalletsOK' BY <1>1 DEF Fulfilment, WalletsOK
<1>3. InvoicesOK' BY <1>1 DEF Fulfilment, InvoicesOK
<1>4. RequestOK(x)' BY <1>1 DEF RequestOK, WantedBy
<1>5. ReplyOK(y)' BY <1>1 DEF ReplyOK
<1> QED BY <1>2, <1>3, <1>4, <1>5 DEF Fulfilment, RequestOK, WantedBy, IsWork, ReplyOK

LEMMA WorkFields ==
  ASSUME NEW pc, NEW kind, NEW s, NEW amt
  PROVE  LET x == Work(pc, kind, s, amt)
         IN  /\ IsWork(x) /\ x.pc = pc /\ x.spelling = s /\ x.app = None
BY DEF Work, IsWork

LEMMA WaitingOK == RequestOK(Waiting) /\ \A status, a : ReplyOK(Answer(status, a, None))
<1>1. RequestOK(Waiting)
  <2>1. IsWork(Waiting) /\ Waiting.pc = "waiting" /\ Waiting.app = None
    BY WorkFields DEF Waiting
  <2> QED BY <2>1 DEF RequestOK
<1> QED BY <1>1 DEF ReplyOK, Answer

\* An answer without an invoice.
LEMMA AnswerStep ==
  ASSUME Fulfilment, UNCHANGED <<alias, lastApp, rotating, rows, invoices, recorded, held>>,
         request' = Waiting, NEW status, NEW a, reply' = Answer(status, a, None)
  PROVE  Fulfilment'
BY WaitingOK, RequestStep

LEMMA RespondStep ==
  ASSUME Fulfilment, NEW status, Respond(status)
  PROVE  Fulfilment'
BY AnswerStep DEF Respond, walletVars, ledgerVars, seenVars

\* A new request starts with the wallets that have the alias.
LEMMA ReceiveStep ==
  ASSUME Fulfilment, NEW c, NEW kind, NEW s \in Spelling, NEW amt, Receive(c, kind, s, amt)
  PROVE  Fulfilment'
<1>0. UNCHANGED <<alias, lastApp, rotating, rows, invoices, recorded>> /\ Apps' = Apps
  BY DEF Receive, walletVars, ledgerVars, Apps
<1>1. CASE UNCHANGED seenVars /\ UNCHANGED request /\ reply' = Answer(429, NoAlias, None)
  <2>1. request' = Waiting BY <1>1 DEF Receive
  <2> QED BY <1>0, <1>1, <2>1, AnswerStep DEF seenVars
<1>2. CASE /\ reply' = Answer(0, NoAlias, None)
           /\ request' = Work("alias", kind, s, amt)
           /\ held' = {i \in Apps : alias[i] = AliasOf[s]}
  <2>1. WalletsOK' /\ InvoicesOK' BY <1>0 DEF Fulfilment, WalletsOK, InvoicesOK
  <2>2. PICK x : x = Work("alias", kind, s, amt) OBVIOUS
  <2>3. IsWork(x) /\ x.pc = "alias" /\ x.spelling = s /\ x.app = None
    BY <2>2, WorkFields
  <2>4. WantedBy(x) = AliasOf[s] BY <2>3 DEF WantedBy
  <2>5. RequestOK(x)' BY <1>0, <1>2, <2>3, <2>4 DEF RequestOK, WantedBy
  <2>6. ReplyOK(reply)' BY <1>2 DEF ReplyOK, Answer
  <2> QED BY <1>2, <2>1, <2>2, <2>5, <2>6 DEF Fulfilment, RequestOK, WantedBy, IsWork
<1> QED BY <1>1, <1>2 DEF Receive

\* A request that goes on without a new invoice.
LEMMA GoOn ==
  ASSUME Fulfilment, NEW x, RequestOK(x), request' = x,
         UNCHANGED <<walletVars, ledgerVars, seenVars, reply>>
  PROVE  Fulfilment'
<1>1. ReplyOK(reply) BY DEF Fulfilment
<1>2. PICK y : y = reply OBVIOUS
<1>3. ReplyOK(y) /\ reply' = y BY <1>1, <1>2
<1> QED BY <1>3, RequestStep DEF walletVars, ledgerVars, seenVars

LEMMA CheckAliasStep == ASSUME Fulfilment, CheckAlias PROVE Fulfilment'
<1>1. CASE Respond(429) \/ Respond(400) BY <1>1, RespondStep
<1>2. CASE Goto("discovery") /\ UNCHANGED ledgerVars
  <2>1. PICK r : r = request OBVIOUS
  <2>2. PICK x : x = [r EXCEPT !.pc = "discovery", !.offset = 0, !.count = 0] OBVIOUS
  <2>3. IsWork(r) /\ RequestOK(r) /\ r.pc = "alias"
    BY <2>1 DEF Fulfilment, RequestOK, CheckAlias
  <2>4. /\ IsWork(x) /\ x.pc = "discovery" /\ x.spelling = r.spelling
        /\ x.app = r.app
    BY <2>2, <2>3 DEF IsWork
  <2>5. RequestOK(x) BY <2>3, <2>4 DEF RequestOK, WantedBy
  <2>6. request' = x /\ UNCHANGED <<walletVars, seenVars, reply>>
    BY <1>2, <2>1, <2>2 DEF Goto
  <2> QED BY <1>2, <2>5, <2>6, GoOn
<1> QED BY <1>1, <1>2 DEF CheckAlias

\* What is found on a page has the alias now; what was found before had it.
LEMMA ReadPageStep == ASSUME Fulfilment, ReadPage PROVE Fulfilment'
<1>1. PICK r : r = request OBVIOUS
<1>2. IsWork(r) /\ RequestOK(r) /\ WantedBy(r) = Wanted
      /\ r.pc \in {"discovery", "lookup"}
  BY <1>1 DEF Fulfilment, RequestOK, WantedBy, Wanted, ReadPage, Reading
<1>3. PICK i, count :
        /\ Match(i, Page(request.offset))
        /\ \/ LookedUp(i)
           \/ /\ request' = [r EXCEPT !.offset = @ + PageSize, !.count = count, !.app = i]
              /\ UNCHANGED <<walletVars, ledgerVars, seenVars, domain, reply>>
  BY <1>1 DEF ReadPage
<1>4. i # None => /\ i \in held /\ i \in 1..lastApp
                  /\ i \in Apps => alias[i] = WantedBy(r)
  <2>1. CASE i = r.app BY <1>2, <2>1 DEF RequestOK
  <2>2. CASE i \in Apps /\ alias[i] = Wanted
    BY <1>2, <2>2 DEF RequestOK, Fulfilment, WalletsOK
  <2> QED BY <1>1, <1>3, <2>1, <2>2 DEF Match, Page
<1>5. CASE /\ request' = [r EXCEPT !.offset = @ + PageSize, !.count = count, !.app = i]
           /\ UNCHANGED <<walletVars, ledgerVars, seenVars, domain, reply>>
  <2>1. PICK x : x = [r EXCEPT !.offset = @ + PageSize, !.count = count, !.app = i]
    OBVIOUS
  <2>2. IsWork(x) /\ x.pc = r.pc /\ x.spelling = r.spelling /\ x.app = i
    BY <1>2, <2>1 DEF IsWork
  <2>3. RequestOK(x) BY <1>2, <1>4, <2>2 DEF RequestOK, WantedBy
  <2> QED BY <1>5, <2>1, <2>3, GoOn
<1>6. CASE LookedUp(i)
  <2>1. CASE Respond(404) \/ Respond(200) \/ Respond(400) BY <2>1, RespondStep
  <2>2. CASE /\ i # None
             /\ request' = [request EXCEPT !.pc = "check", !.app = i]
             /\ UNCHANGED <<walletVars, ledgerVars, seenVars, domain, reply>>
    <3>1. PICK x : x = [r EXCEPT !.pc = "check", !.app = i] OBVIOUS
    <3>2. IsWork(x) /\ x.pc = "check" /\ x.spelling = r.spelling /\ x.app = i
      BY <1>2, <3>1 DEF IsWork
    <3>3. RequestOK(x) BY <1>2, <1>4, <2>2, <3>2 DEF RequestOK, WantedBy
    <3> QED BY <1>1, <2>2, <3>1, <3>3, GoOn
  <2>3. CASE /\ request' = Work("lookup", request.kind, request.spelling, request.amount)
             /\ UNCHANGED <<walletVars, ledgerVars, seenVars, domain, reply>>
    <3>1. PICK x : x = Work("lookup", r.kind, r.spelling, r.amount) OBVIOUS
    <3>2. IsWork(x) /\ x.pc = "lookup" /\ x.spelling = r.spelling /\ x.app = None
      BY <3>1, WorkFields
    <3>3. RequestOK(x) BY <1>2, <3>2 DEF RequestOK, WantedBy
    <3> QED BY <1>1, <2>3, <3>1, <3>3, GoOn
  <2>4. request.pc \in {"discovery", "lookup"} BY <1>1, <1>2
  <2> QED BY <1>6, <2>1, <2>2, <2>3, <2>4 DEF LookedUp
<1> QED BY <1>3, <1>5, <1>6

-----------------------------------------------------------------------------
(* The invoice.                                                            *)

LEMMA CheckAppStep == ASSUME Fulfilment, CheckApp PROVE Fulfilment'
<1>1. PICK r : r = request OBVIOUS
<1>2. IsWork(r) /\ RequestOK(r) /\ r.pc = "check"
  BY <1>1 DEF Fulfilment, RequestOK, CheckApp
<1>3. PICK x : x = [r EXCEPT !.pc = "lnd"] OBVIOUS
<1>4. IsWork(x) /\ x.pc = "lnd" /\ x.spelling = r.spelling /\ x.app = r.app
  BY <1>2, <1>3 DEF IsWork
<1>5. RequestOK(x) BY <1>2, <1>4 DEF RequestOK, WantedBy
<1> QED BY <1>1, <1>3, <1>5, GoOn DEF CheckApp, Step

LEMMA MakeInvoiceStep == ASSUME Fulfilment, MakeInvoice PROVE Fulfilment'
<1>0. WalletsOK /\ InvoicesOK /\ RequestOK(request) /\ ReplyOK(reply)
  BY DEF Fulfilment
<1>1. PICK r : r = request OBVIOUS
<1>2. IsWork(r) /\ RequestOK(r) /\ r.pc = "lnd" /\ r.app # None
  BY <1>0, <1>1 DEF RequestOK, MakeInvoice
<1>3. PICK k \in Nat : DOMAIN invoices = 1..k BY <1>0 DEF InvoicesOK
<1>4. Cardinality(DOMAIN invoices) = k
  <2>1. Cardinality(1..k) = IF 1 > k THEN 0 ELSE k - 1 + 1 BY <1>3, FS_Interval
  <2> QED BY <1>3, <2>1
<1>5. PICK n \in Nat : n = k + 1 /\ n \notin DOMAIN invoices
  BY <1>3
<1>6. PICK x : x = [r EXCEPT !.pc = "record", !.invoice = n] OBVIOUS
<1>7. /\ DOMAIN invoices' = 1..n /\ invoices'[n].app = r.app
      /\ \A j \in DOMAIN invoices : j \in DOMAIN invoices' /\ invoices'[j] = invoices[j]
  BY <1>1, <1>3, <1>4, <1>5 DEF MakeInvoice
<1>8. /\ request' = x /\ Apps' = Apps
      /\ UNCHANGED <<alias, lastApp, rotating, rows, recorded, reply, held>>
  BY <1>1, <1>4, <1>5, <1>6 DEF MakeInvoice, walletVars, seenVars, Apps
<1>9. /\ IsWork(x) /\ x.pc = "record" /\ x.spelling = r.spelling /\ x.app = r.app
      /\ x.invoice = n
  BY <1>2, <1>6 DEF IsWork
<1>10. WalletsOK' BY <1>0, <1>8 DEF WalletsOK
<1>11. InvoicesOK'
  <2>1. \A j \in DOMAIN invoices' : invoices'[j].app \in 1..lastApp
    <3>1. r.app \in 1..lastApp BY <1>2 DEF RequestOK
    <3>2. \A j \in 1..n : j = n \/ j \in 1..k BY <1>3, <1>5
    <3> QED BY <1>0, <1>3, <1>7, <3>1, <3>2 DEF InvoicesOK
  <2>2. \A j \in recorded : invoices'[j] = invoices[j] /\ j \in DOMAIN invoices'
    BY <1>0, <1>7 DEF InvoicesOK
  <2> QED BY <1>0, <1>5, <1>7, <1>8, <2>1, <2>2 DEF InvoicesOK
<1>12. RequestOK(x)'
  BY <1>2, <1>5, <1>7, <1>8, <1>9 DEF RequestOK, WantedBy
<1>13. ReplyOK(reply)'
  BY <1>0, <1>7, <1>8 DEF ReplyOK, InvoicesOK
<1> QED BY <1>8, <1>10, <1>11, <1>12, <1>13 DEF Fulfilment, RequestOK, WantedBy, IsWork

LEMMA RecordStep == ASSUME Fulfilment, Record PROVE Fulfilment'
<1>1. CASE request.app \notin Apps BY <1>1, RespondStep DEF Record
<1>2. CASE request.app \in Apps
  <2>0. WalletsOK /\ InvoicesOK /\ RequestOK(request) /\ ReplyOK(reply)
    BY DEF Fulfilment
  <2>1. PICK r : r = request OBVIOUS
  <2>2. PICK n : n = r.invoice OBVIOUS
  <2>3. /\ IsWork(r) /\ RequestOK(r) /\ r.pc = "record" /\ r.app # None
        /\ n \in DOMAIN invoices /\ invoices[n].app = r.app
    BY <2>0, <2>1, <2>2 DEF RequestOK, Record
  <2>4. PICK x : x = [r EXCEPT !.pc = "issued"] OBVIOUS
  <2>5. /\ IsWork(x) /\ x.pc = "issued" /\ x.spelling = r.spelling /\ x.app = r.app
        /\ x.invoice = n
    BY <2>2, <2>3, <2>4 DEF IsWork
  <2>6. /\ request' = x /\ Apps' = Apps /\ recorded' = recorded \cup {n}
        /\ DOMAIN rows' = DOMAIN rows \cup {n} /\ rows'[n] = r.app
        /\ \A j \in DOMAIN rows \ {n} : rows'[j] = rows[j]
        /\ UNCHANGED <<alias, lastApp, rotating, invoices, reply, held>>
    BY <1>2, <2>1, <2>2, <2>4 DEF Record, Recorded, Step, walletVars, seenVars, Apps
  <2>7. WalletsOK' BY <2>0, <2>6 DEF WalletsOK
  <2>8. InvoicesOK' BY <2>0, <2>3, <2>6 DEF InvoicesOK
  <2>9. RequestOK(x)' BY <2>3, <2>5, <2>6 DEF RequestOK, WantedBy
  <2>10. ReplyOK(reply)' BY <2>0, <2>6 DEF ReplyOK
  <2> QED BY <2>6, <2>7, <2>8, <2>9, <2>10 DEF Fulfilment, RequestOK, WantedBy, IsWork
<1> QED BY <1>1, <1>2

LEMMA DeliverStep == ASSUME Fulfilment, Deliver PROVE Fulfilment'
<1>1. PICK r, y : r = request /\ y = Answer(200, Wanted, r.invoice) OBVIOUS
<1>2. RequestOK(r) /\ WantedBy(r) = Wanted /\ r.pc = "issued"
  BY <1>1 DEF Fulfilment, WantedBy, Wanted, Deliver
<1>3. y.invoice = r.invoice /\ y.alias = WantedBy(r) BY <1>1, <1>2 DEF Answer
<1>4. ReplyOK(y) BY <1>2, <1>3 DEF ReplyOK, RequestOK
<1> QED BY <1>1, <1>4, WaitingOK, RequestStep DEF Deliver, walletVars, ledgerVars, seenVars

-----------------------------------------------------------------------------
(* The theorem.                                                            *)

LEMMA FulfilmentInductive == Fulfilment /\ [Next]_vars => Fulfilment'
<1> SUFFICES ASSUME Fulfilment, [Next]_vars PROVE Fulfilment' OBVIOUS
<1>0. rotating \in Alias \cup {NoAlias} /\ alias \in [Apps -> Alias]
  BY DEF Fulfilment, WalletsOK
<1>1. ASSUME NEW c, NEW kind, NEW s \in Spelling, NEW amt, Receive(c, kind, s, amt)
      PROVE  Fulfilment'
  BY <1>1, ReceiveStep
<1>2. ASSUME NEW a \in Alias, CreateWallet(a) PROVE Fulfilment'
  BY <1>0, <1>2, AddStep DEF CreateWallet, Untouched, ledgerVars
<1>3. ASSUME NEW i \in Apps, DeleteWallet(i) \/ RotateDeletes(i) PROVE Fulfilment'
  <2>1. DeleteApp(i) /\ rotating' \in Alias \cup {NoAlias}
    BY <1>0, <1>3 DEF DeleteWallet, RotateDeletes
  <2> QED BY <2>1, DeleteStep
<1>4. CASE RotateCreates
  <2>1. PICK a \in Alias : a = rotating BY <1>0, <1>4 DEF RotateCreates
  <2> QED BY <1>4, <2>1, AddStep DEF RotateCreates, Untouched, ledgerVars
<1>5. CASE Serve
  <2>1. CASE NotFound
    BY <2>1, AnswerStep DEF NotFound, walletVars, ledgerVars, seenVars
  <2>2. CASE Reject BY <2>2, RespondStep DEF Reject
  <2> QED BY <1>5, <2>1, <2>2, CheckAliasStep, ReadPageStep, CheckAppStep,
             MakeInvoiceStep, RecordStep, DeliverStep DEF Serve
<1>6. CASE Failure BY <1>6, RespondStep DEF Failure, ListFails, InvoiceFails
<1>7. CASE Tick \/ UNCHANGED vars
  <2>1. UNCHANGED <<walletVars, ledgerVars, seenVars, request, reply>>
    BY <1>7 DEF Tick, vars
  <2>2. PICK x : x = request OBVIOUS
  <2>3. RequestOK(x) /\ request' = x BY <2>1, <2>2 DEF Fulfilment
  <2> QED BY <2>1, <2>3, GoOn
<1> QED BY <1>1, <1>2, <1>3, <1>4, <1>5, <1>6, <1>7 DEF Next, Requests, Wallets

LEMMA FulfilmentHolds == Spec => []Fulfilment
<1>1. Init => Fulfilment
  <2> SUFFICES ASSUME Init PROVE Fulfilment OBVIOUS
  <2>1. WalletsOK BY DEF Init, WalletsOK, Apps
  <2>2. InvoicesOK
    <3>1. DOMAIN invoices = 1..0 BY DEF Init
    <3> QED BY <3>1 DEF Init, InvoicesOK
  <2> QED BY <2>1, <2>2, WaitingOK DEF Init, Fulfilment
<1> QED BY <1>1, FulfilmentInductive, PTL DEF Spec

\* However wallets are created, rotated and deleted between the steps of a
\* request and however long the list of them is, a payer is never given an
\* invoice of another wallet than the ones that had the Lightning Address, and
\* what is paid to it is credited if its wallet still exists.
THEOREM InvoicesAreForHolders == Spec => []InvoiceIsForHolder
<1>1. Fulfilment => InvoiceIsForHolder
  BY DEF Fulfilment, InvoicesOK, ReplyOK, InvoiceIsForHolder
<1> QED BY <1>1, FulfilmentHolds, PTL

-----------------------------------------------------------------------------
(* The list, page by page.                                                 *)

\* The wallets of S that are on the first o places of their list.
RankIn(S, i) == Cardinality({j \in S : j < i})
ReadIn(S, o) == {i \in S : RankIn(S, i) < o}

LEMMA RankType ==
  ASSUME NEW S, IsFiniteSet(S), NEW i
  PROVE  RankIn(S, i) \in Nat /\ RankIn(S, i) <= Cardinality(S) /\ Cardinality(S) \in Nat
BY FS_Subset, FS_CardinalityType DEF RankIn

\* A new wallet is the last one, so it is behind what was read.
LEMMA ReadGrows ==
  ASSUME NEW n \in Nat, NEW S \in SUBSET (1..n), NEW o \in Nat, o <= Cardinality(S)
  PROVE  /\ Cardinality(S \cup {n + 1}) = Cardinality(S) + 1
         /\ Cardinality(S) \in Nat
         /\ ReadIn(S \cup {n + 1}, o) = ReadIn(S, o)
<1>1. IsFiniteSet(S)
  <2>1. IsFiniteSet(1..n) BY FS_Interval
  <2> QED BY <2>1, FS_Subset
<1>2. n + 1 \notin S /\ ~(n + 1 < n + 1) /\ \A j \in S : j < n + 1 OBVIOUS
<1>3. \A i \in S : RankIn(S \cup {n + 1}, i) = RankIn(S, i)
  <2> SUFFICES ASSUME NEW i \in S PROVE RankIn(S \cup {n + 1}, i) = RankIn(S, i) OBVIOUS
  <2>1. {j \in S \cup {n + 1} : j < i} = {j \in S : j < i} OBVIOUS
  <2> QED BY <2>1 DEF RankIn
<1>4. RankIn(S \cup {n + 1}, n + 1) = Cardinality(S)
  <2>1. {j \in S \cup {n + 1} : j < n + 1} = S
    <3>1. \A j \in S \cup {n + 1} : j < n + 1 <=> j \in S BY <1>2
    <3> QED BY <3>1
  <2> QED BY <2>1 DEF RankIn
<1>5. Cardinality(S) \in Nat BY <1>1, FS_CardinalityType
<1>6. ~(RankIn(S \cup {n + 1}, n + 1) < o) BY <1>4, <1>5
<1>7. ReadIn(S \cup {n + 1}, o) = ReadIn(S, o) BY <1>2, <1>3, <1>6 DEF ReadIn
<1>8. Cardinality(S \cup {n + 1}) = Cardinality(S) + 1 BY <1>1, <1>2, FS_AddElement
<1> QED BY <1>5, <1>7, <1>8

\* A page adds the next p places; the list is read when nothing is left.
LEMMA ReadMore ==
  ASSUME NEW S, IsFiniteSet(S), NEW o \in Nat, NEW p \in Nat,
         NEW page, page = {i \in S : RankIn(S, i) \in o..(o + p - 1)}
  PROVE  /\ ReadIn(S, o + p) = ReadIn(S, o) \cup page
         /\ Cardinality(ReadIn(S, o + p)) = Cardinality(ReadIn(S, o)) + Cardinality(page)
         /\ Cardinality(ReadIn(S, o + p)) < Cardinality(S) => o + p <= Cardinality(S)
         /\ Cardinality(ReadIn(S, o + p)) >= Cardinality(S) => ReadIn(S, o + p) = S
<1>1. \A i \in S : RankIn(S, i) \in Nat /\ RankIn(S, i) <= Cardinality(S)
  BY RankType
<1>2. ReadIn(S, o + p) = ReadIn(S, o) \cup page BY <1>1 DEF ReadIn
<1>3. ReadIn(S, o) \cap page = {} BY <1>1 DEF ReadIn
<1>4. /\ IsFiniteSet(ReadIn(S, o)) /\ IsFiniteSet(page) /\ IsFiniteSet(ReadIn(S, o + p))
      /\ ReadIn(S, o + p) \subseteq S
  BY FS_Subset DEF ReadIn
<1>5. Cardinality(ReadIn(S, o + p)) = Cardinality(ReadIn(S, o)) + Cardinality(page)
  <2>1. Cardinality(ReadIn(S, o) \cap page) = 0 BY <1>3, FS_EmptySet
  <2>2. Cardinality(ReadIn(S, o)) \in Nat /\ Cardinality(page) \in Nat
    BY <1>4, FS_CardinalityType
  <2>3. Cardinality(ReadIn(S, o) \cup page) =
          Cardinality(ReadIn(S, o)) + Cardinality(page) - Cardinality(ReadIn(S, o) \cap page)
    BY <1>4, FS_Union
  <2>4. PICK a \in Nat, b \in Nat :
          a = Cardinality(ReadIn(S, o)) /\ b = Cardinality(page) BY <2>2
  <2>5. Cardinality(ReadIn(S, o) \cup page) = a + b - 0 BY <2>1, <2>3, <2>4
  <2> QED BY <1>2, <2>4, <2>5
<1>6. Cardinality(S) \in Nat /\ Cardinality(ReadIn(S, o + p)) \in Nat
  BY <1>4, FS_CardinalityType
<1>7. ASSUME Cardinality(ReadIn(S, o + p)) < Cardinality(S) PROVE o + p <= Cardinality(S)
  <2>1. ReadIn(S, o + p) # S BY <1>6, <1>7
  <2>2. PICK i \in S : i \notin ReadIn(S, o + p) BY <1>4, <2>1
  <2>3. ~(RankIn(S, i) < o + p) BY <2>2 DEF ReadIn
  <2> QED BY <1>1, <1>6, <2>2, <2>3
<1>8. ASSUME Cardinality(ReadIn(S, o + p)) >= Cardinality(S) PROVE ReadIn(S, o + p) = S
  <2>1. Cardinality(ReadIn(S, o + p)) <= Cardinality(S) BY <1>4, FS_Subset
  <2>2. Cardinality(ReadIn(S, o + p)) = Cardinality(S) BY <1>6, <1>8, <2>1
  <2> QED BY <1>4, <2>2, FS_Subset
<1> QED BY <1>2, <1>5, <1>7, <1>8

\* While nobody has been without the alias, someone has it, and unless wallets
\* moved up, what was read is a beginning of the list that nobody who has it is
\* on.
SearchOK(x) ==
  /\ x.pc # "waiting" /\ ~vacant => \E i \in Apps : alias[i] = WantedBy(x)
  /\ x.pc \in {"discovery", "lookup"} /\ x.app = None /\ ~shifted =>
       /\ x.offset \in Nat /\ x.offset <= Cardinality(Apps)
       /\ x.count = Cardinality(ReadIn(Apps, x.offset))
       /\ \A i \in ReadIn(Apps, x.offset) : alias[i] # WantedBy(x)

NotFoundOK(y) == y.status = 404 /\ y.alias # NoAlias => vacant \/ shifted

Search == SearchOK(request) /\ NotFoundOK(reply)

\* Before the first page nothing is read.
LEMMA NothingRead ==
  ASSUME WalletsOK
  PROVE  /\ IsFiniteSet(Apps) /\ Cardinality(Apps) \in Nat /\ 0 <= Cardinality(Apps)
         /\ ReadIn(Apps, 0) = {} /\ Cardinality(ReadIn(Apps, 0)) = 0
<1>1. IsFiniteSet(Apps)
  <2>1. IsFiniteSet(1..lastApp) BY FS_Interval DEF WalletsOK
  <2> QED BY <2>1, FS_Subset DEF WalletsOK
<1>2. Cardinality(Apps) \in Nat BY <1>1, FS_CardinalityType
<1>3. \A i \in Apps : ~(RankIn(Apps, i) < 0) BY <1>1, RankType
<1>4. ReadIn(Apps, 0) = {} BY <1>3 DEF ReadIn
<1> QED BY <1>1, <1>2, <1>4, FS_EmptySet

LEMMA AddSearch ==
  ASSUME WalletsOK, Search, NEW a \in Alias, Add(a),
         UNCHANGED <<request, reply, vacant, shifted>>
  PROVE  Search'
<1>1. PICK x, y : x = request /\ y = reply OBVIOUS
<1>2. request' = x /\ reply' = y /\ SearchOK(x) /\ NotFoundOK(y) BY <1>1 DEF Search
<1>3. PICK n \in Nat : n = lastApp /\ Apps \in SUBSET (1..n) BY DEF WalletsOK
<1>4. /\ Apps' = Apps \cup {n + 1} /\ \A i \in Apps : alias'[i] = alias[i]
  BY <1>3 DEF Add, WithApp, Apps
<1>5. ASSUME NEW o \in Nat, o <= Cardinality(Apps)
      PROVE  o <= Cardinality(Apps') /\ ReadIn(Apps', o) = ReadIn(Apps, o)
  BY <1>3, <1>4, <1>5, ReadGrows
<1>6. \A o : ReadIn(Apps, o) \subseteq Apps BY DEF ReadIn
<1>7. SearchOK(x)' BY <1>2, <1>4, <1>5, <1>6 DEF SearchOK, WantedBy
<1>8. NotFoundOK(y)' BY <1>2 DEF NotFoundOK
<1> QED BY <1>2, <1>7, <1>8 DEF Search, SearchOK, NotFoundOK, WantedBy

LEMMA DeleteSearch ==
  ASSUME WalletsOK, WalletsOK', Search, NEW i, DeleteApp(i)
  PROVE  Search'
<1>1. PICK x, y : x = request /\ y = reply OBVIOUS
<1>2. /\ request' = x /\ reply' = y /\ SearchOK(x) /\ NotFoundOK(y)
      /\ WantedBy(x) = Wanted
  BY <1>1 DEF Search, DeleteApp, WantedBy, Wanted
<1>3. /\ Apps' = Apps \ {i} /\ \A k \in Apps' : alias'[k] = alias[k]
      /\ vacant' = (vacant \/ \A k \in Apps \ {i} : alias[k] # WantedBy(x))
      /\ shifted' = (shifted \/ x.offset > 0)
  BY <1>1, <1>2 DEF DeleteApp, Apps
<1>4. ASSUME x.offset \in Nat, ~shifted'
      PROVE  /\ x.offset = 0 /\ x.offset <= Cardinality(Apps')
             /\ Cardinality(ReadIn(Apps, x.offset)) = 0
             /\ ReadIn(Apps', x.offset) = {} /\ Cardinality(ReadIn(Apps', x.offset)) = 0
  <2>1. x.offset = 0
    <3>1. ~(x.offset > 0) BY <1>3, <1>4
    <3> QED BY <1>4, <3>1
  <2>2. Cardinality(ReadIn(Apps, 0)) = 0 BY NothingRead
  <2>3. /\ 0 <= Cardinality(Apps') /\ ReadIn(Apps', 0) = {}
        /\ Cardinality(ReadIn(Apps', 0)) = 0
    <3>1. (/\ 0 <= Cardinality(Apps) /\ ReadIn(Apps, 0) = {}
           /\ Cardinality(ReadIn(Apps, 0)) = 0)'
      BY NothingRead, PTL
    <3> QED BY <3>1
  <2> QED BY <2>1, <2>2, <2>3
<1>5. SearchOK(x)' BY <1>2, <1>3, <1>4 DEF SearchOK, WantedBy
<1>6. NotFoundOK(y)' BY <1>2, <1>3 DEF NotFoundOK
<1> QED BY <1>2, <1>5, <1>6 DEF Search, SearchOK, NotFoundOK, WantedBy

\* A step of the request that leaves the wallets and the histories alone.
LEMMA SearchStep ==
  ASSUME NEW x, SearchOK(x), request' = x, NEW y, NotFoundOK(y), reply' = y,
         UNCHANGED <<alias, vacant, shifted>>
  PROVE  Search'
<1>1. Apps' = Apps BY DEF Apps
<1>2. SearchOK(x)' BY <1>1 DEF SearchOK, WantedBy
<1>3. NotFoundOK(y)' BY DEF NotFoundOK
<1> QED BY <1>2, <1>3 DEF Search, SearchOK, NotFoundOK, WantedBy

\* Answers other than 404 for an alias that is one.
LEMMA AnswerSearch ==
  ASSUME NEW status, NEW a, status # 404 \/ a = NoAlias \/ vacant \/ shifted, NEW n,
         request' = Waiting, reply' = Answer(status, a, n),
         UNCHANGED <<alias, vacant, shifted>>
  PROVE  Search'
<1>1. SearchOK(Waiting) BY DEF SearchOK, Waiting, Work
<1>2. NotFoundOK(Answer(status, a, n)) BY DEF NotFoundOK, Answer
<1> QED BY <1>1, <1>2, SearchStep

\* A request that goes on, to a part of it where no list is read.
LEMMA OnSearch ==
  ASSUME Search, NEW x, request' = x, UNCHANGED <<reply, alias, vacant, shifted>>,
         x.pc \notin {"discovery", "lookup"},
         x.pc # "waiting" => request.pc # "waiting" /\ x.spelling = request.spelling
  PROVE  Search'
<1>1. PICK r, y : r = request /\ y = reply OBVIOUS
<1>2. SearchOK(r) /\ NotFoundOK(y) /\ reply' = y BY <1>1 DEF Search
<1>3. SearchOK(x) BY <1>1, <1>2 DEF SearchOK, WantedBy
<1> QED BY <1>2, <1>3, SearchStep

\* A list is read from its beginning.
LEMMA FromTheStart ==
  ASSUME WalletsOK, NEW r, SearchOK(r), r.pc # "waiting", NEW x,
         x.spelling = r.spelling, x.offset = 0, x.count = 0
  PROVE  SearchOK(x)
BY NothingRead DEF SearchOK, WantedBy

LEMMA ReceiveSearch ==
  ASSUME Search, NEW c, NEW kind, NEW s \in Spelling, NEW amt, Receive(c, kind, s, amt)
  PROVE  Search'
<1>1. CASE UNCHANGED request /\ UNCHANGED seenVars /\ reply' = Answer(429, NoAlias, None)
  <2>1. request' = Waiting BY <1>1 DEF Receive
  <2> QED BY <1>1, <2>1, AnswerSearch DEF Receive, seenVars, walletVars
<1>2. CASE /\ reply' = Answer(0, NoAlias, None)
           /\ request' = Work("alias", kind, s, amt)
           /\ held' = {i \in Apps : alias[i] = AliasOf[s]}
           /\ vacant' = (held' = {})
  <2>1. PICK x : x = Work("alias", kind, s, amt) OBVIOUS
  <2>2. x.pc = "alias" /\ WantedBy(x) = AliasOf[s]
    BY <2>1, WorkFields DEF WantedBy
  <2>3. Apps' = Apps /\ alias' = alias BY DEF Receive, walletVars, Apps
  <2>4. SearchOK(x)' BY <1>2, <2>2, <2>3 DEF SearchOK, WantedBy
  <2>5. NotFoundOK(reply)' BY <1>2 DEF NotFoundOK, Answer
  <2> QED BY <1>2, <2>1, <2>4, <2>5 DEF Search, SearchOK, WantedBy
<1> QED BY <1>1, <1>2 DEF Receive

LEMMA CheckAliasSearch == ASSUME Fulfilment, Search, CheckAlias PROVE Search'
<1>1. CASE Respond(429) \/ Respond(400)
  BY <1>1, AnswerSearch DEF Respond, walletVars, seenVars
<1>2. CASE Goto("discovery")
  <2>1. PICK r, y : r = request /\ y = reply OBVIOUS
  <2>2. PICK x : x = [r EXCEPT !.pc = "discovery", !.offset = 0, !.count = 0] OBVIOUS
  <2>3. IsWork(r) /\ r.pc = "alias" /\ SearchOK(r) /\ NotFoundOK(y) /\ WalletsOK
    BY <2>1 DEF Search, Fulfilment, RequestOK, CheckAlias
  <2>4. x.spelling = r.spelling /\ x.offset = 0 /\ x.count = 0
    BY <2>2, <2>3 DEF IsWork
  <2>5. SearchOK(x) BY <2>3, <2>4, FromTheStart
  <2> QED BY <1>2, <2>1, <2>2, <2>3, <2>5, SearchStep DEF Goto, walletVars, seenVars
<1> QED BY <1>1, <1>2 DEF CheckAlias

\* A list without the alias was read to its end with nobody moving up: then at
\* some moment nobody had it.
LEMMA ReadPageSearch == ASSUME Fulfilment, Search, ReadPage PROVE Search'
<1>1. PICK r, y : r = request /\ y = reply OBVIOUS
<1>2. /\ IsWork(r) /\ SearchOK(r) /\ NotFoundOK(y) /\ WantedBy(r) = Wanted /\ WalletsOK
      /\ r.pc \in {"discovery", "lookup"}
  BY <1>1 DEF Fulfilment, RequestOK, Search, WantedBy, Wanted, ReadPage, Reading
<1>3. PICK page : page = Page(r.offset) OBVIOUS
<1>4. PICK count : count = r.count + Cardinality(page) OBVIOUS
<1>5. PICK i : /\ Match(i, page)
               /\ \/ count >= Cardinality(Apps) /\ LookedUp(i)
                  \/ /\ ~(count >= Cardinality(Apps))
                     /\ request' = [r EXCEPT !.offset = @ + PageSize, !.count = count,
                                             !.app = i]
                     /\ UNCHANGED <<walletVars, ledgerVars, seenVars, domain, reply>>
  BY <1>1, <1>3, <1>4 DEF ReadPage
<1>6. ASSUME i = None, ~shifted
      PROVE  /\ r.offset + PageSize \in Nat /\ count \in Nat /\ Cardinality(Apps) \in Nat
             /\ count = Cardinality(ReadIn(Apps, r.offset + PageSize))
             /\ count < Cardinality(Apps) => r.offset + PageSize <= Cardinality(Apps)
             /\ count >= Cardinality(Apps) => ReadIn(Apps, r.offset + PageSize) = Apps
             /\ \A k \in ReadIn(Apps, r.offset + PageSize) : alias[k] # WantedBy(r)
  <2>1. page \subseteq Apps /\ None \notin page
    BY <1>2, <1>3 DEF Page, WalletsOK, None
  <2>2. r.app = None /\ \A k \in page : alias[k] # WantedBy(r)
    BY <1>1, <1>2, <1>5, <1>6, <2>1 DEF Match
  <2>3. /\ r.offset \in Nat /\ r.count = Cardinality(ReadIn(Apps, r.offset))
        /\ \A k \in ReadIn(Apps, r.offset) : alias[k] # WantedBy(r)
    BY <1>2, <1>6, <2>2 DEF SearchOK
  <2>4. PICK p \in Nat : p = PageSize BY LnurlAssumption
  <2>5. IsFiniteSet(Apps) /\ Cardinality(Apps) \in Nat BY <1>2, NothingRead
  <2>6. page = {k \in Apps : RankIn(Apps, k) \in r.offset..(r.offset + p - 1)}
    BY <1>3, <2>4 DEF Page, RankIn
  <2>7. /\ ReadIn(Apps, r.offset + p) = ReadIn(Apps, r.offset) \cup page
        /\ count = Cardinality(ReadIn(Apps, r.offset + p))
        /\ Cardinality(ReadIn(Apps, r.offset + p)) < Cardinality(Apps) =>
             r.offset + p <= Cardinality(Apps)
        /\ Cardinality(ReadIn(Apps, r.offset + p)) >= Cardinality(Apps) =>
             ReadIn(Apps, r.offset + p) = Apps
    BY <1>4, <2>3, <2>5, <2>6, ReadMore
  <2>8. count \in Nat
    <3>1. ReadIn(Apps, r.offset + p) \subseteq Apps BY DEF ReadIn
    <3> QED BY <2>5, <2>7, <3>1, FS_Subset, FS_CardinalityType
  <2> QED BY <2>2, <2>3, <2>4, <2>5, <2>7, <2>8
<1>7. CASE /\ ~(count >= Cardinality(Apps))
           /\ request' = [r EXCEPT !.offset = @ + PageSize, !.count = count, !.app = i]
           /\ UNCHANGED <<walletVars, ledgerVars, seenVars, domain, reply>>
  <2>1. PICK x : x = [r EXCEPT !.offset = @ + PageSize, !.count = count, !.app = i]
    OBVIOUS
  <2>2. /\ x.pc = r.pc /\ x.spelling = r.spelling /\ x.app = i /\ x.count = count
        /\ x.offset = r.offset + PageSize
    BY <1>2, <2>1 DEF IsWork
  <2>3. SearchOK(x)
    <3>1. \/ i # None \/ shifted
          \/ count < Cardinality(Apps) BY <1>6, <1>7
    <3> QED BY <1>2, <1>6, <2>2, <3>1 DEF SearchOK, WantedBy
  <2> QED BY <1>1, <1>2, <1>7, <2>1, <2>3, SearchStep DEF walletVars, seenVars
<1>8. CASE count >= Cardinality(Apps) /\ LookedUp(i)
  <2>1. CASE i = None
    <3>1. vacant \/ shifted
      <4> SUFFICES ASSUME ~vacant, ~shifted PROVE FALSE OBVIOUS
      <4>1. PICK k \in Apps : alias[k] = WantedBy(r) BY <1>2 DEF SearchOK
      <4>2. k \in ReadIn(Apps, r.offset + PageSize) BY <1>6, <1>8, <2>1
      <4> QED BY <1>6, <2>1, <4>1, <4>2
    <3> QED BY <1>8, <2>1, <3>1, AnswerSearch DEF LookedUp, Respond, walletVars, seenVars
  <2>2. CASE Respond(200) \/ Respond(400)
    BY <2>2, AnswerSearch DEF Respond, walletVars, seenVars
  <2>3. CASE /\ request' = [request EXCEPT !.pc = "check", !.app = i]
             /\ UNCHANGED <<walletVars, ledgerVars, seenVars, domain, reply>>
    <3>1. PICK x : x = [r EXCEPT !.pc = "check", !.app = i] OBVIOUS
    <3>2. x.pc = "check" /\ x.spelling = r.spelling BY <1>2, <3>1 DEF IsWork
    <3> QED BY <1>1, <1>2, <2>3, <3>1, <3>2, OnSearch DEF walletVars, seenVars
  <2>4. CASE /\ request' = Work("lookup", request.kind, request.spelling, request.amount)
             /\ UNCHANGED <<walletVars, ledgerVars, seenVars, domain, reply>>
    <3>1. PICK x : x = Work("lookup", r.kind, r.spelling, r.amount) OBVIOUS
    <3>2. x.spelling = r.spelling /\ x.offset = 0 /\ x.count = 0
      BY <3>1 DEF Work
    <3>3. SearchOK(x) BY <1>2, <3>2, FromTheStart
    <3> QED BY <1>1, <1>2, <2>4, <3>1, <3>3, SearchStep DEF walletVars, seenVars
  <2>5. request.pc \in {"discovery", "lookup"} BY <1>1, <1>2
  <2>6. ASSUME i # None
        PROVE  \/ Respond(200) \/ Respond(400)
               \/ /\ request' = [request EXCEPT !.pc = "check", !.app = i]
                  /\ UNCHANGED <<walletVars, ledgerVars, seenVars, domain, reply>>
               \/ /\ request' = Work("lookup", request.kind, request.spelling,
                                     request.amount)
                  /\ UNCHANGED <<walletVars, ledgerVars, seenVars, domain, reply>>
    BY <1>8, <2>5, <2>6 DEF LookedUp
  <2> QED BY <2>1, <2>2, <2>3, <2>4, <2>6
<1> QED BY <1>5, <1>7, <1>8

\* The invoice: no list is read any more.
LEMMA InvoiceSearch ==
  ASSUME Fulfilment, Search, CheckApp \/ MakeInvoice \/ Record \/ Deliver
  PROVE  Search'
<1>1. PICK r : r = request OBVIOUS
<1>2. IsWork(r) BY <1>1 DEF Fulfilment, RequestOK
<1>3. ASSUME r.pc # "waiting", UNCHANGED <<walletVars, seenVars, reply>>,
             NEW pc, pc \notin {"discovery", "lookup"}, NEW n,
             \/ request' = [r EXCEPT !.pc = pc]
             \/ request' = [r EXCEPT !.pc = pc, !.invoice = n]
      PROVE  Search'
  <2>1. PICK x : x = request' OBVIOUS
  <2>2. x.pc = pc /\ x.spelling = r.spelling BY <1>2, <1>3, <2>1 DEF IsWork
  <2> QED BY <1>1, <1>3, <2>1, <2>2, OnSearch DEF walletVars, seenVars
<1>4. CASE CheckApp BY <1>1, <1>3, <1>4 DEF CheckApp, Step
<1>5. CASE MakeInvoice BY <1>1, <1>3, <1>5 DEF MakeInvoice
<1>6. CASE Record
  <2>1. CASE Respond(502) BY <2>1, AnswerSearch DEF Respond, walletVars, seenVars
  <2>2. CASE Step("issued") /\ UNCHANGED seenVars
    BY <1>1, <1>3, <1>6, <2>2 DEF Record, Step
  <2> QED BY <1>6, <2>1, <2>2 DEF Record
<1>7. CASE Deliver
  BY <1>7, AnswerSearch DEF Deliver, walletVars, seenVars
<1> QED BY <1>4, <1>5, <1>6, <1>7

LEMMA SearchInductive == Fulfilment /\ Fulfilment' /\ Search /\ [Next]_vars => Search'
<1> SUFFICES ASSUME Fulfilment, Fulfilment', Search, [Next]_vars PROVE Search' OBVIOUS
<1>0. WalletsOK /\ WalletsOK' /\ rotating \in Alias \cup {NoAlias}
  BY DEF Fulfilment, WalletsOK
<1>1. ASSUME NEW c, NEW kind, NEW s \in Spelling, NEW amt, Receive(c, kind, s, amt)
      PROVE  Search'
  BY <1>1, ReceiveSearch
<1>2. ASSUME NEW a \in Alias, CreateWallet(a) PROVE Search'
  BY <1>0, <1>2, AddSearch DEF CreateWallet
<1>3. ASSUME NEW i \in Apps, DeleteWallet(i) \/ RotateDeletes(i) PROVE Search'
  BY <1>0, <1>3, DeleteSearch DEF DeleteWallet, RotateDeletes
<1>4. CASE RotateCreates
  <2>1. PICK a \in Alias : a = rotating BY <1>0, <1>4 DEF RotateCreates
  <2> QED BY <1>0, <1>4, <2>1, AddSearch DEF RotateCreates
<1>5. CASE Serve
  <2>1. CASE NotFound
    BY <2>1, AnswerSearch DEF NotFound, walletVars, seenVars
  <2>2. CASE Reject
    BY <2>2, AnswerSearch DEF Reject, Respond, walletVars, seenVars
  <2> QED BY <1>5, <2>1, <2>2, CheckAliasSearch, ReadPageSearch, InvoiceSearch DEF Serve
<1>6. CASE Failure
  BY <1>6, AnswerSearch DEF Failure, ListFails, InvoiceFails, Respond, walletVars, seenVars
<1>7. CASE Tick \/ UNCHANGED vars
  <2>1. PICK x, y : x = request /\ y = reply OBVIOUS
  <2>2. SearchOK(x) /\ NotFoundOK(y) /\ request' = x /\ reply' = y
        /\ UNCHANGED <<alias, vacant, shifted>>
    BY <1>7, <2>1 DEF Search, Tick, vars, walletVars, seenVars
  <2> QED BY <2>2, SearchStep
<1> QED BY <1>1, <1>2, <1>3, <1>4, <1>5, <1>6, <1>7 DEF Next, Requests, Wallets

\* However the list grows and shrinks while it is read, and however long it and
\* its pages are, an alias that a wallet has all along is found, unless a wallet
\* was deleted between two pages.
THEOREM UnknownIsVacant == Spec => []UnknownIsUnknown
<1>1. Init => Search
  BY DEF Init, Search, SearchOK, NotFoundOK, Waiting, Work, Answer
<1>2. Search => UnknownIsUnknown BY DEF Search, NotFoundOK, UnknownIsUnknown
<1> QED BY <1>1, <1>2, FulfilmentHolds, SearchInductive, PTL DEF Spec

-----------------------------------------------------------------------------
(* The rate limiters.                                                      *)

\* What holds of one window at time t, whose bucket is B after the requests A
\* passed it: the bucket is the end of A, what was removed is too old to count,
\* and a request passes only when the one max before it is too old.
WindowOK(A, B, t, max) ==
  /\ A \in Seq(Nat) /\ B \in Seq(Nat) /\ Len(B) <= Len(A)
  /\ \A i \in 1..Len(B) : B[i] = A[Len(A) - Len(B) + i]
  /\ \A i \in 1..Len(A) : A[i] <= t
  /\ \A i, j \in 1..Len(A) : i <= j => A[i] <= A[j]
  /\ \A i \in 1..Len(A) : i <= Len(A) - Len(B) => A[i] + Window < t
  /\ \A i \in 1..Len(A) : i > max => A[i - max] + Window < A[i]

Windows ==
  /\ now \in Nat
  /\ bucket = [k \in Key |-> bucket[k]] /\ admitted = [k \in Key |-> admitted[k]]
  /\ \A k \in Key : WindowOK(admitted[k], bucket[k], now, Limit(k))

\* A non-empty set of numbers has a least one.
LEMMA Least ==
  ASSUME NEW S \in SUBSET Nat, S # {}
  PROVE  \E m \in S : \A i \in S : m <= i
<1>1. PICK m \in S : \A i \in S : <<i, m>> \notin OpToRel(<, Nat)
  BY WFMin, NatLessThanWellFounded
<1>2. ASSUME NEW i \in S PROVE m <= i
  <2>1. ~(i < m) BY <1>1 DEF OpToRel
  <2> QED BY <2>1
<1> QED BY <1>2

\* Pruning removes what is too old and nothing behind an entry that is not.
LEMMA PrunedSuffix ==
  ASSUME NEW B \in Seq(Nat), now \in Nat, NEW P, P = Pruned(B)
  PROVE  /\ P \in Seq(Nat) /\ Len(P) <= Len(B)
         /\ \A i \in 1..Len(P) : P[i] = B[Len(B) - Len(P) + i]
         /\ \A i \in 1..Len(B) : i <= Len(B) - Len(P) => B[i] + Window < now
<1>1. PICK S : S = {j \in DOMAIN B : B[j] + Window >= now} OBVIOUS
<1>2. PICK b \in Nat : b = Len(B) OBVIOUS
<1>3. Window \in Nat /\ \A i \in 1..b : B[i] \in Nat BY <1>2, LnurlAssumption
<1>4. CASE S = {}
  <2>1. P = <<>> BY <1>1, <1>4 DEF Pruned, From
  <2>2. \A i \in 1..b : B[i] + Window < now BY <1>1, <1>2, <1>3, <1>4
  <2> QED BY <1>2, <2>1, <2>2
<1>5. CASE S # {}
  <2>1. S \in SUBSET Nat BY <1>1, <1>2
  <2>2. PICK n : n = CHOOSE j \in S : \A i \in S : j <= i OBVIOUS
  <2>3. n \in S /\ \A i \in S : n <= i BY <1>5, <2>1, <2>2, Least
  <2>4. P = SubSeq(B, n, b) BY <1>1, <1>2, <1>5, <2>2 DEF Pruned, From
  <2>5. n \in 1..b BY <1>1, <1>2, <2>3
  <2>6. P \in Seq(Nat) /\ Len(P) = b - n + 1 BY <1>2, <2>4, <2>5
  <2>7. \A i \in 1..(b - n + 1) : P[i] = B[n + i - 1] BY <1>2, <2>4, <2>5
  <2>8. ASSUME NEW i \in 1..b, i < n PROVE B[i] + Window < now
    <3>1. i \notin S BY <2>3, <2>5, <2>8
    <3> QED BY <1>1, <1>2, <1>3, <3>1
  <2>9. \A i \in 1..Len(P) : P[i] = B[b - Len(P) + i]
    <3> SUFFICES ASSUME NEW i \in 1..(b - n + 1) PROVE P[i] = B[b - (b - n + 1) + i]
      BY <2>6
    <3>1. b - (b - n + 1) + i = n + i - 1 BY <2>5
    <3> QED BY <2>7, <3>1
  <2> QED BY <1>2, <2>5, <2>6, <2>8, <2>9
<1> QED BY <1>4, <1>5

LEMMA PrunedOK ==
  ASSUME NEW A, NEW B, NEW max \in Nat, now \in Nat, WindowOK(A, B, now, max)
  PROVE  WindowOK(A, Pruned(B), now, max)
<1>1. A \in Seq(Nat) /\ B \in Seq(Nat) BY DEF WindowOK
<1>2. PICK P : P = Pruned(B) OBVIOUS
<1>3. PICK a \in Nat, b \in Nat, p \in Nat : a = Len(A) /\ b = Len(B) /\ p = Len(P)
  BY <1>1, <1>2, PrunedSuffix
<1>4. /\ P \in Seq(Nat) /\ p <= b
      /\ \A i \in 1..p : P[i] = B[b - p + i]
      /\ \A i \in 1..b : i <= b - p => B[i] + Window < now
  BY <1>1, <1>2, <1>3, PrunedSuffix
<1>5. /\ b <= a /\ \A i \in 1..b : B[i] = A[a - b + i]
      /\ \A i \in 1..a : i <= a - b => A[i] + Window < now
  BY <1>3 DEF WindowOK
<1>6. \A i \in 1..p : P[i] = A[a - p + i]
  <2> SUFFICES ASSUME NEW i \in 1..p PROVE P[i] = A[a - p + i] OBVIOUS
  <2>1. b - p + i \in 1..b /\ a - b + (b - p + i) = a - p + i BY <1>4
  <2> QED BY <1>4, <1>5, <2>1
<1>7. \A i \in 1..a : i <= a - p => A[i] + Window < now
  <2> SUFFICES ASSUME NEW i \in 1..a, i > a - b, i <= a - p PROVE A[i] + Window < now
    BY <1>5
  <2>1. i - (a - b) \in 1..b /\ i - (a - b) <= b - p /\ a - b + (i - (a - b)) = i
    BY <1>5
  <2>2. B[i - (a - b)] = A[i] BY <1>5, <2>1
  <2> QED BY <1>4, <2>1, <2>2
<1>8. WindowOK(A, P, now, max)
  BY <1>3, <1>4, <1>5, <1>6, <1>7 DEF WindowOK
<1> QED BY <1>2, <1>8

\* With room in a pruned bucket, the request max before this one is too old.
LEMMA AdmitOK ==
  ASSUME NEW A, NEW B, NEW t \in Nat, NEW max \in Nat, WindowOK(A, B, t, max), Len(B) < max
  PROVE  WindowOK(Append(A, t), Append(B, t), t, max)
<1>0. /\ A \in Seq(Nat) /\ B \in Seq(Nat) /\ Len(A) \in Nat /\ Len(B) \in Nat
      /\ Len(B) <= Len(A) /\ \A i \in 1..Len(A) : A[i] \in Nat /\ A[i] <= t
  BY DEF WindowOK
<1>w. Window \in Nat BY LnurlAssumption
<1>1. PICK a \in Nat : a = Len(A) BY <1>0
<1>2. PICK b \in Nat : b = Len(B) BY <1>0
<1>3. PICK C : C = Append(A, t) OBVIOUS
<1>4. PICK D : D = Append(B, t) OBVIOUS
<1>5. /\ C \in Seq(Nat) /\ Len(C) = a + 1 /\ C[a + 1] = t
      /\ \A i \in 1..a : C[i] = A[i] BY <1>0, <1>1, <1>3
<1>6. /\ D \in Seq(Nat) /\ Len(D) = b + 1 /\ D[b + 1] = t
      /\ \A i \in 1..b : D[i] = B[i] BY <1>0, <1>2, <1>4
<1>7. \A i \in 1..a + 1 : i \in 1..a \/ i = a + 1 BY <1>1
<1>8. \A i \in 1..b + 1 : D[i] = C[(a + 1) - (b + 1) + i]
  <2>1. \A i \in 1..b : B[i] = A[a - b + i] BY <1>1, <1>2 DEF WindowOK
  <2> SUFFICES ASSUME NEW i \in 1..b + 1 PROVE D[i] = C[(a + 1) - (b + 1) + i] OBVIOUS
  <2>2. (a + 1) - (b + 1) + i = a - b + i OBVIOUS
  <2>3. CASE i \in 1..b
    <3>1. a - b + i \in 1..a BY <1>0, <1>1, <1>2, <2>3
    <3> QED BY <1>5, <1>6, <2>1, <2>2, <2>3, <3>1
  <2>4. CASE i = b + 1
    <3>1. a - b + i = a + 1 BY <2>4
    <3> QED BY <1>5, <1>6, <2>2, <2>4, <3>1
  <2> QED BY <2>3, <2>4
<1>9. \A i \in 1..a + 1 : C[i] <= t
  <2>1. \A i \in 1..a : C[i] \in Nat /\ C[i] <= t BY <1>0, <1>1, <1>5
  <2> QED BY <1>5, <1>7, <2>1
<1>10. \A i, j \in 1..a + 1 : i <= j => C[i] <= C[j]
  <2>1. \A i, j \in 1..a : i <= j => A[i] <= A[j] BY <1>1 DEF WindowOK
  <2> SUFFICES ASSUME NEW i \in 1..a + 1, NEW j \in 1..a + 1, i <= j PROVE C[i] <= C[j]
    OBVIOUS
  <2>2. CASE j \in 1..a BY <1>5, <2>1, <2>2
  <2>3. CASE j = a + 1 BY <1>5, <1>9, <2>3
  <2> QED BY <1>7, <2>2, <2>3
<1>11. \A i \in 1..a : i <= a - b => A[i] + Window < t BY <1>1, <1>2 DEF WindowOK
<1>12. \A i \in 1..a + 1 : i <= (a + 1) - (b + 1) => C[i] + Window < t
  BY <1>5, <1>7, <1>11
<1>13. \A i \in 1..a + 1 : i > max => C[i - max] + Window < C[i]
  <2>1. \A i \in 1..a : i > max => A[i - max] + Window < A[i] BY <1>1 DEF WindowOK
  <2> SUFFICES ASSUME NEW i \in 1..a + 1, i > max PROVE C[i - max] + Window < C[i] OBVIOUS
  <2>2. CASE i \in 1..a
    <3>1. i - max \in 1..a BY <2>2
    <3> QED BY <1>5, <2>1, <2>2, <3>1
  <2>3. CASE i = a + 1
    <3>1. i - max \in 1..a /\ i - max <= a - b BY <1>2, <2>3
    <3>2. A[i - max] + Window < t BY <1>11, <3>1
    <3> QED BY <1>5, <2>3, <3>1, <3>2
  <2> QED BY <1>7, <2>2, <2>3
<1>14. b + 1 <= a + 1 BY <1>0, <1>1, <1>2
<1>15. WindowOK(C, D, t, max)
  BY <1>5, <1>6, <1>8, <1>9, <1>10, <1>12, <1>13, <1>14 DEF WindowOK
<1> QED BY <1>3, <1>4, <1>15

\* A window holds at most max of the requests that passed it.
LEMMA WindowLimited ==
  ASSUME NEW A, NEW B, NEW end \in Nat, NEW max \in Nat, WindowOK(A, B, end, max),
         NEW t \in Nat
  PROVE  Cardinality({i \in DOMAIN A : A[i] <= t /\ A[i] + Window >= t}) <= max
<1>1. PICK W : W = {i \in DOMAIN A : A[i] <= t /\ A[i] + Window >= t} OBVIOUS
<1>0. /\ A \in Seq(Nat) /\ DOMAIN A = 1..Len(A) /\ Len(A) \in Nat
      /\ \A i \in 1..Len(A) : A[i] \in Nat
      /\ \A i, j \in 1..Len(A) : i <= j => A[i] <= A[j]
      /\ \A i \in 1..Len(A) : i > max => A[i - max] + Window < A[i]
  BY DEF WindowOK
<1>2. W \in SUBSET Nat BY <1>0, <1>1
<1>3. CASE W = {} BY <1>1, <1>3, FS_EmptySet
<1>4. CASE W # {}
  <2>1. PICK lo \in W : \A j \in W : lo <= j BY <1>2, <1>4, Least
  <2>2. ASSUME NEW j \in W PROVE j \in lo..(lo + max - 1)
    <3>1. /\ lo \in 1..Len(A) /\ j \in 1..Len(A) /\ lo <= j
          /\ A[lo] \in Nat /\ A[j] \in Nat /\ A[j] <= t /\ A[lo] + Window >= t
      BY <1>0, <1>1, <2>1, <2>2
    <3>2. CASE j - max >= lo
      <4>1. PICK m \in 1..Len(A) : m = j - max /\ lo <= m BY <3>1, <3>2
      <4>2. A[m] + Window < A[j] /\ A[lo] <= A[m] /\ A[m] \in Nat
        BY <1>0, <3>1, <4>1
      <4>3. Window \in Nat BY LnurlAssumption
      <4> QED BY <3>1, <4>2, <4>3
    <3>3. CASE j - max < lo BY <3>1, <3>3
    <3> QED BY <3>1, <3>2, <3>3
  <2>3. lo \in Nat BY <1>2, <2>1
  <2>4. IsFiniteSet(lo..(lo + max - 1))
        /\ Cardinality(lo..(lo + max - 1)) = IF lo > lo + max - 1 THEN 0 ELSE max
    BY <2>3, FS_Interval
  <2>5. W \subseteq lo..(lo + max - 1) BY <2>2
  <2>6. IsFiniteSet(W) /\ Cardinality(W) <= Cardinality(lo..(lo + max - 1))
    BY <2>4, <2>5, FS_Subset
  <2>7. Cardinality(W) \in Nat BY <2>6, FS_CardinalityType
  <2> QED BY <1>1, <2>3, <2>4, <2>6, <2>7
<1> QED BY <1>3, <1>4

LEMMA KeyLimits ==
  /\ \A k \in Key : Limit(k) \in Nat
  /\ \A c \in Client : c \in Key /\ Limit(c) = MaxRequests
  /\ \A s \in Spelling : s \in Key /\ Limit(s) = MaxPerAlias
BY LnurlAssumption DEF Key, Limit, Spelling

\* The limiters keep each window as it should be.
LEMMA AdmitStep ==
  ASSUME Windows, NEW k \in Key, Admit(k, Limit(k)) \/ Refuse(k, Limit(k))
  PROVE  Windows'
<1>1. PICK P : P = Pruned(bucket[k]) OBVIOUS
<1>2. WindowOK(admitted[k], P, now, Limit(k)) /\ Limit(k) \in Nat /\ now \in Nat
  BY <1>1, KeyLimits, PrunedOK DEF Windows
<1>3. ASSUME NEW A, NEW B, WindowOK(A, B, now, Limit(k)), now' = now,
             bucket' = [bucket EXCEPT ![k] = B], admitted' = [admitted EXCEPT ![k] = A]
      PROVE  Windows'
  <2>1. /\ bucket' = [j \in Key |-> bucket'[j]] /\ admitted' = [j \in Key |-> admitted'[j]]
        /\ bucket'[k] = B /\ admitted'[k] = A
        /\ \A j \in Key \ {k} : bucket'[j] = bucket[j] /\ admitted'[j] = admitted[j]
    BY <1>3 DEF Windows
  <2>2. \A j \in Key : WindowOK(admitted'[j], bucket'[j], now, Limit(j))
    BY <1>3, <2>1 DEF Windows
  <2> QED BY <1>2, <1>3, <2>1, <2>2 DEF Windows
<1>4. CASE Admit(k, Limit(k))
  <2>1. WindowOK(Append(admitted[k], now), Append(P, now), now, Limit(k))
    BY <1>1, <1>2, <1>4, AdmitOK DEF Admit
  <2> QED BY <1>1, <1>3, <1>4, <2>1 DEF Admit, Windows
<1>5. CASE Refuse(k, Limit(k))
  <2>1. /\ bucket' = [bucket EXCEPT ![k] = P] /\ now' = now
        /\ admitted' = [admitted EXCEPT ![k] = admitted[k]]
    BY <1>1, <1>5 DEF Refuse, Windows
  <2> QED BY <1>2, <1>3, <2>1
<1> QED BY <1>4, <1>5

LEMMA TickStep == ASSUME Windows, Tick PROVE Windows'
<1>1. ASSUME NEW k \in Key PROVE WindowOK(admitted[k], bucket[k], now + 1, Limit(k))
  <2>1. PICK A, B, t : A = admitted[k] /\ B = bucket[k] /\ t = now OBVIOUS
  <2>2. WindowOK(A, B, t, Limit(k)) /\ t \in Nat BY <2>1 DEF Windows
  <2>3. \A i \in 1..Len(A) : A[i] \in Nat BY <2>2 DEF WindowOK
  <2>w. Window \in Nat BY LnurlAssumption
  <2>4. /\ \A i \in 1..Len(A) : A[i] <= t + 1
        /\ \A i \in 1..Len(A) : i <= Len(A) - Len(B) => A[i] + Window < t + 1
    <3>1. /\ \A i \in 1..Len(A) : A[i] <= t
          /\ \A i \in 1..Len(A) : i <= Len(A) - Len(B) => A[i] + Window < t
      BY <2>2 DEF WindowOK
    <3> QED BY <2>2, <2>3, <2>w, <3>1
  <2>5. WindowOK(A, B, t + 1, Limit(k)) BY <2>2, <2>4 DEF WindowOK
  <2> QED BY <2>1, <2>5
<1> QED BY <1>1 DEF Tick, Windows

LEMMA WindowsStep == Fulfilment /\ Windows /\ [Next]_vars => Windows'
<1> SUFFICES ASSUME Fulfilment, Windows, [Next]_vars PROVE Windows' OBVIOUS
<1>1. CASE UNCHANGED clockVars BY <1>1 DEF clockVars, Windows
<1>2. ASSUME NEW c \in Client, NEW kind, NEW s, NEW amt, Receive(c, kind, s, amt)
      PROVE  Windows'
  BY <1>2, KeyLimits, AdmitStep DEF Receive
<1>3. CASE CheckAlias
  <2>1. request.spelling \in Spelling
    BY <1>3 DEF CheckAlias, Fulfilment, RequestOK
  <2> QED BY <1>3, <2>1, KeyLimits, AdmitStep DEF CheckAlias
<1>4. CASE Tick BY <1>4, TickStep
<1>5. CASE Wallets
  BY <1>1, <1>5 DEF Wallets, CreateWallet, DeleteWallet, RotateDeletes, RotateCreates,
                   DeleteApp
<1>6. CASE Serve /\ ~CheckAlias
  BY <1>1, <1>6 DEF Serve, NotFound, Reject, ReadPage, CheckApp, MakeInvoice, Record, Deliver
<1>7. CASE Failure BY <1>1, <1>7 DEF Failure, ListFails, InvoiceFails
<1>8. CASE UNCHANGED vars BY <1>1, <1>8 DEF vars
<1> QED BY <1>2, <1>3, <1>4, <1>5, <1>6, <1>7, <1>8 DEF Next, Requests

\* Whatever the windows and limits are, no window of time ever holds more
\* requests of a client, or for a spelling, than its limit.
THEOREM WindowsAreLimited == Spec => []WindowsWithinLimit
<1>1. Init => Windows
  <2> SUFFICES ASSUME Init PROVE Windows OBVIOUS
  <2>1. ASSUME NEW k \in Key PROVE WindowOK(admitted[k], bucket[k], now, Limit(k))
    BY DEF Init, WindowOK
  <2> QED BY <2>1 DEF Init, Windows
<1>2. Windows => WindowsWithinLimit
  <2> SUFFICES ASSUME Windows, NEW t \in 0..now, NEW k \in Key
               PROVE  Cardinality(Passed(k, t)) <= Limit(k)
    BY DEF WindowsWithinLimit
  <2>1. /\ WindowOK(admitted[k], bucket[k], now, Limit(k)) /\ now \in Nat /\ t \in Nat
        /\ Limit(k) \in Nat
    BY KeyLimits DEF Windows
  <2> QED BY <2>1, WindowLimited DEF Passed
<1> QED BY <1>1, <1>2, FulfilmentHolds, WindowsStep, PTL DEF Spec
=============================================================================

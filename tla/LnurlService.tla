---------------------------- MODULE LnurlService ----------------------------
(***************************************************************************)
(* The LNURL service: do_GET of nwc_lnurl_service.py from the two rate     *)
(* limiters to the answer.  A request for an alias reads the daemon's list *)
(* of wallets page by page (AlbyHubManager._paginate), one for an invoice  *)
(* reads it once more and then sends POST /api/invoices, which looks the   *)
(* wallet up, asks LND for an invoice and records it.  Between any two of  *)
(* these steps wallets are created, rotated (deleted and created again)    *)
(* and deleted by nwc-wallet, and the clock advances.                      *)
(*                                                                         *)
(* Any request to the daemon may fail: its AlbyHubError is answered with   *)
(* 502 or 503 (why one fails is in HubSession).  The server (HTTPServer)   *)
(* handles one request at a time.  Aliases of wallets do not change.       *)
(***************************************************************************)
EXTENDS Naturals, FiniteSets, Sequences

CONSTANTS Alias,        \* valid aliases
          NoAlias,      \* what NWC_ALIAS_RE rejects
          AliasOf,      \* the alias part of a URL -> the alias, stripped and
                        \* in lower case, or NoAlias
          Client,       \* client addresses
          Window, MaxRequests, MaxPerAlias,  \* RATE_LIMIT_...
          PageSize,     \* page_size (100 in the code)
          Amount,       \* amounts (msat) payers ask for
          MinSendable, MaxSendable,  \* limits in a wallet's metadata (msat)
          Sat,          \* msat per satoshi (1000 in the code)
          MaxApp,       \* bound on the AUTOINCREMENT id of sovran_apps
          MaxInvoice,   \* bound on invoices of LND
          MaxTime       \* bound on the clock

\* Clients and spellings have windows of their own.
ASSUME LnurlAssumption == /\ NoAlias \notin Alias
                          /\ Client \cap DOMAIN AliasOf = {}
                          /\ \A s \in DOMAIN AliasOf : AliasOf[s] \in Alias \cup {NoAlias}
                          /\ {Window, MaxRequests, MaxPerAlias} \subseteq Nat
                          /\ PageSize \in Nat \ {0} /\ Sat \in Nat \ {0}
                          /\ Amount \cup {MinSendable, MaxSendable} \subseteq Nat
                          /\ {MaxApp, MaxInvoice, MaxTime} \subseteq Nat

VARIABLES
  alias,     \* sovran_apps: id -> lnurl_alias
  lastApp,   \* the last id used
  rotating,  \* alias of a wallet that rotate has deleted and not yet created
  rows,      \* pending incoming rows: invoice -> id
  invoices,  \* invoices of LND: number -> [app, amount]
  domain,    \* a Lightning Address domain is configured
  now,       \* time.monotonic()
  bucket,    \* _rate_limit_buckets and _rate_limit_alias_buckets
  request,   \* the request in hand, see Work
  reply,     \* the last answer: [status, alias, invoice]
  admitted,  \* history: when requests passed the window of each key
  held,      \* history: wallets that had the alias since the request began
  vacant,    \* history: there was a moment without one
  shifted,   \* history: a wallet was deleted between two pages
  recorded   \* history: invoices that had a row

walletVars == <<alias, lastApp, rotating>>
ledgerVars == <<rows, invoices, recorded>>
clockVars == <<now, bucket, admitted>>
seenVars == <<held, vacant, shifted>>
vars == <<walletVars, ledgerVars, clockVars, seenVars, domain, request, reply>>

AppId == 1..MaxApp
None == 0
Apps == DOMAIN alias
Spelling == DOMAIN AliasOf
Key == Client \cup Spelling

\* Where do_GET is: what was asked for and how, and how far a list is read
\* (offset, len(results) and the first wallet that matches).
Work(pc, kind, s, amt) ==
  [pc |-> pc, kind |-> kind, spelling |-> s, amount |-> amt,
   offset |-> 0, count |-> 0, app |-> None, invoice |-> None]
Waiting == Work("waiting", "none", NoAlias, 0)
Answer(status, a, inv) == [status |-> status, alias |-> a, invoice |-> inv]
Wanted == IF request.spelling \in Spelling THEN AliasOf[request.spelling] ELSE NoAlias

Init == /\ alias = [i \in {} |-> NoAlias] /\ lastApp = 0 /\ rotating = NoAlias
        /\ rows = [i \in {} |-> None] /\ invoices = [i \in {} |-> None]
        /\ domain \in BOOLEAN
        /\ now = 0 /\ bucket = [k \in Key |-> <<>>]
        /\ request = Waiting
        /\ reply = Answer(0, NoAlias, None)
        /\ admitted = [k \in Key |-> <<>>]
        /\ held = {} /\ vacant = FALSE /\ shifted = FALSE /\ recorded = {}

-----------------------------------------------------------------------------
(* Wallets; create_wallet refuses an alias that is in use, and rotate does  *)
(* not check again before it creates its wallet.                            *)

WithApp(i, a) == [k \in Apps \cup {i} |-> IF k = i THEN a ELSE alias[k]]

\* Mutant: ids of deleted wallets are used again.
AddReusingIds(a) ==
  \E i \in AppId \ Apps :
    /\ lastApp' = IF i > lastApp THEN i ELSE lastApp
    /\ alias' = WithApp(i, a)
    /\ held' = IF Wanted = a THEN held \cup {i} ELSE held

Add(a) ==
  /\ lastApp < MaxApp
  /\ lastApp' = lastApp + 1
  /\ alias' = WithApp(lastApp + 1, a)
  /\ held' = IF Wanted = a THEN held \cup {lastApp + 1} ELSE held

\* DELETE /api/apps takes the wallet's rows with it.
DeleteApp(i) ==
  /\ i \in Apps
  /\ alias' = [k \in Apps \ {i} |-> alias[k]]
  /\ rows' = [n \in {m \in DOMAIN rows : rows[m] # i} |-> rows[n]]
  /\ vacant' = (vacant \/ \A k \in Apps \ {i} : alias[k] # Wanted)
  /\ shifted' = (shifted \/ request.offset > 0)
  /\ UNCHANGED <<lastApp, held, invoices, recorded, clockVars, domain, request, reply>>

CreateWallet(a) ==
  /\ \A i \in Apps : alias[i] # a
  /\ Add(a)
  /\ UNCHANGED <<rotating, vacant, shifted, ledgerVars, clockVars, domain, request, reply>>

DeleteWallet(i) == DeleteApp(i) /\ UNCHANGED rotating

RotateDeletes(i) == /\ rotating = NoAlias
                    /\ DeleteApp(i)
                    /\ rotating' = alias[i]

RotateCreates ==
  /\ rotating # NoAlias
  /\ Add(rotating)
  /\ rotating' = NoAlias
  /\ UNCHANGED <<vacant, shifted, ledgerVars, clockVars, domain, request, reply>>

-----------------------------------------------------------------------------
(* The rate limiters: a sliding window per client and one per alias, as it  *)
(* is spelled in the URL.                                                   *)

Tick == /\ now < MaxTime
        /\ now' = now + 1
        /\ UNCHANGED <<bucket, admitted, domain, request, reply>>
        /\ UNCHANGED <<walletVars, ledgerVars, seenVars>>

\* What is left of the bucket b when everything before the first entry that
\* stays is removed.
From(b, stays) ==
  IF stays = {} THEN <<>>
                ELSE SubSeq(b, CHOOSE j \in stays : \A i \in stays : j <= i, Len(b))

\* Mutant: an entry exactly as old as the window is removed.
PrunedEarly(b) == From(b, {j \in DOMAIN b : b[j] + Window > now})

\* bucket.pop(0) while bucket[0] is older than the window.
Pruned(b) == From(b, {j \in DOMAIN b : b[j] + Window >= now})

\* Room in the window, or 429.
Admit(key, max) == /\ Len(Pruned(bucket[key])) < max
                   /\ bucket' = [bucket EXCEPT ![key] = Append(Pruned(@), now)]
                   /\ admitted' = [admitted EXCEPT ![key] = Append(@, now)]
                   /\ UNCHANGED now
Refuse(key, max) == /\ Len(Pruned(bucket[key])) >= max
                    /\ bucket' = [bucket EXCEPT ![key] = Pruned(@)]
                    /\ UNCHANGED <<now, admitted>>

\* An answer; what the daemon holds does not change.
Respond(status) ==
  /\ reply' = Answer(status, Wanted, None)
  /\ request' = Waiting
  /\ UNCHANGED <<walletVars, ledgerVars, seenVars, domain>>

-----------------------------------------------------------------------------
(* The request: "discovery" or "callback" of an alias, a callback that       *)
(* "repeats" the amount, or some "other" path.                               *)

Receive(c, kind, s, amt) ==
  /\ request = Waiting
  /\ \/ /\ Refuse(c, MaxRequests)
        /\ reply' = Answer(429, NoAlias, None)
        /\ UNCHANGED <<request, seenVars>>
     \/ /\ Admit(c, MaxRequests)
        /\ reply' = Answer(0, NoAlias, None)
        /\ request' = Work("alias", kind, s, amt)
        /\ held' = {i \in Apps : alias[i] = AliasOf[s]}
        /\ vacant' = (held' = {}) /\ shifted' = FALSE
  /\ UNCHANGED <<walletVars, ledgerVars, domain>>

Goto(pc) == /\ request' = [request EXCEPT !.pc = pc, !.offset = 0, !.count = 0]
            /\ UNCHANGED <<walletVars, seenVars, domain, reply>>

NotFound == /\ request.pc = "alias" /\ request.kind = "other"
            /\ reply' = Answer(404, NoAlias, None)
            /\ request' = Waiting
            /\ UNCHANGED <<walletVars, ledgerVars, clockVars, seenVars, domain>>

CheckAlias ==
  /\ request.pc = "alias" /\ request.kind # "other"
  /\ \/ Refuse(request.spelling, MaxPerAlias) /\ Respond(429)
     \/ /\ Admit(request.spelling, MaxPerAlias)
        /\ IF request.kind = "repeats" THEN Respond(400)
                                       ELSE Goto("discovery") /\ UNCHANGED ledgerVars

Reading == request.pc \in {"discovery", "lookup"}

\* The alias is validated before the domain is read, both before the list is.
Reject == /\ request.pc = "discovery" /\ request.offset = 0
          /\ \/ Wanted = NoAlias /\ Respond(404)
             \/ Wanted # NoAlias /\ ~domain /\ Respond(503)
          /\ UNCHANGED clockVars

\* A missing or malformed amount is answered like one that is not allowed.
AmountAllowed(amt) == /\ amt >= MinSendable /\ amt <= MaxSendable
                      /\ amt % Sat = 0

\* What find_app_by_alias returns for the discovery and for the invoice.
LookedUp(i) ==
  CASE i = None -> Respond(404)
    [] i # None /\ request.pc = "lookup" ->
         /\ request' = [request EXCEPT !.pc = "check", !.app = i]
         /\ UNCHANGED <<walletVars, ledgerVars, seenVars, domain, reply>>
    [] i # None /\ request.pc = "discovery" ->
         CASE request.kind = "discovery" -> Respond(200)
           [] request.kind = "callback" /\ ~AmountAllowed(request.amount) -> Respond(400)
           [] OTHER ->
                /\ request' = Work("lookup", request.kind, request.spelling, request.amount)
                /\ UNCHANGED <<walletVars, ledgerVars, seenVars, domain, reply>>

\* A page of the list in the order of ids: the wallets that have as many
\* before them as the offset allows.
Page(o) == {i \in Apps : Cardinality({j \in Apps : j < i}) \in o..(o + PageSize - 1)}

\* i is what is found when the page is added to what was read: the first wallet
\* of the list that has the alias.
Match(i, page) ==
  LET hits == {j \in page : alias[j] = Wanted}
  IN  \/ i = request.app /\ (request.app # None \/ hits = {})
      \/ request.app = None /\ i \in hits /\ \A j \in hits : i <= j

\* Mutant: a list without the alias is read again, as a rotation may be under way.
ReadUntilFound ==
  /\ Reading /\ Wanted # NoAlias /\ domain
  /\ LET page == Page(request.offset)
         count == request.count + Cardinality(page)
     IN  \E i \in Apps \cup {request.app} :
           /\ Match(i, page)
           /\ CASE count < Cardinality(Apps) ->
                     /\ request' = [request EXCEPT !.offset = @ + PageSize, !.count = count,
                                                   !.app = i]
                     /\ UNCHANGED <<walletVars, ledgerVars, seenVars, domain, reply>>
                [] count >= Cardinality(Apps) /\ i = None ->
                     Goto(request.pc) /\ UNCHANGED ledgerVars
                [] OTHER -> LookedUp(i)
  /\ UNCHANGED clockVars

\* totalCount comes with every page.
ReadPage ==
  /\ Reading /\ Wanted # NoAlias /\ domain
  /\ LET page == Page(request.offset)
         count == request.count + Cardinality(page)
     IN  \E i \in Apps \cup {request.app} :
           /\ Match(i, page)
           /\ IF count >= Cardinality(Apps)
              THEN LookedUp(i)
              ELSE /\ request' = [request EXCEPT !.offset = @ + PageSize, !.count = count,
                                                 !.app = i]
                   /\ UNCHANGED <<walletVars, ledgerVars, seenVars, domain, reply>>
  /\ UNCHANGED clockVars

\* Mutant: a list that cannot be read counts as one without the alias.
ListFailsUnknown == /\ Reading /\ Wanted # NoAlias /\ domain
                    /\ Respond(404)
                    /\ UNCHANGED clockVars

ListFails == /\ Reading /\ Wanted # NoAlias /\ domain
             /\ Respond(503)
             /\ UNCHANGED clockVars

-----------------------------------------------------------------------------
(* POST /api/invoices for the id that was found; any failure is a 502.       *)

Step(pc) == request' = [request EXCEPT !.pc = pc] /\ UNCHANGED <<reply, domain, walletVars>>

InvoiceFails == /\ request.pc \in {"check", "lnd", "issued"}
                /\ Respond(502)
                /\ UNCHANGED clockVars

CheckApp == /\ request.pc = "check" /\ request.app \in Apps
            /\ Step("lnd")
            /\ UNCHANGED <<ledgerVars, seenVars, clockVars>>

MakeInvoice ==
  /\ request.pc = "lnd"
  /\ Cardinality(DOMAIN invoices) < MaxInvoice
  /\ LET n == Cardinality(DOMAIN invoices) + 1 IN
     /\ invoices' = [k \in DOMAIN invoices \cup {n} |->
                       IF k = n THEN [app |-> request.app, amount |-> request.amount]
                                ELSE invoices[k]]
     /\ request' = [request EXCEPT !.pc = "record", !.invoice = n]
  /\ UNCHANGED <<walletVars, rows, recorded, domain, reply, seenVars, clockVars>>

Recorded == /\ rows' = [n \in DOMAIN rows \cup {request.invoice} |->
                          IF n = request.invoice THEN request.app ELSE rows[n]]
            /\ recorded' = recorded \cup {request.invoice}
            /\ UNCHANGED invoices

\* record_incoming_invoice: the wallet may be gone by now.
Record ==
  /\ request.pc = "record"
  /\ IF request.app \in Apps
     THEN Recorded /\ Step("issued") /\ UNCHANGED seenVars
     ELSE Respond(502)
  /\ UNCHANGED clockVars

Deliver == /\ request.pc = "issued"
           /\ reply' = Answer(200, Wanted, request.invoice)
           /\ request' = Waiting
           /\ UNCHANGED <<walletVars, ledgerVars, seenVars, clockVars, domain>>

-----------------------------------------------------------------------------
Serve == \/ NotFound \/ CheckAlias \/ Reject \/ ReadPage
         \/ CheckApp \/ MakeInvoice \/ Record \/ Deliver
Failure == ListFails \/ InvoiceFails

Wallets == \/ \E a \in Alias : CreateWallet(a)
           \/ \E i \in Apps : DeleteWallet(i) \/ RotateDeletes(i)
           \/ RotateCreates

\* The amount matters in a callback only.
Requests == \E c \in Client, s \in Spelling :
              \/ \E kind \in {"discovery", "repeats", "other"} : Receive(c, kind, s, 0)
              \/ \E amt \in Amount : Receive(c, "callback", s, amt)

Next == \/ Requests
        \/ Serve \/ Failure \/ Wallets \/ Tick

Spec == Init /\ [][Next]_vars

\* The one thread of the server runs, and what it asks for is answered or
\* fails (the requests to the daemon time out).
FairSpec == Spec /\ WF_vars(Serve \/ Failure)

-----------------------------------------------------------------------------
\* What a payer gets for a Lightning Address: an invoice that is recorded (or
\* its payment would be credited to nobody) for a wallet that had this alias at
\* some moment of the request and that, if it still exists, has it still,
\* although its id was looked up before wallets were deleted, rotated and
\* created under it.
InvoiceIsForHolder ==
  reply.invoice # None =>
    LET i == invoices[reply.invoice].app IN
    /\ i \in held
    /\ reply.invoice \in recorded
    /\ i \in Apps => alias[i] = reply.alias /\ reply.invoice \in DOMAIN rows

\* A payer is told that a Lightning Address is unknown only if at some moment
\* of the request no wallet had it; a daemon that does not answer is no reason.
\* The exception is in the code: a wallet deleted between two pages moves the
\* next one to a page that has been read.
UnknownIsUnknown == reply.status = 404 /\ reply.alias # NoAlias => vacant \/ shifted

\* The requests (by number) that passed the window of k that ends at t.
Passed(k, t) ==
  {i \in DOMAIN admitted[k] : admitted[k][i] <= t /\ admitted[k][i] + Window >= t}
Limit(k) == IF k \in Client THEN MaxRequests ELSE MaxPerAlias

\* In no window, wherever it ends and its edges included, more requests pass
\* than the limit: of one client, and for one spelling from all clients.
WindowsWithinLimit ==
  \A t \in 0..now, k \in Key : Cardinality(Passed(k, t)) <= Limit(k)

\* Every request is answered, although the list it reads may grow and shrink
\* while it is read.
RequestsAnswered == (request # Waiting) ~> (request = Waiting)
=============================================================================

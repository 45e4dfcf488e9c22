# Sovran NWC: specification and verification

Sovran_Bitcoin is a set of NixOS modules around Bitcoin Core, LND and friends.
Its own program is `packages/sovran-nwc` (Python, about 5000 lines): a Nostr
Wallet Connect (NIP-47) server on top of LND that gives each application an
*isolated sub-wallet* with its own balance, a command line and a declarative
provisioner that manage the sub-wallets, and a Lightning Address (LNURL)
service. Money is in an SQLite ledger; LND only knows one node balance. So
what a user relies on is that the ledger is right, whatever threads, relays,
restarts and lost answers do. That is what this project specifies.

Paths below are relative to the repository's `packages/sovran-nwc/` unless they
say otherwise.

## 1. The system

| Component | State | Operations | Talks to |
|---|---|---|---|
| **Ledger** `NwcStore` (`nwc_daemon.py:77-891`) | `sovran_apps` (balance, limit, keys), `sovran_transactions`, `sovran_processed_events` | create/delete app, transfer, record and settle an incoming invoice, reserve and finalize an outgoing payment, mark an event, look-ups | called by every thread of the daemon; one lock and one `BEGIN IMMEDIATE` transaction per method |
| **Payments** (`_pay_invoice_payload`, `_pay_keysend_payload`) | none but the row in the ledger | reserve, ask LND, book the answer | ledger, LND |
| **Invoices** (`make_invoice`, `/api/invoices`, `reconcile_pending_invoices`, `_finish_internal_payment`, notifications) | none but the rows | issue, reconcile, settle inside the ledger, notify | ledger, LND, relays |
| **Relay workers** (`_relay_loop`, `_sync_relay_subscriptions`, `process_nip47_event`) | `_relay_conns`, a connection per relay | connect, subscribe, read, de-duplicate, execute, reply | ledger, relays; HTTP threads call `refresh_all_relays` |
| **Invoice watcher** | none | reconcile all wallets every 3 s | ledger, LND |
| **Management API** (`handle_http`) | tokens in memory | a thread per request | ledger, LND, relays |
| **LND client** (`nwc_lnd.py`) | none | REST calls with time limits; parses the payment stream | LND |
| **Wallet operations** `AlbyHubManager` (`nwc_hub_manager.py`) | cached token | create, drain, delete, rotate, list, issue an invoice | the management API, one HTTP request per step |
| **Session** (`ensure_ready`, `_authenticated_request`, `_paginate`) | cached token, `_lock` | wait for daemon and LND, obtain and renew a token, read a list page by page | the management API |
| **LNURL service** (`nwc_lnurl_service.py`) | rate-limit buckets | discovery, callback | `AlbyHubManager` |
| **CLI, provisioning** (`nwc_wallet_cli.py`, `modules/albyhub.nix`) | pairing-URI files | the wallet operations; wallets created once at start | `AlbyHubManager` |
| **Nostr** (`nwc_nostr.py`) | socket, send lock, fragments read so far | signatures, encryption, WebSocket connection | relays |
| **Audit log** (`nwc_audit.py`) | one file | append an entry | every process that manages wallets |
| **Helpers** (`nwc_helpers.py`) | none | LNURL in bech32, names, domain | - |

Hard behaviour, component by component:

* the ledger's methods are atomic, everything above them is a sequence of
  atomic steps with calls to LND in between and *no lock held*;
* LND's answer may be late or lost while LND goes on, and the daemon may be
  restarted between any two steps, keeping the tables only;
* the same request arrives from several relays and again after reconnects;
* the same invoice is reconciled by several threads, and may be settled inside
  the ledger while it is open in LND;
* wallet operations are several HTTP requests from other processes, which may
  stop anywhere, while clients of the wallet go on;
* wallets are created and deleted while relay threads subscribe, while a list is
  read page by page, and while a Lightning Address is looked up;
* the daemon forgets its tokens when it restarts, and its clients cache them;
* provisioning may stop anywhere, and runs again at every start over what is left;
* several threads send on one socket, a relay reads slowly or stops inside a
  frame, and frames arrive in pieces and fragments.

`PROJECT.json` lists the hazards at their lines, with the properties for each.

What makes each component correct: the ledger's balances are what its rows say
and nobody loses money by another's payment; a payment that LND made or may
still make is on the books of the wallet that asked, and only that; a receipt
is credited once, announced at most once, and eventually; a request is executed
at most once, and is not overlooked because of a subscription that is out of
date; a drained wallet is drained, a deleted one was empty, an alias is unique;
a call survives a restart of the daemon; a list is complete; a payer gets a
recorded invoice of the wallet that has the address; the wallets hold no more
than the node; the service comes up with its declared wallets; the frames and
messages of a connection are whole; what was signed, encrypted or printed
verifies and is read, and nothing else.

## 2. Modules

```
IsolatedAccounts <--refines-- NwcStore --extended by--> NwcPayments
                                                        NwcInvoices
                                                        HubManager
                                                        Funding
NwcRelay, HubSession, LnurlService, Provisioning, WebSocket
                                   (each a machine of its own)
Secp256k1, NwcEncryption <--extended by-- NwcMessage

NwcStoreProofs <--extended by-- NwcPaymentsProofs, NwcInvoicesProofs,
                                FundingProofs,
                                HubManagerProofs (HubManager, HubSession,
                                                  Provisioning)
NwcRelayProofs (NwcRelay and WebSocket)
NwcMessageProofs, LnurlServiceProofs
```

**IsolatedAccounts** is the promise of the ledger with no tables: accounts with
available money and *holds*. A hold is placed on money that is there and is
resolved once, for at most what it took.

**NwcStore** is `class NwcStore`. `apps` and `txs` are the two tables (functions
from row ids), `lastApp` and `lastTx` their AUTOINCREMENT counters. One operator
per method; a method that raises is rolled back, so its checks are the
operator's guard. `transfer` is three operators for its three uses,
`reserve_outgoing_payment` two for its two halves (the invoice is one of this
node's pending ones, or it is not), `finalize_outgoing_payment` two for its two
outcomes. `StoreNext` is the most general client: any thread may call anything
at any time. Left out: names, scopes, texts, timestamps, keys and
the look-ups, which change nothing. It maps to `IsolatedAccounts` with a pending
payment as the hold.

**NwcPayments** composes the ledger with the payment handlers and LND. A worker
is a relay thread (each runs one request at a time); `job[w]` is its handler
between the atomic steps: reserved, waiting for LND, answer received. `lnd[h]`
is LND's payment for a hash: one at a time, retried only after it failed
(external). A request can end in three ways without LND's answer: every `LndError`
is booked as a failure (`LoseAnswer`), any other exception (an answer cut off in the
middle, a fee that is no number, a locked database) leaves the handler for the relay
loop and books nothing (`Escape`), and so does a restart. `lost` and `dropped` are
history variables: rows whose answer did not arrive; rows whose request ended without
a booking. pay_invoice and pay_keysend have the same steps and are one action.

**NwcInvoices** composes the ledger with issuing, the watcher, reconciling
requests, internal settlement, `set_preimage_for_hash` and notifications; `inv`
are LND's invoices (external), `known` the rows whose preimage column is filled.
A reconciliation is a list of pending invoices read once (`todo`) and a look-up,
a settlement and a notification for each, in any order. A payer inside the ledger
pays what the invoice asks for, or, by a keysend with its preimage, any amount it
likes. `due` and `debited` are history variables: which invoices LND had been paid
when the list was read; what payers inside the ledger were charged for an invoice.

**HubManager** composes the ledger with the wallet operations, one action per
HTTP request, and one per page of a list of wallets (`ReadPage`, `ReadMatch`): a page
is the wallets from an offset on, so a deletion moves those behind it. The list of a
wallet's transactions is read in one step. `Abort` ends an operation after any request
(the process is killed, a check fails, a request is refused, its answer is lost *after*
it was executed). `GiveUp` ends it while its request is on the way: the request stays
in the operation's place, of kind "late", and the daemon may execute it at any later
time or never. Clients make, pay and settle all the while. `quiet` and `disputed`
are history variables: nobody else touched the wallet of this operation; aliases that
two operations, or an operation and a late request, worked on at once, or whose
uniqueness check was under way when a wallet was deleted.

**NwcRelay** is a machine of its own, because what a request does is irrelevant
to whether it is executed: relay threads, HTTP threads that refresh
subscriptions, and events. A subscription is two steps, reading the wallets and
sending the REQ, and relays (external) replay events of the last 120 seconds
when they receive a REQ. A REQ of a refresh may fail on a connection that stays up
(`RefreshFails`): the code swallows the exception and goes on. `raced` and `missed` are
history variables: connections on which two threads were between these steps at the
same time; connections whose last refresh failed.

**Funding** composes the ledger with `POST /api/transfers` from the node: an HTTP
thread asks LND for its balance, sums up the wallets, compares, and books, four
steps with other threads in between. `node` is what the channels hold (external:
payments leave it and receipts reach it at moments of their own). An answer that is
lost has the payment refunded (`LoseAnswer`) although LND has made it or goes on trying
(`abandoned`, `LndPaysLate`). `lost`, `disturbed` and `overlooked` are history variables:
what LND paid for refunded payments; threads during whose comparison money was on its
way; a funding was booked after such a comparison, or after none.

**HubSession** is one `AlbyHubManager` with several threads: token, lock, the
waiting in `ensure_ready`, and every request, while the daemon restarts (its
tokens are gone) and LND comes and goes. A request is a sequence of calls: "list", the
first page of `_paginate`, which obtains the token; "page", a further page, which
goes out with that same token; and "auth", `_authenticated_request`, which renews a
refused token once. Every request begins with a list, as those of the program do
(create, drain, delete, rotate, list, and the LNURL service's look-up). A list that is
refused ends "stale" and renews nothing. `ProcessStarts` is a new command, or the LNURL
service started again. Waits of minutes are steps that end in an answer or an error.
`served` and `began` are history variables of the current call: how often it was
executed, and the daemon's run when it began.

**LnurlService** composes the service's `do_GET` with what it asks of the daemon:
the two rate limiters over a clock, the look-up of the alias page by page
(`_paginate`), for an invoice a second look-up, then the daemon's three steps
(wallet, LND's invoice, row) and the answer. Wallets are created, rotated and
deleted, and the clock advances, between any two steps. `held`, `vacant`,
`shifted`, `recorded` and `admitted` are history variables: who had the alias
while the request ran, whether nobody had, whether a wallet was deleted between
two pages, which invoices got a row, when requests passed.

**Provisioning** is the script of `ExecStartPost` command by command, under the
unit's restarts; each command may fail, the unit may be stopped, the
configuration rebuilt, and an operator may create, delete and rotate wallets.
A file is opened and then filled. Spelling matters (`Lower`), because the daemon
stores aliases in lower case and the script compares them as they are declared; so
does validity (`Valid`), and names and aliases may clash with each other and with what
the operator made. `Stuck` names the configurations that no start gets past.

**WebSocket** is one `WebSocketConnection`: the relay thread that upgrades, reads
and answers, threads that notify, and the relay. A frame is two units on the
wire, so that a read or a send can stop inside it; `_send_lock` is held over
both. `halfway` and `leftover` are history variables: a send gave up inside a
frame; frames came with the answer to the upgrade.

**Secp256k1** has the curve arithmetic of `nwc_nostr.py` as operators and
recursive functions over a prime, an order and a generator: addition and
doubling in Jacobian coordinates, the ladder, the way back to affine coordinates
and lifting an x; and, to compare them with, the textbook's group by chord and
tangent. What the real curve has and arithmetic alone does not give, the module
assumes by name (section 4). **NwcEncryption** has the lengths of encrypted texts:
padding, base64 and the limits of both readers. **NwcMessage** puts both to work,
with signing, verifying and the shared secret, on one request and its answer: a client signs, or somebody offers an arbitrary
r and s; the daemon verifies, executes and builds an answer of some length,
through padding, encryption and base64; the client reads it within the reader's
limits. Hashes are functions with any value, a text is its length and the secret
it is encrypted under.

Each MC module instantiates one of them with small constants; each module
XProofs extends X and holds the theorems about it. `HubManagerProofs` and
`NwcRelayProofs` extend more than one module: independent machines that share no
variable, which are about the same part of the system.

## 3. Runs

| Run | Checks | Bounds |
|---|---|---|
| `store` | six properties of the ledger under the most general client | 2 apps, 4 rows, 2 hashes, amounts 1 and 101, limits 0 and 3 |
| `payments` | the ledger and LND agree, reservations end | 2 wallets, 2 workers, 2 hashes, 4 rows (2 of them the funding), 2 faults |
| `payments_lost` | expected violation, see section 5 | as above, 5 rows, 1 fault |
| `invoices` | credits, notifications, fresh replies, preimages, eventual credit | 2 wallets, 1 invoice of 1 or 2 msat, watcher and 2 workers, 4 rows, 1 restart |
| `hub` | drained means drained, alias unique | 2 managers or late requests, 2 aliases, 3 app ids, pages of one, 2 rows, a satoshi of 2 msat |
| `relay` | at most once, marked is executed, subscriptions current, requests arrive | 2 relays, 1 HTTP thread, 1 wallet, 1 event, 2 faults |
| `funding` | fundings are backed by the channels | 1 wallet, 1 hash, 2 HTTP threads, 4 rows, a node of 4 msat, any number of lost answers |
| `session` | every request ends, none is executed twice, refused tokens are renewed | 2 threads, lists of one and two pages with and without a call behind them, 3 faults |
| `lnurl` | the invoice a payer gets, unknown addresses, windows, every request answered | 2 aliases, 3 app ids, pages of one, 1 invoice, limits 2 and 1, two instants |
| `provisioning` | the unit comes up, URIs are kept | 5 configurations (a capital, a changed and an invalid alias among them), 3 faults, 3 operations by hand |
| `websocket` | frames are whole, messages are whole and in order, no thread is stuck | the relay thread and 1 notifying thread, 4 frames from the relay, 2 units of buffer |
| `message` | what is signed and only that is accepted, what is sent is read | a curve of order 31 over 43 elements, 3 keys, 4 challenges, lengths 1 to 140, around powers of 2, up to 65536 |

Why the bounds are enough for the cases that matter:

* `MaxApp`, `MaxTx` cap the AUTOINCREMENT counters, which is the only thing that
  stops a run (hence `CHECK_DEADLOCK FALSE`). Two wallets give payer and payee,
  self-payment, and a deletion with a bystander. Four or five rows hold an
  invoice, its payment and a competing payment, next to a transfer.
* The fee reserve of the code is max(10000, 1% rounded up). `MinFeeReserve = 1`
  with amounts 1 and 101 puts one amount on the floor and one on the percentage;
  `NwcPayments` and `HubManager` do not depend on the percentage.
* A wallet of 5 msat pays one payment of 2 with reserve 1 and not two, which is
  what an unjustified refund needs to become overspending.
* Two workers race for one hash and cross on two; two faults are any two of a
  restart, a lost answer and an exception.
* Rows of different invoices are disjoint and no step of a reconciliation looks
  at two of them, so one invoice with three threads shows every interleaving
  that bears on one.
* A satoshi of 2 msat with receipts of 3 and fundings of 2 makes balances with and
  without dust. Two rows hold a receipt and the drain, or a receipt and a payment that
  is pending. Two aliases, three app ids and pages of one wallet let a
  deletion under one alias move the holder of the other past a list that is being
  read; two operations at once leave the other alias undisputed.
* In `relay` one event reaches the daemon twice over two relays and again after a
  drop; what threads do for two events is independent. One HTTP thread and the
  two relay threads are enough for two threads to subscribe on one connection.
* A node of 4 msat backs one funding and not two, or a funding and a payment on
  its way and not both; with one wallet both land in one balance, which is as
  good as two for a sum.
* Three faults of a session are restarts of the daemon or the process and outages in
  any order: a call can be refused, and refused again with the token that replaced
  the refused one. One manager has one lock and one token, so two threads show every
  way to hold, drop or wait for them.
* Pages of one wallet make up to three pages of three wallets, so a wallet falls
  out of a page that was read, of the current one and of one still to be read.
* Three app ids let an alias be rotated while a request holds its first id, with
  a wallet of the other alias created in between.
* Configurations of `provisioning` have up to two wallets in a row, share names and
  aliases, and meet wallets the operator made under a declared name; three faults stop the
  script after any command, twice in one place, and once more after recovery.
* A WebSocket frame of two units is cut in one place, which is one more than
  whole; a buffer of two is full after one frame. Four frames are a message in three
  fragments with a control frame inside.
* The small curve has the equation, cofactor 1 and prime order of secp256k1, and
  p = 3 mod 4 for `_lift_x`. Every nonce and every pair of r and s, out of their
  ranges included, meets keys with an even and an odd point and challenges at both
  ends, so that equal, opposite and infinite points meet in the ladder and in the
  last addition, which is out of the question for a test on 256 bits.

Symmetry is used on hashes in `store`, on managers in `hub` and on hashes and workers in
`payments_lost`, never in a run with a liveness property.

**Fairness.** Threads that are not blocked run: weak fairness on a worker, a
relay thread, an HTTP thread and the watcher. LND ends every payment it took on
(weak fairness of success-or-failure), because an HTLC settles or times out.
The watcher's look-up of a paid invoice has strong fairness: a look-up may fail
any number of times, not for ever. In `HubSession` a thread has strong fairness on
its next step, because it competes for a lock that is released again and again;
the daemon is restarted (`Restart=on-failure`) and LND returns (weak fairness);
nobody has to ask or to start the process again. In `LnurlService` the one thread of the server goes on, where a failed
request to the daemon is a step as well. In `Provisioning` the
unit is started again and the script runs. In `WebSocket` the relay thread reads,
and a send puts a unit or gives up after its time limit; the relay owes nothing.
Nothing is assumed of clients, payers,
operators, drops or restarts.

**What the properties say.** Each is stated in a comment in its module. The
exceptions matter as much as the claims:

* `NeverOverspends` and `PaidIsCharged` except rows whose answer was lost
  (`payments_lost` shows that they must);
* `HoldsReleased` excepts rows whose own request was cut off by a restart or by an
  exception that is no `LndError`, and `MarkedIsExecuted` excepts restarts: the daemon
  does not look at pending rows or marked events again, so an interrupted payment
  holds its money until somebody edits the table;
* `CreditsAreBacked` does not say that a credit is what the invoice asks for: a
  keysend with the preimage of an invoice pays it with any amount. It says the credit is
  what the payer was debited;
* `SubscriptionsCurrent` excepts connections on which two threads subscribed at once,
  and those whose last refresh failed. Without the first exception TLC finds the older
  list of wallets sent last, without the second a timed-out REQ that nobody repeats:
  a new wallet then is not subscribed for until the next refresh or reconnect.
  `RequestsArrive` excepts only the case that *every* relay is such a connection;
* `AliasUnique` excepts an alias two operations, or an operation and a late request,
  worked on at once, which nothing prevents (the check is a list read before the
  POST), and one whose check was under way when a wallet, of whatever alias, was
  deleted: the next wallet moves to a page that was read;
* `QuietFundingsAreBacked` excepts fundings that were compared while a payment, a
  receipt or another funding was on its way: with two fundings at once TLC
  finds both booked against one balance. What LND paid for refunded payments is
  missing from the channels and counted as `lost`;
* `AuthSurvivesRestart` is about calls of `_authenticated_request`, and about one
  restart during the call; a call that meets two may be refused twice. It does not say
  that a request survives one: a request begins with a list, which is refused;
* `UnknownIsUnknown` excepts requests during which a wallet was deleted between two
  pages: it moves the next wallet to a page that has been read;
* `UriIsKept` excepts wallets the operator changed and runs that were interrupted
  between the creation and the file;
* `MessagesAreThose` excepts connections where `connect` read beyond the answer to
  the upgrade, `FramesAreWhole` those that stay in use after a send that gave up
  inside a frame;
* `SentIsRead` is about answers that were sent: one that is too long for NIP-44 is
  not;
* `InvoiceIsForHolder` lets the wallet be deleted after its id was looked up: the
  invoice then is of a wallet that had the alias, and of no other;
* `StartsAndProvisions` excepts configurations with a wallet that is `Stuck`, where
  every start fails: an alias with capitals once its wallet exists, a changed alias
  for a name that has a wallet, a name or alias the operator uses for another one, an
  invalid alias;
* `QuietDrainIsComplete` is about operations nobody disturbed. That an operation which
  stops half-way leaves a wallet drained and not deleted, or deleted and not created
  again, is in the model and excluded by no property.

Every property has a mutant of the code's model - a dropped guard, a missing
refund, a swapped payer and payee, a notification sent twice - that violates it
under the bounds of its run; they stand before the definitions they change and
begin with the word Mutant.

## 4. Proofs

Checked by TLAPS for all values of the constants that satisfy the named
assumption of each module (`StoreAssumption`, `PaymentsAssumption`,
`InvoicesAssumption`, `FundingAssumption`, `HubAssumption`, `SessionAssumption`,
`RelayAssumption`, `WebSocketAssumption`, `LnurlAssumption`,
`ProvisioningAssumption`, `MessageAssumption`), which say that bounds are naturals,
that "no hash" is no hash, and the like, and of the curve `CurveAssumption`,
`FieldAssumption` and `GroupAssumption`, explained under `NwcMessageProofs`; the library's theorems about finite sets, sequences and
well-founded relations are the only other facts used. Nearly every proof is of
one shape: an inductive invariant stronger than the property, one lemma per action
or group of actions, and a last temporal step.

| Module | Theorem | States |
|---|---|---|
| `NwcStoreProofs` | `StoreTypeCorrect` | `StoreTypeOK` |
| | `ClosedRowsAreFinal`, `DebitsAreOwn` | `ClosedRowsFinal`, `OnlyOwnRowsDebit` |
| | `StoreImplementsAccounts` | `ImplementsAccounts` (refinement) |
| | `BalanceIsRowsSum`, `LimitHolds` | `BalanceMatchesRows`, `PaymentsWithinLimit` |
| `NwcPaymentsProofs` | `PaymentsTypeCorrect`, `PaymentsAreCharged`, `ChargesAreForPayments` | `PaymentsTypeOK`, `PaidIsCharged`, `ChargesAreReal` |
| | `NeverOverspent` | `NeverOverspends` |
| | `PaymentsUseTheStore` | every step is one of the store |
| | `PaymentsKeepTheLedger` | `BalanceMatchesRows`, `ClosedRowsFinal`, `OnlyOwnRowsDebit` of this machine |
| `NwcInvoicesProofs` | `InvoicesTypeCorrect`, `InvoicesAreBacked`, `ReceiptsAnnouncedOnce`, `RepliesAreCurrent`, `PreimagesAreShared` | `InvoicesTypeOK`, `CreditsAreBacked`, `NotifiedOnce`, `RepliesAreFresh`, `PreimageOnBothRows` |
| | `InvoicesUseTheStore` | every step is one of the store |
| | `InvoicesKeepTheLedger` | the same three of this machine |
| `FundingProofs` | `FundingImplementsStore` | `Spec => StoreSpec` |
| | `QuietFundingsBacked` | `QuietFundingsAreBacked` |
| | `FundingKeepsTheLedger` | the same three and `PaymentsWithinLimit` |
| `HubManagerProofs` | `ManagersTypeCorrect`, `QuietDrainsAreComplete`, `AliasesAreUnique` | `HubTypeOK`, `QuietDrainIsComplete`, `AliasUnique` |
| | `ManagersKeepTheLedger` | the same three of this machine |
| | `CallsServedOnce`, `AuthRetriesSuffice` | `ServedAtMostOnce`, `AuthSurvivesRestart` |
| | `UrisAreKept` | `UriIsKept` |
| `NwcRelayProofs` | `RelayTypeCorrect`, `RequestsExecuteOnce`, `SubscriptionsAreCurrent` | `RelayTypeOK`, `ExecutedAtMostOnce`, `SubscriptionsCurrent` |
| | `SocketTypeCorrect`, `FramesWhole`, `MessagesWhole` | types, `FramesAreWhole`, `MessagesAreThose` |
| `NwcMessageProofs` | `OnlySignedAccepted` | `AcceptedIffSigned` |
| | `AnswersAreRead` | `SentIsRead` |
| | `MultiplesStand`, `TextsAreRead` | what `_jac_mul` computes; lengths of encrypted texts |
| `LnurlServiceProofs` | `InvoicesAreForHolders`, `UnknownIsVacant`, `WindowsAreLimited` | `InvoiceIsForHolder`, `UnknownIsUnknown`, `WindowsWithinLimit` |

`NwcStoreProofs`:

* `StoreTypeCorrect`: `StoreTypeOK` is inductive as it stands, with the row
  conditions it contains. That balances stay natural numbers is the part that
  needs each method's check; that a failed row is an outgoing one, and that only
  a pending outgoing row has a reserve, is what makes a refund of amount plus
  reserve a non-negative credit.
* `ClosedRowsAreFinal` and `DebitsAreOwn`: one case per method, over the type
  invariant.
* `StoreImplementsAccounts`: the refinement. Each method is a step of
  `IsolatedAccounts` or a stutter on it; one lemma per method, which rest on
  lemmas about what an insertion, an update or a restriction of the row table
  does to the holds.
* `BalanceIsRowsSum`: a balance is a column that eight methods keep up to date, the
  sum is over a table. The lemmas say what a sum is, whatever order the fold takes:
  every finite set has one sum, taking a row out takes its worth off. The library's
  induction over finite sets is out of reach (it takes an operator), so these
  are proved by contradiction, from a smallest counterexample, which the
  well-foundedness of strict subsets gives. Then each method writes one row, or
  two of different wallets, and changes a balance by the difference.
* `LimitHolds`: `PaymentsWithinLimit` is a sum of the same kind over the rows that
  count against the limit. A row in flight counts with its reserve, a settled one
  with its fee, and a settlement puts a fee of at most the reserve in its place.

`NwcPaymentsProofs`, on top of `NwcStoreProofs`:

* `PaymentsTypeCorrect`, `PaymentsAreCharged`, `ChargesAreForPayments` from one
  invariant, `Agreement`. LND's payment and the ledger's row are written by
  different steps, so it says how far they may be apart at each place of a
  handler: a payment of LND names an outgoing row of its hash, its fee is within
  the limit, and an outgoing row not settled inside has a hash (`AttemptsOK`); a
  worker that has not called LND yet is not known to it, one that has shares the
  figures with it, and the answer it holds is what LND says, unless it was lost
  (`AnswersOK`).
* `NeverOverspent` from `Books`: `Agreement`, the sum of the rows
  (`BalanceMatchesRows`), and what LND's figures have to do with the row's
  (`FiguresOK`). The payments of LND are a sum over hashes, the ledger's over rows:
  each payment that counts is charged to a row of its own, so the first sum is at
  most a part of the second, and what is left of the second is the balance.
* `PaymentsUseTheStore`: every step is a step of `StoreSpec`.
  `PaymentsKeepTheLedger` draws the conclusion: the machine starts with funded
  wallets, where `StoreSpec` starts with none, so that the books are right at the
  start is shown here; that each step keeps them right, leaves closed rows alone
  and debits only the payer follows from the lemmas of `NwcStoreProofs`.

`NwcInvoicesProofs`, on top of `NwcStoreProofs`:

* `InvoicesTypeCorrect`, `InvoicesAreBacked`, `ReceiptsAnnouncedOnce`,
  `RepliesAreCurrent`, `PreimagesAreShared` from one invariant, `Settlement`. An
  invoice is settled by whoever comes first, so it says who may still act: an
  invoice that is being issued has no rows and is known to its thread only
  (`IssuersOK`); a thread about to announce a receipt is the only one for its
  hash, nothing is pending and nothing was announced (`SettlersOK`); an invoice has
  one incoming row at most, and a row that pays it inside the ledger leaves
  nothing pending (`RowsOK`, `InvoicesOK`).
* `InvoicesUseTheStore` and `InvoicesKeepTheLedger`, as above.

`FundingProofs`, on top of `NwcStoreProofs`:

* `FundingImplementsStore`: the whole machine, from its initial state, is a client of
  the ledger, so all theorems of `NwcStoreProofs` hold of it; `FundingKeepsTheLedger`
  states those of the books, of steps and of the limits.
* `QuietFundingsBacked`: the comparison of the code looks at balances and channels
  and not at what is on its way. `Covered` counts that too: every pending row has a
  claim on the channels (`Due`), the amount and reserve of a payment that is not
  made, what is left of the reserve of one that is, an invoice that was paid and not
  credited; balances and claims together are covered by the channels and what they have
  lost to refunded payments (`Means`). A step moves money between these; only a funding
  adds to the balances, and `QuietOK`
  says that a comparison nobody disturbed still holds when it is used.

`HubManagerProofs`, on top of `NwcStoreProofs`:

* `ManagersTypeCorrect`, `QuietDrainsAreComplete`, `AliasesAreUnique` from one
  invariant, `Management`. A manager relies on what earlier answers told it. `Fits`
  says what of that is still true: the wallet it resolved has its alias or is gone;
  an alias found free is still free unless it is disputed (`Exclusive`); and, as long
  as nobody touched the wallet (`Undisturbed`), its balance is what was read, or the
  dust of it after the transfer, with no pending row. The last needs that whole
  satoshis and dust add up, for any number of msat per satoshi. While the uniqueness
  check reads its pages, for any page size, the wallets it has seen are a beginning of
  the list and none of them has the alias (`ListFits`): the rank of a wallet, the number
  of wallets with a smaller id, changes with no creation because ids grow, and a list
  whose results are as many as the wallets there are has been read to the end.
* `ManagersKeepTheLedger`: managers fund and drain amounts of their own, so their
  requests are not steps of `StoreSpec` with its `Amount` and `Limit`. `Calls` are
  the methods they use, with any natural amount; the ledger's lemmas that do not
  need the bound (`FundBooked`, `DrainBooked`, `CreateBooked`) are stated without it.
* `CallsServedOnce`, about the session: `Executions` says that only a thread that
  waits for a reply, or has none to wait for, has had its call executed; so the
  retry, which follows a refusal, is never a repetition.
* `AuthRetriesSuffice`: `Tokens` says how old a token may be. The cached one is as
  new as any in use, so the list before a call leaves none older than the call; a
  refusal means a restart since, and the token of the retry, whoever obtained it,
  is of a later run than the one the call began in.
* `UrisAreKept`, about provisioning: `UriIsKept` needs to know what the script is
  about to write: between `create` and the file, the URI it holds is that of the one
  wallet with the alias, unless an operator touched it (`ScriptOK`).

`NwcRelayProofs`, the delivery:

* `RelayTypeCorrect`: `RelayTypeOK` is inductive.
* `RequestsExecuteOnce`: `ExecutedAtMostOnce` is not inductive: nothing in it
  keeps a second thread from executing. `OneExecution` adds that an event which
  is not marked was never executed, and that a thread about to execute one holds
  the only licence, unused. Only `Mark` and `Execute` bear on it; every other
  step is handled by one lemma: marks and counts unchanged, and nobody new
  executes.
* `SubscriptionsAreCurrent`: `SubscriptionsCurrent` speaks of a moment when nobody
  is about to subscribe. `UpToDateAll` says what holds at every other one, for a
  connection that never raced: either an HTTP thread is still to read the wallets
  for it, or whoever is between reading and subscribing has read all of them, and
  if nobody is and the last refresh did not fail, the subscription covers them. `Listings` keeps threads to
  connections that are up.

The connection:

* `SocketTypeCorrect`: the types of the machine, which are no run's property.
* `FramesWhole`: what the relay parsed of an unfinished frame, followed by what is in
  the buffer, is whole frames and at most one first half (`Paired`); the unit that
  the holder of the lock sends next continues it (`Follows`). This is `Framed`, and
  it holds until a send gives up inside a frame (`halfway`).
* `MessagesWhole`: `AllThose` says that the messages so far are those of the relay.
  What makes it inductive is `Reading`: if the daemon has read the frames up to r,
  the units on the way are exactly the rest (`Coming`), and the fragments it
  holds are the data frames since the last end of a message (`Collected`). Control
  frames change neither. A message is described by what it is (`IsMessage`): the
  ascending data frames between two ends, the last of which it contains.

`NwcMessageProofs`, for a curve of any size. Assumed, by name, in `Secp256k1`:

* `CurveAssumption`: P % 4 = 3, N is at most P, G is on the curve, and no point has
  x = 0, which `_lift_x` refuses (7 is no square modulo the real P);
* `FieldAssumption`: z^(P-1) = 1 for every z other than 0, Fermat's theorem, which
  is what `_to_affine` and `_lift_x` use of the primality of P;
* `GroupAssumption`: addition by chord and tangent is associative, the multiples of
  G below N differ, and N * G is the point at infinity.

These are textbook facts about the constants in `nwc_nostr.py:33-37`; TLC evaluates
them on the small curve, on all its points. That a curve has them is not proved
here: what is proved is that the *program* computes with such a curve what it should,
with no other condition on points, keys, nonces or challenges:

* The field. Congruence modulo P, inverses and the absence of zero divisors from
  Fermat's theorem; the powers of `pow` add up. Numbers are divided with the
  quotients named, so that every step is an identity of polynomials. Induction is
  over *sets* of numbers, from the well-foundedness of <; it needs no operator as
  a parameter.
* The group. The textbook's operation stays on the curve (`Sum` is defined with
  `CHOOSE`, so the slope is first shown to exist), is commutative, and the
  multiples of G add up like numbers modulo N.
* Triples. `Stands(p, a)`: the triple p is the point a in Jacobian coordinates.
  `_jac_double` and `_jac_add` of triples stand for the sum of what they stand for,
  in each of the cases the code tells apart, and in those it does not: a point
  added to itself, to its opposite, to the point at infinity.
* `MultiplesStand`: the invariant of the loop of `_jac_mul` (`Ladder`): result plus
  what is left of k times the addend is k times the point.
* Back to coordinates: `_to_affine` divides by Z; `_lift_x` finds the square root, and
  of the two points with this x the one with an even y, which is the point or its
  opposite; so the scalar that `schnorr_sign` uses for a key or a nonce is the
  one whose point is lifted.
* `OnlySignedAccepted`: hence `schnorr_verify` computes s * G - e * P, and that is
  the point of a nonce k if and only if s = k + e * d modulo N. The inductive
  invariant only adds that keys and scalars are in their ranges (`RequestTyped`).
* `AnswersAreRead`: each side lifts the other's x to a point that need not be the
  other's own, multiplies and drops the sign again, so both get the x of
  (a * b) * G (`SharedAgree`). `ReplyKept` follows the answer: on the wire is what was
  encrypted with the wallet's secret.
* `TextsAreRead`: for every length that can be padded, what `nip44_encrypt` makes is
  within the limits of `nip44_decrypt` in characters, bytes and padding, and the
  length is read back; NIP-04 the same for every length. A chunk of the padding is
  one of nine powers of two, each of which is rounded to with arithmetic on
  literals; that the padded length reaches 65536 and no further is where the limits
  of the reader come from.

`LnurlServiceProofs`:

* `InvoicesAreForHolders`: `Fulfilment` follows the id of the wallet from the page it
  was found on, over the invoice, to the answer: ids are never used again
  (`WalletsOK`), a recorded invoice keeps its row as long as its wallet is there
  (`InvoicesOK`), and whatever was found had the alias during this request and has
  it still if it exists (`RequestOK`, `ReplyOK`).
* `UnknownIsVacant` from `Search`: as long as no wallet was deleted between two pages
  and the alias was never vacant, its holder is among those still to be read. The
  rank of a wallet is the number of wallets with a smaller id, an offset is a
  rank, and a creation changes no rank because ids grow.
* `WindowsAreLimited` from `WindowOK`: the bucket is the end of the list of admissions,
  what was pruned is out of the window, and any `max` admissions are followed by one
  that is further than a window from the first of them.

What stays with TLC: liveness (`HoldsReleased`, `PaidIsCredited`, `RequestsEnd` and the
like), because fairness and `ENABLED` are out of the prover's reach. Every safety
property of the runs that hold is a theorem.

## 5. Disagreements found

* `payments_lost` - every `LndError` is booked as a failure and refunded, also a
  time-out or a cut-off stream while LND goes on paying
  (`nwc_daemon.py:1299`, `:1404`). The wallet can then spend more than it holds,
  against `nwc_hub_manager.py:518`.

Met while modelling, and expressed as an exception of a property or not at all:

* between drain and DELETE the wallet may receive, and the daemon deletes it with
  its money (`nwc_hub_manager.py:848`), against `nwc_hub_manager.py:837` and `:700`;
* a limit is only the initial funding (`nwc_hub_manager.py:522`); later receipts
  can be spent too, against the repository's `README.md:115`;
* the branch for `unpaid` of `list_transactions` is empty (`nwc_daemon.py:582`),
  against the comment in it;
* a list does not renew a refused token (`nwc_hub_manager.py:182`), and every
  request of the LNURL service begins with a list: after a restart of the daemon
  it is refused until it is restarted too, against `nwc_hub_manager.py:325`;
* a wallet deleted between two pages hides another (`nwc_hub_manager.py:206`),
  against `:178`, and with it the holder of an alias from `create_wallet` (`:500`);
* an exception that is no `LndError` (`nwc_lnd.py:139` reads the answer, `:153` does not
  catch every error of it) passes `nwc_daemon.py:1299` and `:1404`, and the row stays
  pending for ever;
* a keysend with the preimage of a pending invoice settles it with another amount than
  it asks for (`nwc_daemon.py:642`);
* a refresh whose REQ times out is not repeated, and the connection is kept
  (`nwc_daemon.py:1584`);
* the alias is not validated before it becomes a key of the rate limiter
  (`nwc_lnurl_service.py:310`), against `:101`: one wallet has a window for each
  spelling of its alias;
* the liquidity check is not in the transaction of the transfer, and does not
  count what is reserved (`nwc_daemon.py:1745`), against the comment at `:1740`;
* a declared alias in capital letters, or a changed one, makes the service fail at
  every start (`modules/albyhub.nix:174`), against its description at line 98; a
  pairing URI that was not written at once is never written (`:177`), against
  line 99;
* after a send that timed out inside a frame the connection stays in use
  (`nwc_daemon.py:1513`), and what follows the answer to the upgrade is dropped
  (`nwc_nostr.py:772`), against `nwc_nostr.py:708`;
* an answer that is too long for NIP-44 ends the connection instead of being
  answered (`nwc_nostr.py:507`), against `nwc_daemon.py:983`;
* two commands that create the audit log at once lose an entry
  (`nwc_audit.py:36`), against `nwc_audit.py:4`;
* a canceled invoice keeps its row pending, and a wallet with a pending row can
  never be drained or deleted; an outside payment of an invoice that was settled
  inside the ledger is credited to nobody; a self-payment's `payment_received` may
  carry the payer's row, because `find_tx_for_app` takes the newest row of the
  hash.

## 6. Not modelled, and the plan

Not modelled, and why:

* AES, ChaCha20, HMAC, HKDF, SHA-256: pure functions over bytes with published
  test vectors; what depends on lengths is in `NwcMessage`, and a changed
  message is taken to fail its MAC.
* TLS and SOCKS5: a connection attempt that fails is one of the attempts of
  `NwcRelay`. URL parsing, JSON, arguments, texts, the terminal QR code.
* LND's JSON and its payment stream: `NwcPayments` and `NwcInvoices` model the
  outcomes that the client returns.
* The change of a wallet's alias and its metadata in the manager; permissions of
  a token (two fixed sets, compared in one place).
* The audit log: it appends to a file that nothing reads; its one race is named in
  section 5. LNURLs in bech32: a pure function that only the command line prints.
* The unlock password and macaroon files; NixOS modules of other services, which
  are configuration without state.

The order was: the ledger and its abstract specification first, because every
other module calls it; then payments, invoices, wallet operations and relays;
then sessions, the LNURL service with its lists, fundings, provisioning, and
the connection and the messages under the relays; then the proofs, in the same
order. What is left:

1. the change of an alias by a manager, which would make `AliasUnique` a property of
   one more operation;
2. that the steps of the connection (`WebSocket`) implement what `NwcRelay` takes for
   granted of it, messages that arrive whole and in order or not at all.

## 7. Running it

`tlc -workers 2 -config MCNwcStore.cfg MCNwcStore.tla`, likewise for the other
configurations (each takes at most three minutes). `tlapm NwcStoreProofs.tla`,
likewise for the other seven modules of proofs (each takes at most three minutes).

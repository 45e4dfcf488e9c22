------------------------------ MODULE NwcRelay ------------------------------
(***************************************************************************)
(* How NIP-47 requests reach the daemon: one thread per relay that         *)
(* connects, subscribes, reads events and executes them one by one;        *)
(* _sync_relay_subscriptions, which the relay threads run when they        *)
(* connect and the HTTP threads after a wallet was created or deleted; and *)
(* mark_event_processed, which lets an event be executed once although     *)
(* several relays deliver it and each delivers it again after a reconnect. *)
(*                                                                         *)
(* Relays are external: they keep events, and send those of the last 120   *)
(* seconds that match when a subscription is made.  A connection may drop  *)
(* at any time (reading gives up after 20 idle seconds), and the daemon    *)
(* may be restarted.  What executing a request does is in NwcPayments and  *)
(* NwcInvoices.                                                            *)
(***************************************************************************)
EXTENDS Naturals, FiniteSets

CONSTANTS Relay,     \* configured relays
          Http,      \* HTTP requests that create or delete wallets
          Wallet,    \* wallet public keys
          Event,     \* NIP-47 request events
          None,      \* no wallet, no event, no relay
          MaxFault   \* bound on dropped connections, failed refreshes and restarts

ASSUME RelayAssumption == /\ None \notin Relay \cup Wallet \cup Event
                          /\ Relay \cap Http = {}
                          /\ MaxFault \in Nat

VARIABLES
  live,       \* wallets in sovran_apps
  born,       \* wallets created so far: keys are never used again
  processed,  \* sovran_processed_events
  loop,       \* each relay thread: [pc, snap, event]
  listed,     \* _relay_conns
  refresh,    \* each HTTP thread in refresh_all_relays: [pc, todo, relay, snap]
  alive,      \* relays whose current connection is up
  sub,        \* the wallets each current connection is subscribed for
  inbox,      \* events on their way to a relay thread
  target,     \* the wallet each published event is addressed to
  old,        \* published events that are older than 120 seconds
  executed,   \* history: how often an event was executed
  raced,      \* history: connections two threads subscribed on at once
  missed,     \* history: connections whose last refresh failed
  drops,      \* connections dropped and refreshes failed so far
  crashes     \* restarts so far

storeVars == <<live, born, processed>>
relayVars == <<alive, sub, inbox, target, old, drops>>
vars == <<live, born, processed, loop, listed, refresh, alive, sub, inbox, target, old,
          executed, raced, missed, drops, crashes>>

Thread(pc, snap, event) == [pc |-> pc, snap |-> snap, event |-> event]
Refresh(pc, todo, relay, snap) ==
  [pc |-> pc, todo |-> todo, relay |-> relay, snap |-> snap]

Down == Thread("down", {}, None)
Free == Refresh("idle", {}, None, {})

Init == /\ live = {} /\ born = {} /\ processed = {}
        /\ loop = [r \in Relay |-> Down]
        /\ listed = {}
        /\ refresh = [h \in Http |-> Free]
        /\ alive = {}
        /\ sub = [r \in Relay |-> {}]
        /\ inbox = [r \in Relay |-> {}]
        /\ target = [e \in Event |-> None]
        /\ old = {}
        /\ executed = [e \in Event |-> 0]
        /\ raced = {} /\ missed = {}
        /\ drops = 0 /\ crashes = 0

-----------------------------------------------------------------------------
(* Subscriptions.                                                           *)

\* Mutant: the REQ asks for new events only, without since.
SubscribeForNewOnly(r, snap) ==
  IF r \in alive /\ snap # {}
  THEN sub' = [sub EXCEPT ![r] = snap] /\ missed' = missed \ {r} /\ UNCHANGED inbox
  ELSE UNCHANGED <<sub, inbox, missed>>

\* REQ with the snapshot's keys replaces the connection's subscription, and
\* the relay sends what it has of the last 120 seconds.  A dead connection
\* raises, and no REQ is sent for no wallets.
Subscribe(r, snap) ==
  IF r \in alive /\ snap # {}
  THEN /\ sub' = [sub EXCEPT ![r] = snap]
       /\ inbox' = [inbox EXCEPT ![r] = @ \cup {e \in Event \ old : target[e] \in snap}]
       /\ missed' = missed \ {r}
  ELSE UNCHANGED <<sub, inbox, missed>>

\* Somebody else is between reading the wallets and sending its REQ.
Syncing(r) == \/ loop[r].pc = "subscribing"
              \/ \E h \in Http : refresh[h].pc = "subscribing" /\ refresh[h].relay = r

NoteRace(r) == raced' = IF Syncing(r) THEN raced \cup {r} ELSE raced

\* Mutant: the new connection is not put on the list.
ConnectUnlisted(r) ==
  /\ loop[r].pc = "down"
  /\ alive' = alive \cup {r}
  /\ sub' = [sub EXCEPT ![r] = {}]
  /\ raced' = raced \ {r} /\ missed' = missed \ {r}
  /\ loop' = [loop EXCEPT ![r] = Thread("connected", {}, None)]
  /\ UNCHANGED <<storeVars, listed, refresh, inbox, target, old, executed, drops, crashes>>

\* The relay thread: the connection is listed before the wallets are read.
Connect(r) ==
  /\ loop[r].pc = "down"
  /\ alive' = alive \cup {r}
  /\ sub' = [sub EXCEPT ![r] = {}]
  /\ listed' = listed \cup {r}
  /\ raced' = raced \ {r} /\ missed' = missed \ {r}
  /\ loop' = [loop EXCEPT ![r] = Thread("connected", {}, None)]
  /\ UNCHANGED <<storeVars, refresh, inbox, target, old, executed, drops, crashes>>

LoopReadsWallets(r) ==
  /\ loop[r].pc = "connected"
  /\ NoteRace(r)
  /\ loop' = [loop EXCEPT ![r] = Thread("subscribing", live, None)]
  /\ UNCHANGED <<storeVars, listed, refresh, relayVars, executed, missed, crashes>>

LoopSubscribes(r) ==
  /\ loop[r].pc = "subscribing"
  /\ Subscribe(r, loop[r].snap)
  /\ loop' = [loop EXCEPT ![r] = Thread("reading", {}, None)]
  /\ UNCHANGED <<storeVars, listed, refresh, alive, target, old, executed, raced, drops,
                 crashes>>

\* POST and DELETE /api/apps change the table, then refresh_all_relays goes
\* through the connections listed at that moment.
CreateWallet(h, w) ==
  /\ refresh[h] = Free
  /\ w \notin born
  /\ live' = live \cup {w}
  /\ born' = born \cup {w}
  /\ refresh' = [refresh EXCEPT ![h] = Refresh("listing", {}, None, {})]
  /\ UNCHANGED <<processed, loop, listed, relayVars, executed, raced, missed, crashes>>

DeleteWallet(h, w) ==
  /\ refresh[h] = Free
  /\ w \in live
  /\ live' = live \ {w}
  /\ refresh' = [refresh EXCEPT ![h] = Refresh("listing", {}, None, {})]
  /\ UNCHANGED <<born, processed, loop, listed, relayVars, executed, raced, missed, crashes>>

ListConnections(h) ==
  /\ refresh[h].pc = "listing"
  /\ refresh' = [refresh EXCEPT ![h] = Refresh("refreshing", listed, None, {})]
  /\ UNCHANGED <<storeVars, loop, listed, relayVars, executed, raced, missed, crashes>>

RefreshReadsWallets(h, r) ==
  /\ refresh[h].pc = "refreshing"
  /\ r \in refresh[h].todo
  /\ NoteRace(r)
  /\ refresh' = [refresh EXCEPT ![h] = Refresh("subscribing", @.todo \ {r}, r, live)]
  /\ UNCHANGED <<storeVars, loop, listed, relayVars, executed, missed, crashes>>

RefreshSubscribes(h) ==
  /\ refresh[h].pc = "subscribing"
  /\ IF refresh[h].relay # None THEN Subscribe(refresh[h].relay, refresh[h].snap)
                                ELSE UNCHANGED <<sub, inbox, missed>>
  /\ refresh' = [refresh EXCEPT ![h] = Refresh("refreshing", @.todo, None, {})]
  /\ UNCHANGED <<storeVars, loop, listed, alive, target, old, executed, raced, drops, crashes>>

\* The send times out on a connection that is up, or the wallets could not be
\* read: refresh_all_relays swallows the exception and goes on with the next
\* connection; this one stays listed with the subscription it has.
RefreshFails(h) ==
  LET r == refresh[h].relay
  IN /\ refresh[h].pc = "subscribing"
     /\ r \in alive /\ refresh[h].snap # {}
     /\ drops + crashes < MaxFault
     /\ drops' = drops + 1
     /\ missed' = missed \cup {r}
     /\ refresh' = [refresh EXCEPT ![h] = Refresh("refreshing", @.todo, None, {})]
     /\ UNCHANGED <<storeVars, loop, listed, alive, sub, inbox, target, old, executed, raced,
                    crashes>>

Refreshed(h) ==
  /\ refresh[h].pc = "refreshing" /\ refresh[h].todo = {}
  /\ refresh' = [refresh EXCEPT ![h] = Free]
  /\ UNCHANGED <<storeVars, loop, listed, relayVars, executed, raced, missed, crashes>>

-----------------------------------------------------------------------------
(* process_nip47_event.                                                     *)

\* An event for a wallet that is not there is dropped and not marked.
Read(r, e) ==
  /\ loop[r].pc = "reading"
  /\ e \in inbox[r]
  /\ inbox' = [inbox EXCEPT ![r] = @ \ {e}]
  /\ loop' = IF target[e] \in live
             THEN [loop EXCEPT ![r] = Thread("marking", {}, e)] ELSE loop
  /\ UNCHANGED <<storeVars, listed, refresh, alive, sub, target, old, executed, raced,
                 missed, drops, crashes>>

\* Mutant: the event id is recorded, but an id that is there is no reason to stop.
MarkAlways(r) ==
  /\ loop[r].pc = "marking"
  /\ processed' = processed \cup {loop[r].event}
  /\ loop' = [loop EXCEPT ![r] = Thread("executing", {}, @.event)]
  /\ UNCHANGED <<live, born, listed, refresh, relayVars, executed, raced, missed, crashes>>

\* mark_event_processed is one transaction: the first relay's thread wins.
Mark(r) ==
  /\ loop[r].pc = "marking"
  /\ processed' = processed \cup {loop[r].event}
  /\ loop' = IF loop[r].event \in processed
             THEN [loop EXCEPT ![r] = Thread("reading", {}, None)]
             ELSE [loop EXCEPT ![r] = Thread("executing", {}, @.event)]
  /\ UNCHANGED <<live, born, listed, refresh, relayVars, executed, raced, missed, crashes>>

\* Mutant: an event whose connection has gone meanwhile is not executed.
ExecuteWhileConnected(r) ==
  /\ loop[r].pc = "executing" /\ r \in alive
  /\ executed' = [executed EXCEPT ![loop[r].event] = @ + 1]
  /\ loop' = [loop EXCEPT ![r] = Thread("replying", {}, @.event)]
  /\ UNCHANGED <<storeVars, listed, refresh, relayVars, raced, missed, crashes>>

Execute(r) ==
  /\ loop[r].pc = "executing"
  /\ executed' = [executed EXCEPT ![loop[r].event] = @ + 1]
  /\ loop' = [loop EXCEPT ![r] = Thread("replying", {}, @.event)]
  /\ UNCHANGED <<storeVars, listed, refresh, relayVars, raced, missed, crashes>>

\* The reply goes to the connection the event came from, or nowhere.
Reply(r) ==
  /\ loop[r].pc = "replying"
  /\ loop' = [loop EXCEPT ![r] = Thread("reading", {}, None)]
  /\ UNCHANGED <<storeVars, listed, refresh, relayVars, executed, raced, missed, crashes>>

\* Reading or sending on a dead connection raises; after a pause the thread
\* connects again.  A send by another thread to this connection raises too.  An
\* exception of a handler, or of the thread's own REQ, closes the connection
\* itself: a drop and this step.
Disconnect(r) ==
  /\ loop[r].pc \in {"connected", "subscribing", "reading", "replying"}
  /\ r \notin alive
  /\ listed' = listed \ {r}
  /\ loop' = [loop EXCEPT ![r] = Down]
  /\ inbox' = [inbox EXCEPT ![r] = {}]
  /\ refresh' = [h \in Http |->
                   Refresh(refresh[h].pc, refresh[h].todo \ {r},
                           IF refresh[h].relay = r THEN None ELSE refresh[h].relay,
                           refresh[h].snap)]
  /\ UNCHANGED <<storeVars, alive, sub, target, old, executed, raced, missed, drops, crashes>>

-----------------------------------------------------------------------------
(* Clients, relays (external) and restarts.                                 *)

\* The client holds the pairing URI; every relay gets the event.
Publish(e, w) ==
  /\ target[e] = None
  /\ w \in live
  /\ target' = [target EXCEPT ![e] = w]
  /\ inbox' = [r \in Relay |-> IF r \in alive /\ w \in sub[r] THEN inbox[r] \cup {e}
                                                              ELSE inbox[r]]
  /\ UNCHANGED <<storeVars, loop, listed, refresh, alive, sub, old, executed, raced, missed,
                 drops, crashes>>

Age(e) ==
  /\ target[e] # None
  /\ old' = old \cup {e}
  /\ UNCHANGED <<storeVars, loop, listed, refresh, alive, sub, inbox, target, executed,
                 raced, missed, drops, crashes>>

Drop(r) ==
  /\ drops + crashes < MaxFault
  /\ r \in alive
  /\ drops' = drops + 1
  /\ alive' = alive \ {r}
  /\ sub' = [sub EXCEPT ![r] = {}]
  /\ inbox' = [inbox EXCEPT ![r] = {}]
  /\ UNCHANGED <<storeVars, loop, listed, refresh, target, old, executed, raced, missed, crashes>>

Crash ==
  /\ drops + crashes < MaxFault
  /\ crashes' = crashes + 1
  /\ loop' = [r \in Relay |-> Down]
  /\ refresh' = [h \in Http |-> Free]
  /\ listed' = {} /\ alive' = {} /\ raced' = {} /\ missed' = {}
  /\ sub' = [r \in Relay |-> {}]
  /\ inbox' = [r \in Relay |-> {}]
  /\ UNCHANGED <<storeVars, target, old, executed, drops>>

-----------------------------------------------------------------------------
LoopStep(r) == \/ Connect(r) \/ LoopReadsWallets(r) \/ LoopSubscribes(r)
               \/ \E e \in Event : Read(r, e)
               \/ Mark(r) \/ Execute(r) \/ Reply(r) \/ Disconnect(r)
RefreshStep(h) == \/ ListConnections(h) \/ RefreshSubscribes(h) \/ RefreshFails(h)
                  \/ Refreshed(h)
                  \/ \E r \in Relay : RefreshReadsWallets(h, r)

Next == \/ \E r \in Relay : LoopStep(r) \/ Drop(r)
        \/ \E h \in Http : RefreshStep(h)
        \/ \E h \in Http, w \in Wallet : CreateWallet(h, w) \/ DeleteWallet(h, w)
        \/ \E e \in Event, w \in Wallet : Publish(e, w)
        \/ \E e \in Event : Age(e)
        \/ Crash

Spec == Init /\ [][Next]_vars

\* Threads run on; clients, drops, aging and restarts are nobody's duty.
FairSpec == /\ Spec
            /\ \A r \in Relay : WF_vars(LoopStep(r))
            /\ \A h \in Http : WF_vars(RefreshStep(h))

-----------------------------------------------------------------------------
(* Properties.                                                              *)

\* Threads' states are of their types, only a thread that reads has no event
\* in hand, and a dead or unsubscribed connection delivers nothing.
RelayTypeOK ==
  /\ live \subseteq born /\ born \subseteq Wallet /\ processed \subseteq Event
  /\ loop \in [Relay -> [pc : {"down", "connected", "subscribing", "reading", "marking",
                               "executing", "replying"},
                         snap : SUBSET Wallet, event : Event \cup {None}]]
  /\ refresh \in [Http -> [pc : {"idle", "listing", "refreshing", "subscribing"},
                           todo : SUBSET Relay, relay : Relay \cup {None},
                           snap : SUBSET Wallet]]
  /\ listed \subseteq Relay /\ alive \subseteq Relay /\ raced \subseteq Relay
  /\ missed \subseteq Relay
  /\ sub \in [Relay -> SUBSET Wallet] /\ inbox \in [Relay -> SUBSET Event]
  /\ target \in [Event -> Wallet \cup {None}] /\ old \subseteq Event
  /\ executed \in [Event -> Nat] /\ drops \in Nat /\ crashes \in Nat
  /\ drops + crashes <= MaxFault
  /\ \A r \in Relay : /\ loop[r].event # None <=>
                           loop[r].pc \in {"marking", "executing", "replying"}
                      /\ loop[r].pc # "down" => r \in listed
                      /\ inbox[r] # {} => r \in alive

\* A request is executed at most once: not once per relay, not again after a
\* reconnect, and not again after a restart.  For pay_invoice and pay_keysend
\* this is what stops a second payment.
ExecutedAtMostOnce == \A e \in Event : executed[e] <= 1

\* When no thread is about to subscribe, every connection that is up is
\* subscribed for every wallet.  Excepted are connections that two threads
\* subscribed on at once, where the older list of wallets may be sent last, and
\* those whose last refresh failed: nobody repeats it.
SubscriptionsCurrent ==
  (\A h \in Http : refresh[h] = Free) =>
    \A r \in alive \ (raced \cup missed) :
      loop[r].pc \notin {"connected", "subscribing"} => live \subseteq sub[r]

\* An event that was marked is executed, whatever becomes of its connection,
\* unless the daemon is restarted: it will not be taken up again.
MarkedIsExecuted ==
  \A e \in Event : e \in processed ~> (executed[e] = 1 \/ crashes > 0)

\* A request that was published reaches the daemon, from a relay it was sent to
\* or after a reconnect, unless it gets old, its wallet is deleted, or there
\* comes a moment when each of the relays has a connection that was subscribed
\* by two threads at once or whose last refresh failed: one sound one is enough.
RequestsArrive ==
  \A e \in Event :
    target[e] # None ~> \/ e \in processed
                        \/ e \in old
                        \/ target[e] \notin live
                        \/ Relay \subseteq raced \cup missed
=============================================================================

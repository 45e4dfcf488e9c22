--------------------------- MODULE NwcRelayProofs ---------------------------
(***************************************************************************)
(* Theorems about what passes between the daemon and its relays, from the  *)
(* event to the wire:                                                      *)
(*   - the delivery of requests (NwcRelay), for any number of relays, HTTP *)
(*     threads, wallets and events;                                        *)
(*   - the frames and messages of a connection (WebSocket), for any number *)
(*     of notifying threads, any frames of the relay and any buffer.       *)
(***************************************************************************)
EXTENDS NwcRelay, WebSocket, SequenceTheorems, TLAPS

-----------------------------------------------------------------------------
(* Type correctness.                                                        *)

\* A REQ changes the subscription and the inbox of a live connection only.
LEMMA SubscribeType ==
  ASSUME NEW r \in Relay, NEW snap \in SUBSET Wallet, Subscribe(r, snap),
         sub \in [Relay -> SUBSET Wallet], inbox \in [Relay -> SUBSET Event]
  PROVE  /\ sub' \in [Relay -> SUBSET Wallet] /\ missed' \subseteq missed
         /\ inbox' \in [Relay -> SUBSET Event]
         /\ \A q \in Relay : inbox'[q] # {} => inbox[q] # {} \/ q \in alive
BY DEF Subscribe

\* Every step of a thread, a relay or a client keeps the types; a thread that
\* is not down has its connection on the list.
LEMMA RelayTypeStep == RelayTypeOK /\ [Next]_vars => RelayTypeOK'
<1> SUFFICES ASSUME RelayTypeOK, [Next]_vars PROVE RelayTypeOK'
  OBVIOUS
<1> USE RelayAssumption DEF storeVars, relayVars, Thread, Refresh
<1>1. ASSUME NEW r \in Relay, Connect(r) PROVE RelayTypeOK'
  BY <1>1 DEF RelayTypeOK, Connect
<1>2. ASSUME NEW r \in Relay, LoopReadsWallets(r) PROVE RelayTypeOK'
  BY <1>2 DEF RelayTypeOK, LoopReadsWallets, NoteRace
<1>3. ASSUME NEW r \in Relay, LoopSubscribes(r) PROVE RelayTypeOK'
  <2>1. loop[r].snap \in SUBSET Wallet BY DEF RelayTypeOK
  <2>2. /\ sub' \in [Relay -> SUBSET Wallet] /\ missed' \subseteq missed
        /\ inbox' \in [Relay -> SUBSET Event]
        /\ \A q \in Relay : inbox'[q] # {} => inbox[q] # {} \/ q \in alive
    BY <1>3, <2>1, SubscribeType DEF LoopSubscribes, RelayTypeOK
  <2> QED BY <1>3, <2>2 DEF RelayTypeOK, LoopSubscribes
<1>4. ASSUME NEW r \in Relay, NEW e \in Event, Read(r, e) PROVE RelayTypeOK'
  BY <1>4 DEF RelayTypeOK, Read
<1>5. ASSUME NEW r \in Relay, Mark(r) PROVE RelayTypeOK'
  BY <1>5 DEF RelayTypeOK, Mark
<1>6. ASSUME NEW r \in Relay, Execute(r) PROVE RelayTypeOK'
  BY <1>6 DEF RelayTypeOK, Execute
<1>7. ASSUME NEW r \in Relay, Reply(r) PROVE RelayTypeOK'
  BY <1>7 DEF RelayTypeOK, Reply
<1>8. ASSUME NEW r \in Relay, Disconnect(r) PROVE RelayTypeOK'
  BY <1>8 DEF RelayTypeOK, Disconnect, Down
<1>9. ASSUME NEW r \in Relay, Drop(r) PROVE RelayTypeOK'
  BY <1>9 DEF RelayTypeOK, Drop
<1>10. ASSUME NEW h \in Http, ListConnections(h) PROVE RelayTypeOK'
  BY <1>10 DEF RelayTypeOK, ListConnections
<1>11. ASSUME NEW h \in Http, NEW r \in Relay, RefreshReadsWallets(h, r)
       PROVE RelayTypeOK'
  BY <1>11 DEF RelayTypeOK, RefreshReadsWallets, NoteRace
<1>12. ASSUME NEW h \in Http, RefreshSubscribes(h) PROVE RelayTypeOK'
  <2>1. refresh[h].snap \in SUBSET Wallet /\ refresh[h].relay \in Relay \cup {None}
    BY DEF RelayTypeOK
  <2>2. /\ sub' \in [Relay -> SUBSET Wallet] /\ missed' \subseteq missed
        /\ inbox' \in [Relay -> SUBSET Event]
        /\ \A q \in Relay : inbox'[q] # {} => inbox[q] # {} \/ q \in alive
    <3>1. CASE refresh[h].relay # None
      BY <1>12, <2>1, <3>1, SubscribeType DEF RefreshSubscribes, RelayTypeOK
    <3>2. CASE refresh[h].relay = None
      BY <1>12, <3>2 DEF RefreshSubscribes, RelayTypeOK
    <3> QED BY <3>1, <3>2
  <2> QED BY <1>12, <2>2 DEF RelayTypeOK, RefreshSubscribes
<1>13. ASSUME NEW h \in Http, Refreshed(h) PROVE RelayTypeOK'
  BY <1>13 DEF RelayTypeOK, Refreshed, Free
<1>14. ASSUME NEW h \in Http, NEW w \in Wallet, CreateWallet(h, w) PROVE RelayTypeOK'
  BY <1>14 DEF RelayTypeOK, CreateWallet
<1>15. ASSUME NEW h \in Http, NEW w \in Wallet, DeleteWallet(h, w) PROVE RelayTypeOK'
  BY <1>15 DEF RelayTypeOK, DeleteWallet
<1>16. ASSUME NEW e \in Event, NEW w \in Wallet, Publish(e, w) PROVE RelayTypeOK'
  BY <1>16 DEF RelayTypeOK, Publish
<1>17. ASSUME NEW e \in Event, Age(e) PROVE RelayTypeOK'
  BY <1>17 DEF RelayTypeOK, Age
<1>17a. ASSUME NEW h \in Http, RefreshFails(h) PROVE RelayTypeOK'
  BY <1>17a DEF RelayTypeOK, RefreshFails
<1>18. ASSUME Crash PROVE RelayTypeOK'
  BY <1>18 DEF RelayTypeOK, Crash, Down, Free
<1>19. CASE UNCHANGED vars
  BY <1>19 DEF RelayTypeOK, vars
<1> QED
  BY <1>1, <1>2, <1>3, <1>4, <1>5, <1>6, <1>7, <1>8, <1>9, <1>10, <1>11, <1>12, <1>13,
     <1>14, <1>15, <1>16, <1>17, <1>17a, <1>18, <1>19
  DEF Next, LoopStep, RefreshStep

\* In every reachable state threads, connections and events are what their
\* types say, whatever drops, deletions and restarts came before.
THEOREM RelayTypeCorrect == Spec => []RelayTypeOK
<1>1. Init => RelayTypeOK
  BY RelayAssumption DEF Init, RelayTypeOK, Down, Free, Thread, Refresh
<1> QED BY <1>1, RelayTypeStep, PTL DEF Spec

-----------------------------------------------------------------------------
(* At most once.                                                            *)

\* What makes a mark a licence to execute once: an event that is not marked
\* was never executed and nobody executes it; a thread that executes an event
\* is the only one, and the first.
OneExecution ==
  /\ \A e \in Event : executed[e] <= 1
  /\ \A e \in Event \ processed : executed[e] = 0
  /\ \A r \in Relay : loop[r].pc = "executing" =>
       /\ loop[r].event \in processed
       /\ executed[loop[r].event] = 0
       /\ \A q \in Relay \ {r} :
            loop[q].pc = "executing" => loop[q].event # loop[r].event

\* Only Mark and Execute bear on it: Mark takes one event that nobody had
\* marked, Execute uses the licence up, and everything else leaves marks and
\* counts alone and sends no further thread to execute.
LEMMA OneExecutionStep ==
  RelayTypeOK /\ OneExecution /\ [Next]_vars => OneExecution'
<1> SUFFICES ASSUME RelayTypeOK, OneExecution, [Next]_vars PROVE OneExecution'
  OBVIOUS
<1> USE DEF storeVars, relayVars, Thread, Refresh
<1>1. ASSUME NEW r \in Relay, Mark(r) PROVE OneExecution'
  <2>1. loop[r].event \in Event BY <1>1 DEF Mark, RelayTypeOK
  <2>2. CASE loop[r].event \in processed
    BY <1>1, <2>2 DEF Mark, RelayTypeOK, OneExecution
  <2>3. CASE loop[r].event \notin processed
    BY <1>1, <2>1, <2>3 DEF Mark, RelayTypeOK, OneExecution
  <2> QED BY <2>2, <2>3
<1>2. ASSUME NEW r \in Relay, Execute(r) PROVE OneExecution'
  <2>1. loop[r].event \in Event /\ executed[loop[r].event] = 0
    BY <1>2 DEF Execute, RelayTypeOK, OneExecution
  <2> QED BY <1>2, <2>1 DEF Execute, RelayTypeOK, OneExecution
<1>3. ASSUME /\ UNCHANGED <<processed, executed>>
             /\ \A q \in Relay : loop'[q].pc = "executing" => loop'[q] = loop[q]
      PROVE  OneExecution'
  BY <1>3 DEF OneExecution
<1>4. ASSUME NEW r \in Relay, LoopStep(r), ~Mark(r), ~Execute(r)
      PROVE  /\ UNCHANGED <<processed, executed>>
             /\ \A q \in Relay : loop'[q].pc = "executing" => loop'[q] = loop[q]
  BY <1>4 DEF LoopStep, Connect, LoopReadsWallets, LoopSubscribes, Read, Reply,
              Disconnect, Down, RelayTypeOK
<1>5. ASSUME NEW h \in Http, RefreshStep(h)
      PROVE  UNCHANGED <<processed, executed, loop>>
  BY <1>5 DEF RefreshStep, ListConnections, RefreshReadsWallets, RefreshSubscribes,
              RefreshFails, Refreshed
<1>6. CASE Crash
  <2>1. \A q \in Relay : loop'[q].pc # "executing" BY <1>6 DEF Crash, Down
  <2> QED BY <1>3, <1>6, <2>1 DEF Crash
<1>7. ASSUME \/ \E r \in Relay : Drop(r)
             \/ \E h \in Http, w \in Wallet : CreateWallet(h, w) \/ DeleteWallet(h, w)
             \/ \E e \in Event, w \in Wallet : Publish(e, w)
             \/ \E e \in Event : Age(e)
             \/ UNCHANGED vars
      PROVE  UNCHANGED <<processed, executed, loop>>
  BY <1>7 DEF Drop, CreateWallet, DeleteWallet, Publish, Age, vars
<1> QED
  BY <1>1, <1>2, <1>3, <1>4, <1>5, <1>6, <1>7 DEF Next

\* A request is executed at most once, with any number of relays and restarts.
THEOREM RequestsExecuteOnce == Spec => []ExecutedAtMostOnce
<1>1. Init => OneExecution
  BY DEF Init, OneExecution, Down, Thread
<1>2. OneExecution => ExecutedAtMostOnce
  BY DEF OneExecution, ExecutedAtMostOnce
<1> QED BY <1>1, <1>2, OneExecutionStep, RelayTypeCorrect, PTL DEF Spec

-----------------------------------------------------------------------------
(* Subscriptions.                                                           *)

\* A connection that is down is on nobody's list; a connection belongs to a
\* thread that is not down; an HTTP thread has a connection in hand only while
\* it subscribes on it.
Listings ==
  /\ \A r \in alive : loop[r].pc # "down"
  /\ \A r \in Relay : loop[r].pc = "down" =>
       r \notin listed /\ \A h \in Http : r \notin refresh[h].todo /\ refresh[h].relay # r
  /\ \A h \in Http : refresh[h].relay # None => refresh[h].pc = "subscribing"

\* An HTTP thread will read the wallets for this connection once more.
Due(r) == \E h \in Http : refresh[h].pc = "listing" \/ r \in refresh[h].todo

\* On a connection that was never subscribed by two threads at once, the
\* wallets it has, or is about to get, are the current ones; what it has is
\* excepted after a refresh that failed.
UpToDate(r) ==
  /\ \A g, h \in Http : refresh[g].relay = r /\ refresh[h].relay = r => g = h
  /\ loop[r].pc = "subscribing" => \A h \in Http : refresh[h].relay # r
  /\ loop[r].pc # "connected" =>
       \/ Due(r)
       \/ /\ loop[r].pc = "subscribing" => live \subseteq loop[r].snap
          /\ \A h \in Http : refresh[h].relay = r => live \subseteq refresh[h].snap
          /\ /\ loop[r].pc # "subscribing" /\ r \notin missed
             /\ \A h \in Http : refresh[h].relay # r
             => live \subseteq sub[r]

UpToDateAll == Listings /\ \A r \in alive \ raced : UpToDate(r)

\* Only threads' own steps and connections bear on the lists.
LEMMA ListingsStep == RelayTypeOK /\ Listings /\ [Next]_vars => Listings'
<1> SUFFICES ASSUME RelayTypeOK, Listings, [Next]_vars PROVE Listings'
  OBVIOUS
<1> USE RelayAssumption DEF storeVars, relayVars, Thread, Refresh
<1>0. \A r \in Relay : r # None BY DEF RelayAssumption
<1>1. ASSUME NEW r \in Relay, Connect(r) PROVE Listings'
  BY <1>1 DEF RelayTypeOK, Listings, Connect
<1>2. ASSUME NEW r \in Relay,
             \/ LoopReadsWallets(r) \/ LoopSubscribes(r) \/ \E e \in Event : Read(r, e)
             \/ Mark(r) \/ Execute(r) \/ Reply(r)
      PROVE  Listings'
  <2>1. UNCHANGED <<alive, listed, refresh>>
    BY <1>2 DEF LoopReadsWallets, LoopSubscribes, Read, Mark, Execute, Reply
  <2>2. \A q \in Relay : loop'[q].pc = "down" <=> loop[q].pc = "down"
    BY <1>2
    DEF RelayTypeOK, LoopReadsWallets, LoopSubscribes, Read, Mark, Execute, Reply
  <2> QED BY <2>1, <2>2 DEF Listings, RelayTypeOK
<1>3. ASSUME NEW r \in Relay, Disconnect(r) PROVE Listings'
  BY <1>0, <1>3 DEF RelayTypeOK, Listings, Disconnect, Down
<1>4. ASSUME NEW r \in Relay, Drop(r) PROVE Listings'
  BY <1>4 DEF Listings, Drop
<1>5. ASSUME NEW h \in Http, ListConnections(h) PROVE Listings'
  BY <1>0, <1>5 DEF RelayTypeOK, Listings, ListConnections
<1>6. ASSUME NEW h \in Http, NEW r \in Relay, RefreshReadsWallets(h, r) PROVE Listings'
  BY <1>6 DEF RelayTypeOK, Listings, RefreshReadsWallets
<1>7. ASSUME NEW h \in Http, RefreshSubscribes(h) PROVE Listings'
  BY <1>0, <1>7 DEF RelayTypeOK, Listings, RefreshSubscribes
<1>7a. ASSUME NEW h \in Http, RefreshFails(h) PROVE Listings'
  BY <1>0, <1>7a DEF RelayTypeOK, Listings, RefreshFails
<1>8. ASSUME NEW h \in Http, Refreshed(h) PROVE Listings'
  BY <1>0, <1>8 DEF RelayTypeOK, Listings, Refreshed, Free
<1>9. ASSUME NEW h \in Http, NEW w \in Wallet, CreateWallet(h, w) \/ DeleteWallet(h, w)
      PROVE  Listings'
  <2>1. /\ refresh' = [refresh EXCEPT ![h] = Refresh("listing", {}, None, {})]
        /\ UNCHANGED <<loop, listed, alive>>
    BY <1>9 DEF CreateWallet, DeleteWallet
  <2> QED BY <1>0, <2>1 DEF RelayTypeOK, Listings
<1>10. ASSUME \/ \E e \in Event, w \in Wallet : Publish(e, w)
              \/ \E e \in Event : Age(e)
              \/ UNCHANGED vars
       PROVE  Listings'
  BY <1>10 DEF Listings, Publish, Age, vars
<1>11. CASE Crash
  BY <1>0, <1>11 DEF Listings, Crash, Down, Free
<1> QED
  BY <1>1, <1>2, <1>3, <1>4, <1>5, <1>6, <1>7, <1>7a, <1>8, <1>9, <1>10, <1>11
  DEF Next, LoopStep, RefreshStep

\* A connection that was and is subscribed by one thread at a time stays up to
\* date: a new wallet makes it due, the thread that reads the wallets for it
\* finds the current ones, and nobody overtakes that thread.
LEMMA UpToDateStep ==
  ASSUME RelayTypeOK, Listings, [Next]_vars, NEW r \in Relay, r \in alive' \ raced',
         r \in alive \ raced => UpToDate(r)
  PROVE  UpToDate(r)'
<1> USE RelayAssumption DEF storeVars, relayVars, Thread, Refresh
<1>0. r # None BY DEF RelayAssumption
<1>1. CASE Connect(r)
  BY <1>0, <1>1 DEF RelayTypeOK, Listings, UpToDate, Connect
<1>2. ASSUME UpToDate(r), UNCHANGED <<live, refresh>>, sub'[r] = sub[r],
             r \in missed => r \in missed',
             \/ loop'[r] = loop[r]
             \/ /\ loop[r].pc \notin {"connected", "subscribing"}
                /\ loop'[r].pc \notin {"connected", "subscribing"}
      PROVE  UpToDate(r)'
  <2>1. Due(r)' <=> Due(r) BY <1>2 DEF Due
  <2> QED BY <1>2, <2>1 DEF UpToDate
<1>3. ASSUME NEW q \in Relay, q # r, LoopStep(q) PROVE UpToDate(r)'
  <2>1. CASE Disconnect(q)
    <3>1. /\ UpToDate(r) /\ loop'[r] = loop[r] /\ UNCHANGED <<live, sub, missed>>
          /\ refresh \in [Http -> [pc : {"idle", "listing", "refreshing", "subscribing"},
                                   todo : SUBSET Relay, relay : Relay \cup {None},
                                   snap : SUBSET Wallet]]
      BY <1>3, <2>1 DEF Disconnect, RelayTypeOK
    <3>2. \A h \in Http : /\ refresh'[h].pc = refresh[h].pc
                          /\ refresh'[h].snap = refresh[h].snap
                          /\ r \in refresh'[h].todo <=> r \in refresh[h].todo
                          /\ refresh'[h].relay = r <=> refresh[h].relay = r
      BY <1>0, <1>3, <2>1, <3>1 DEF Disconnect
    <3>3. Due(r)' <=> Due(r) BY <3>2 DEF Due
    <3> QED BY <3>1, <3>2, <3>3 DEF UpToDate
  <2>2. CASE Connect(q) BY <1>2, <1>3, <2>2 DEF Connect, RelayTypeOK
  <2>3. CASE LoopReadsWallets(q)
    BY <1>2, <1>3, <2>3 DEF LoopReadsWallets, NoteRace, RelayTypeOK
  <2>4. CASE LoopSubscribes(q)
    <3>1. sub'[r] = sub[r] /\ (r \in missed => r \in missed')
      BY <1>3, <2>4 DEF LoopSubscribes, Subscribe, RelayTypeOK
    <3> QED BY <1>2, <1>3, <2>4, <3>1 DEF LoopSubscribes, RelayTypeOK
  <2>5. CASE (\E e \in Event : Read(q, e)) \/ Mark(q) \/ Execute(q) \/ Reply(q)
    BY <1>2, <1>3, <2>5 DEF Read, Mark, Execute, Reply, RelayTypeOK
  <2> QED BY <1>3, <2>1, <2>2, <2>3, <2>4, <2>5 DEF LoopStep
<1>4. CASE LoopReadsWallets(r)
  <2>1. \A h \in Http : refresh[h].relay # r
    BY <1>0, <1>4 DEF LoopReadsWallets, NoteRace, Syncing, Listings
  <2>2. /\ loop'[r].pc = "subscribing" /\ loop'[r].snap = live
        /\ UNCHANGED <<live, refresh, sub>>
    BY <1>4 DEF LoopReadsWallets, RelayTypeOK
  <2> QED BY <2>1, <2>2 DEF UpToDate
<1>5. CASE LoopSubscribes(r)
  <2>1. r \in alive \ raced BY <1>5 DEF LoopSubscribes
  <2>2. /\ loop[r].pc = "subscribing" /\ loop'[r].pc = "reading"
        /\ UNCHANGED <<live, refresh>>
        /\ IF loop[r].snap # {} THEN sub'[r] = loop[r].snap ELSE sub'[r] = sub[r]
    BY <1>5, <2>1 DEF LoopSubscribes, Subscribe, RelayTypeOK
  <2>3. Due(r)' <=> Due(r) BY <2>2 DEF Due
  <2> QED BY <2>1, <2>2, <2>3 DEF UpToDate
<1>6. CASE (\E e \in Event : Read(r, e)) \/ Mark(r) \/ Execute(r) \/ Reply(r)
  BY <1>2, <1>6 DEF Read, Mark, Execute, Reply, RelayTypeOK
<1>7. CASE Disconnect(r) BY <1>7 DEF Disconnect
<1>8. ASSUME NEW q \in Relay, Drop(q) PROVE UpToDate(r)'
  BY <1>2, <1>8 DEF Drop, RelayTypeOK
<1>9. ASSUME NEW h \in Http, ListConnections(h) PROVE UpToDate(r)'
  <2>1. UpToDate(r) /\ r \in listed /\ loop[r].pc # "down"
    BY <1>9 DEF ListConnections, Listings, RelayTypeOK
  <2>2. /\ UNCHANGED <<live, sub, loop, missed>> /\ r \in refresh'[h].todo
        /\ refresh'[h].relay = None
        /\ \A g \in Http \ {h} : refresh'[g] = refresh[g]
    BY <1>9, <2>1 DEF ListConnections, RelayTypeOK
  <2>3. Due(r)' BY <2>2 DEF Due
  <2> QED BY <1>0, <2>1, <2>2, <2>3 DEF UpToDate
<1>10. ASSUME NEW h \in Http, NEW q \in Relay, RefreshReadsWallets(h, q)
       PROVE  UpToDate(r)'
  <2>1. /\ UNCHANGED <<live, sub, loop, missed>>
        /\ refresh'[h].pc = "subscribing" /\ refresh'[h].todo = refresh[h].todo \ {q}
        /\ refresh'[h].relay = q /\ refresh'[h].snap = live
        /\ \A g \in Http \ {h} : refresh'[g] = refresh[g]
        /\ refresh[h].relay = None /\ refresh[h].pc = "refreshing"
    BY <1>10 DEF RefreshReadsWallets, RelayTypeOK, Listings
  <2>2. UpToDate(r)
    BY <1>10 DEF RefreshReadsWallets, NoteRace
  <2>3. CASE q = r
    <3>1. ~Syncing(r) BY <1>10, <2>3 DEF RefreshReadsWallets, NoteRace
    <3>2. loop[r].pc # "subscribing" /\ \A g \in Http : refresh[g].relay # r
      BY <1>0, <3>1 DEF Syncing, Listings
    <3> QED BY <2>1, <2>2, <2>3, <3>2 DEF UpToDate
  <2>4. CASE q # r
    <3>1. Due(r) => Due(r)' BY <2>1, <2>4 DEF Due
    <3> QED BY <1>0, <2>1, <2>2, <2>4, <3>1 DEF UpToDate
  <2> QED BY <2>3, <2>4
<1>11. ASSUME NEW h \in Http, RefreshSubscribes(h) PROVE UpToDate(r)'
  <2>1. /\ UNCHANGED <<live, loop, alive>>
        /\ refresh[h].pc = "subscribing"
        /\ refresh'[h].pc = "refreshing" /\ refresh'[h].todo = refresh[h].todo
        /\ refresh'[h].relay = None
        /\ \A g \in Http \ {h} : refresh'[g] = refresh[g]
    BY <1>11 DEF RefreshSubscribes, RelayTypeOK
  <2>2. UpToDate(r) /\ r \in alive BY <1>11 DEF RefreshSubscribes
  <2>3. Due(r)' <=> Due(r) BY <2>1 DEF Due
  <2>4. CASE refresh[h].relay = r
    <3>1. IF refresh[h].snap # {} THEN sub'[r] = refresh[h].snap ELSE sub'[r] = sub[r]
      BY <1>0, <1>11, <2>2, <2>4 DEF RefreshSubscribes, Subscribe, RelayTypeOK
    <3>2. \A g \in Http \ {h} : refresh[g].relay # r BY <2>2, <2>4 DEF UpToDate
    <3>3. loop[r].pc # "subscribing" BY <2>2, <2>4 DEF UpToDate
    <3>4. Due(r) \/ loop[r].pc = "connected" \/ live \subseteq refresh[h].snap
      BY <2>2, <2>4 DEF UpToDate
    <3>5. Due(r) \/ loop[r].pc = "connected" \/ live \subseteq sub'[r]
      BY <3>1, <3>4
    <3> QED BY <1>0, <2>1, <2>3, <3>2, <3>3, <3>5 DEF UpToDate
  <2>5. CASE refresh[h].relay # r
    <3>1. sub'[r] = sub[r] /\ (r \in missed => r \in missed')
      BY <1>11, <2>5 DEF RefreshSubscribes, Subscribe, RelayTypeOK
    <3> QED BY <1>0, <2>1, <2>2, <2>3, <2>5, <3>1 DEF UpToDate
  <2> QED BY <2>4, <2>5
<1>11a. ASSUME NEW h \in Http, RefreshFails(h) PROVE UpToDate(r)'
  <2>1. /\ UNCHANGED <<live, loop, alive, sub>> /\ missed' = missed \cup {refresh[h].relay}
        /\ refresh[h].pc = "subscribing"
        /\ refresh'[h].pc = "refreshing" /\ refresh'[h].todo = refresh[h].todo
        /\ refresh'[h].relay = None
        /\ \A g \in Http \ {h} : refresh'[g] = refresh[g]
    BY <1>11a DEF RefreshFails, RelayTypeOK
  <2>2. UpToDate(r) BY <1>11a DEF RefreshFails
  <2>3. Due(r)' <=> Due(r) BY <2>1 DEF Due
  <2>4. CASE refresh[h].relay = r
    <3>1. \A g \in Http \ {h} : refresh[g].relay # r BY <2>2, <2>4 DEF UpToDate
    <3>2. r \in missed' /\ loop[r].pc # "subscribing" BY <2>1, <2>2, <2>4 DEF UpToDate
    <3> QED BY <1>0, <2>1, <2>3, <3>1, <3>2 DEF UpToDate
  <2>5. CASE refresh[h].relay # r
    BY <1>0, <2>1, <2>2, <2>3, <2>5 DEF UpToDate
  <2> QED BY <2>4, <2>5
<1>12. ASSUME NEW h \in Http, Refreshed(h) PROVE UpToDate(r)'
  <2>1. /\ UNCHANGED <<live, loop, alive, sub, missed>>
        /\ refresh[h].pc = "refreshing" /\ refresh[h].todo = {} /\ refresh[h].relay = None
        /\ refresh'[h] = Free
        /\ \A g \in Http \ {h} : refresh'[g] = refresh[g]
    BY <1>12 DEF Refreshed, RelayTypeOK, Listings
  <2>2. UpToDate(r) BY <1>12 DEF Refreshed
  <2>3. Free.todo = {} /\ Free.relay = None /\ Free.pc = "idle" BY DEF Free
  <2>4. Due(r)' <=> Due(r) BY <2>1, <2>3 DEF Due
  <2> QED BY <1>0, <2>1, <2>2, <2>3, <2>4 DEF UpToDate
<1>13. ASSUME NEW h \in Http, NEW w \in Wallet, CreateWallet(h, w) \/ DeleteWallet(h, w)
       PROVE  UpToDate(r)'
  <2>1. /\ refresh' = [refresh EXCEPT ![h] = Refresh("listing", {}, None, {})]
        /\ UNCHANGED <<loop, alive, sub, raced>>
    BY <1>13 DEF CreateWallet, DeleteWallet
  <2>2. refresh'[h].pc = "listing" /\ refresh'[h].relay = None
        /\ \A g \in Http \ {h} : refresh'[g] = refresh[g]
    BY <2>1 DEF RelayTypeOK
  <2>3. Due(r)' BY <2>2 DEF Due
  <2> QED BY <1>0, <2>1, <2>2, <2>3 DEF UpToDate
<1>14. CASE Crash BY <1>14 DEF Crash
<1>15. CASE \/ \E e \in Event, w \in Wallet : Publish(e, w)
            \/ \E e \in Event : Age(e)
            \/ UNCHANGED vars
  BY <1>2, <1>15 DEF Publish, Age, vars
<1> QED
  BY <1>1, <1>3, <1>4, <1>5, <1>6, <1>7, <1>8, <1>9, <1>10, <1>11, <1>11a, <1>12, <1>13,
     <1>14, <1>15
  DEF Next, LoopStep, RefreshStep

LEMMA UpToDateAllStep ==
  RelayTypeOK /\ UpToDateAll /\ [Next]_vars => RelayTypeOK' /\ UpToDateAll'
<1> SUFFICES ASSUME RelayTypeOK, UpToDateAll, [Next]_vars
             PROVE  RelayTypeOK' /\ UpToDateAll'
  OBVIOUS
<1>1. RelayTypeOK' BY RelayTypeStep
<1>2. Listings' BY ListingsStep DEF UpToDateAll
<1>3. alive' \subseteq Relay BY <1>1 DEF RelayTypeOK
<1>4. ASSUME NEW r \in alive' \ raced' PROVE UpToDate(r)'
  BY <1>3, <1>4, UpToDateStep DEF UpToDateAll
<1> QED BY <1>1, <1>2, <1>4 DEF UpToDateAll

\* Once the HTTP threads are done, every connection of one subscriber at a time
\* whose last refresh did not fail is subscribed for every wallet, with any number
\* of relays and threads.
THEOREM SubscriptionsAreCurrent == Spec => []SubscriptionsCurrent
<1>1. Init => RelayTypeOK /\ UpToDateAll
  BY RelayAssumption
  DEF Init, RelayTypeOK, UpToDateAll, Listings, Down, Free, Thread, Refresh
<1>2. RelayTypeOK /\ UpToDateAll => SubscriptionsCurrent
  <2> SUFFICES ASSUME RelayTypeOK, UpToDateAll, \A h \in Http : refresh[h] = Free,
                      NEW r \in alive \ (raced \cup missed),
                      loop[r].pc \notin {"connected", "subscribing"}
               PROVE  live \subseteq sub[r]
    BY DEF SubscriptionsCurrent
  <2>1. Free.todo = {} /\ Free.relay = None /\ Free.pc = "idle" BY DEF Free, Refresh
  <2>2. r # None BY RelayAssumption DEF RelayTypeOK
  <2>3. ~Due(r) /\ \A h \in Http : refresh[h].relay # r BY <2>1, <2>2 DEF Due
  <2> QED BY <2>3 DEF UpToDateAll, UpToDate
<1> QED BY <1>1, <1>2, UpToDateAllStep, PTL DEF Spec

-----------------------------------------------------------------------------
(* The connection: frames on a socket that threads share.                  *)

\* A frame is named by who sends it and what: the relay thread by its place and
\* the frame it answers, a notifying thread by its number of the notification.
Pc == {"connect", "info", "req", "read", "payload", "answer", "pong", "reply", "closed"}
Frame == (Notifier \cup Pc \cup {"none"}) \X Nat
FrameUnit == [frame : Frame, half : {1, 2}]
RelayUnit == [frame : Nat, half : {1, 2}]

Sending == [thread : Sender \cup {"nobody"}, frame : Frame, half : {1, 2}]
Place == [pc : Pc, frame : Nat]
Kind == {"text", "first", "more", "last", "ping", "pong", "close"}

SocketTypeOK ==
  /\ closed \in BOOLEAN /\ halfway \in BOOLEAN
  /\ frames \in Seq(Kind)
  /\ in \in Seq(RelayUnit)
  /\ worker \in Place
  /\ sending \in Sending
  /\ notes \in [Notifier -> Nat]
  /\ out \in Seq(FrameUnit)
  /\ parsed \in Seq(FrameUnit) /\ Len(parsed) <= 2

\* The units that belong together and have not been read together: the header
\* the relay has read and what is on its way to it.
Open == IF Len(parsed) = 1 THEN parsed ELSE <<>>
Stream == Open \o out

\* Every header is followed by the payload of its frame.
Paired(s) ==
  \A k \in DOMAIN s :
    IF k % 2 = 1 THEN s[k].half = 1 ELSE s[k].half = 2 /\ s[k].frame = s[k - 1].frame

\* A unit that may follow s: a header after whole frames, or the payload of the
\* header that s ends in.
Follows(unit, s) == IF Len(s) % 2 = 0
                    THEN unit.half = 1
                    ELSE unit.half = 2 /\ unit.frame = s[Len(s)].frame

\* What is sent and not yet read together is whole frames, and half a frame
\* exactly while a thread is inside that frame with the lock held.  A connection
\* that is closed may end anywhere, for nothing follows.
Framed ==
  /\ Paired(Stream)
  /\ closed \/ Follows(sending, Stream)
  /\ \A k \in DOMAIN parsed : parsed[k].half = k /\ parsed[k].frame = parsed[1].frame

FramesOK == halfway \/ Framed

LEMMA AtIsPlace ==
  ASSUME NEW n \in Nat
  PROVE  /\ At("closed", n) \in Place /\ At("info", n) \in Place
         /\ At("req", n) \in Place /\ At("read", n) \in Place
         /\ At("payload", n) \in Place /\ At("answer", n) \in Place
         /\ At("pong", n) \in Place /\ At("reply", n) \in Place
BY DEF At, Place, Pc

\* What a thread does when its frame is sent, or could not be.
LEMMA DoneType ==
  ASSUME NEW t, Sent(t) \/ Raised(t),
         worker \in Place, closed \in BOOLEAN, notes \in [Notifier -> Nat]
  PROVE  /\ worker' \in Place /\ closed' \in BOOLEAN
         /\ notes' \in [Notifier -> Nat]
         /\ closed => closed'
<1>1. CASE Sent(t)
  <2>1. CASE t = "worker"
    <3>1. CASE worker.pc = "info"
      BY <1>1, <2>1, <3>1, AtIsPlace DEF Sent, Work
    <3>2. CASE worker.pc # "info"
      BY <1>1, <2>1, <3>2, AtIsPlace DEF Sent, Work
    <3> QED BY <3>1, <3>2
  <2>2. CASE t # "worker"
    BY <1>1, <2>2 DEF Sent
  <2> QED BY <2>1, <2>2
<1>2. CASE t = "worker" /\ worker.pc # "info" /\ Raised(t)
  BY <1>2, AtIsPlace DEF Raised, Close
<1> QED BY <1>1, <1>2 DEF Raised

LEMMA SocketTypeStep == SocketTypeOK /\ [SocketNext]_socketVars => SocketTypeOK'
<1> SUFFICES ASSUME SocketTypeOK, SocketNext PROVE SocketTypeOK'
  BY DEF SocketTypeOK, socketVars, readVars, sendVars
<1>0. /\ in \in Seq(RelayUnit) /\ frames \in Seq(Kind) /\ out \in Seq(FrameUnit)
      /\ worker \in Place /\ closed \in BOOLEAN
      /\ notes \in [Notifier -> Nat]
      /\ sending \in Sending
      /\ sending.frame \in Frame /\ sending.half \in {1, 2}
  BY DEF SocketTypeOK, Sending
<1>f. NoSend \in Sending
  <2>1. <<"none", 0>> \in Frame BY DEF Frame
  <2> QED BY <2>1 DEF NoSend, Sending
<1>1. CASE RelayAccepts
  <2>1. <<Unit(0, 2)>> \in Seq(RelayUnit) BY DEF Unit, RelayUnit
  <2>2. in' \in Seq(RelayUnit) BY <1>1, <2>1 DEF RelayAccepts
  <2>3. UNCHANGED <<sendVars, closed, frames, worker, parsed>> BY <1>1 DEF RelayAccepts
  <2> QED BY <2>2, <2>3 DEF SocketTypeOK, sendVars
<1>2. CASE RelaySends
  <2>1. Allowed \subseteq Kind BY DEF Allowed, Kind
  <2>a. PICK kind \in Allowed : frames' = Append(frames, kind)
    BY <1>2 DEF RelaySends
  <2>2. kind \in Kind BY <2>1
  <2>3. frames' \in Seq(Kind) /\ Len(frames') \in Nat BY <1>0, <2>a, <2>2
  <2>4. Halves(Len(frames')) \in Seq(RelayUnit) BY <2>3 DEF Halves, Unit, RelayUnit
  <2>5. in' \in Seq(RelayUnit) BY <1>0, <1>2, <2>4 DEF RelaySends
  <2>6. UNCHANGED <<sendVars, closed, worker, parsed>> BY <1>2 DEF RelaySends
  <2> QED BY <2>3, <2>5, <2>6 DEF SocketTypeOK, sendVars
<1>3. CASE RelayReads
  <2>1. Head(out) \in FrameUnit /\ out' \in Seq(FrameUnit)
    BY <1>0, <1>3 DEF RelayReads
  <2>2. parsed' \in Seq(FrameUnit) /\ Len(parsed') <= 2
    <3>1. PICK unit \in FrameUnit : unit = Head(out) BY <2>1
    <3>2. parsed' = IF Len(parsed) = 1 THEN Append(parsed, unit) ELSE <<unit>>
      BY <1>3, <3>1 DEF RelayReads
    <3>3. parsed \in Seq(FrameUnit) BY DEF SocketTypeOK
    <3> QED BY <3>2, <3>3
  <2>3. UNCHANGED <<frames, in, closed, worker, sending, notes, halfway>>
    BY <1>3 DEF RelayReads, readVars
  <2> QED BY <2>1, <2>2, <2>3 DEF SocketTypeOK
<1>5. CASE Receive
  <2>1. in' \in Seq(RelayUnit)
    <3>1. CASE FinishUpgrade
      <4>1. PICK k \in 1..Len(in) : in' = SubSeq(in, k + 1, Len(in))
        BY <3>1 DEF FinishUpgrade
      <4>2. PICK m \in Int, n \in Int : m = k + 1 /\ n = Len(in) BY <1>0
      <4>3. ASSUME NEW i \in m..n PROVE in[i] \in RelayUnit
        <5>1. i \in 1..Len(in) BY <1>0, <4>2
        <5> QED BY <1>0, <5>1
      <4>4. SubSeq(in, m, n) \in Seq(RelayUnit) BY <1>0, <4>3, SubSeqProperties
      <4> QED BY <4>1, <4>2, <4>4
    <3>2. CASE ReadHeader \/ ReadGarbage \/ ReadPayload
      <4>1. in # <<>> /\ in' = Tail(in)
        BY <3>2 DEF ReadHeader, ReadGarbage, ReadPayload
      <4> QED BY <1>0, <4>1
    <3>3. CASE Answer \/ LoseConnection
      BY <1>0, <3>3 DEF Answer, LoseConnection, readVars
    <3> QED BY <1>5, <3>1, <3>2, <3>3 DEF Receive
  <2>2. worker' \in Place /\ closed' \in BOOLEAN
    <3>1. CASE FinishUpgrade
      BY <1>0, <3>1, AtIsPlace DEF FinishUpgrade, Work
    <3>2. CASE ReadHeader
      <4>1. Head(in) \in RelayUnit BY <1>0, <3>2 DEF ReadHeader
      <4>2. Head(in).frame \in Nat BY <4>1 DEF RelayUnit
      <4> QED BY <1>0, <3>2, <4>2, AtIsPlace DEF ReadHeader, Work
    <3>3. CASE ReadGarbage
      BY <1>0, <3>3, AtIsPlace DEF ReadGarbage, Close
    <3>4. CASE ReadPayload
      <4>1. worker.frame \in Nat BY <1>0 DEF Place
      <4>2. PICK n \in Nat : n = worker.frame BY <4>1
      <4>3. Payload(n) BY <3>4, <4>2 DEF ReadPayload
      <4>4. Close \/ Work("answer", n) \/ Work("read", 0) \/ Work("pong", n)
        BY <4>3 DEF Payload
      <4> QED BY <1>0, <4>4, AtIsPlace DEF Close, Work
    <3>5. CASE Answer
      <4>1. worker.frame \in Nat BY <1>0 DEF Place
      <4> QED BY <1>0, <3>5, <4>1, AtIsPlace DEF Answer, Work
    <3>6. CASE LoseConnection
      BY <1>0, <3>6, AtIsPlace DEF LoseConnection, Close
    <3> QED BY <1>5, <3>1, <3>2, <3>3, <3>4, <3>5, <3>6 DEF Receive
  <2>3. UNCHANGED <<frames, sendVars, parsed>>
    BY <1>5 DEF Receive, FinishUpgrade, ReadHeader, ReadGarbage, ReadPayload, Answer,
                LoseConnection, readVars
  <2> QED BY <2>1, <2>2, <2>3 DEF SocketTypeOK, sendVars
<1>6. CASE Put
  <2>1. PICK unit \in FrameUnit : unit = Unit(sending.frame, sending.half)
    BY <1>0 DEF Unit, FrameUnit
  <2>2. out' \in Seq(FrameUnit) BY <1>0, <1>6, <2>1 DEF Put
  <2>3. /\ worker' \in Place /\ closed' \in BOOLEAN
        /\ notes' \in [Notifier -> Nat]
    <3>1. CASE sending.half = 1 BY <1>0, <1>6, <3>1 DEF Put
    <3>2. CASE sending.half # 1
      <4>1. Sent(sending.thread) BY <1>6, <3>2 DEF Put
      <4> QED BY <1>0, <4>1, DoneType
    <3> QED BY <3>1, <3>2
  <2>4. sending' \in Sending
    <3>1. CASE sending.half = 1
      BY <1>0, <1>6, <3>1 DEF Put, Sending
    <3>2. CASE sending.half # 1
      BY <1>f, <1>6, <3>2 DEF Put
    <3> QED BY <3>1, <3>2
  <2>5. UNCHANGED <<frames, in, parsed, halfway>> BY <1>6 DEF Put, readVars
  <2> QED BY <2>2, <2>3, <2>4, <2>5 DEF SocketTypeOK
<1>7. CASE GiveUp
  <2>1. Raised(sending.thread) /\ sending' = NoSend BY <1>7 DEF GiveUp
  <2>2. /\ worker' \in Place /\ closed' \in BOOLEAN
        /\ notes' \in [Notifier -> Nat]
    BY <1>0, <2>1, DoneType
  <2>3. sending' \in Sending BY <2>1, <1>f
  <2>4. halfway' \in BOOLEAN BY <1>7 DEF GiveUp, SocketTypeOK
  <2>5. UNCHANGED <<frames, in, out, parsed>> BY <1>7 DEF GiveUp, readVars
  <2> QED BY <2>2, <2>3, <2>4, <2>5 DEF SocketTypeOK
<1>8. ASSUME NEW t \in Sender, Send(t) PROVE SocketTypeOK'
  <2>1. CASE Acquire(t)
    <3>1. Wants(t) \in Frame
      <4>1. CASE t = "worker" BY <1>0, <4>1 DEF Wants, Frame, Place
      <4>2. CASE t # "worker" BY <1>0, <1>8, <4>2 DEF Wants, Frame, Sender
      <4> QED BY <4>1, <4>2
    <3>2. sending' = [thread |-> t, frame |-> Wants(t), half |-> 1]
      BY <2>1 DEF Acquire
    <3>3. sending' \in Sending BY <1>8, <3>1, <3>2 DEF Sending
    <3>4. UNCHANGED <<frames, in, closed, worker, notes, out, parsed, halfway>>
      BY <2>1 DEF Acquire, readVars
    <3> QED BY <3>3, <3>4 DEF SocketTypeOK
  <2>2. CASE SendOnClosed(t)
    <3>1. /\ worker' \in Place /\ closed' \in BOOLEAN
          /\ notes' \in [Notifier -> Nat]
      BY <1>0, <2>2, DoneType DEF SendOnClosed
    <3>2. UNCHANGED <<frames, in, sending, out, parsed, halfway>>
      BY <2>2 DEF SendOnClosed, readVars
    <3> QED BY <3>1, <3>2 DEF SocketTypeOK
  <2> QED BY <1>8, <2>1, <2>2 DEF Send
<1> QED BY <1>1, <1>2, <1>3, <1>5, <1>6, <1>7, <1>8 DEF SocketNext

\* Facts about sequences.
LEMMA HeadThenTail ==
  ASSUME NEW S, NEW s \in Seq(S), s # <<>>
  PROVE  s = <<Head(s)>> \o Tail(s)
<1>1. s = SubSeq(s, 1, Len(s)) /\ Len(s) \in Nat /\ Len(s) >= 1 OBVIOUS
<1>2. PICK n \in Nat : n = Len(s) BY <1>1
<1>3. SubSeq(s, 1, n) = <<s[1]>> \o SubSeq(s, 1 + 1, n)
  <2>1. 1 \in 1..Len(s) /\ n \in 1..Len(s) BY <1>1, <1>2
  <2> QED BY <2>1, SubSeqRecursiveFirst
<1>4. Head(s) = s[1] OBVIOUS
<1>5. Tail(s) = SubSeq(s, 2, n) BY <1>2, TailIsSubSeq
<1>6. 1 + 1 = 2 OBVIOUS
<1> QED BY <1>1, <1>2, <1>3, <1>4, <1>5, <1>6

LEMMA Appended ==
  ASSUME NEW S, NEW s \in Seq(S), NEW e \in S, NEW n \in Nat, n = Len(s)
  PROVE  /\ Append(s, e) \in Seq(S)
         /\ Len(Append(s, e)) = n + 1
         /\ \A k \in 1..n : Append(s, e)[k] = s[k]
         /\ Append(s, e)[n + 1] = e
OBVIOUS

LEMMA AppendedToOne ==
  ASSUME NEW S, NEW s \in Seq(S), NEW e \in S, Len(s) = 1
  PROVE  /\ Append(s, e) \in Seq(S)
         /\ Len(Append(s, e)) = 2
         /\ Append(s, e)[1] = s[1] /\ Append(s, e)[2] = e
<1>1. PICK n \in Nat : n = Len(s) OBVIOUS
<1>2. 1 \in 1..n /\ n + 1 = 2 BY <1>1
<1>3. /\ Append(s, e) \in Seq(S)
      /\ Len(Append(s, e)) = n + 1
      /\ \A k \in 1..n : Append(s, e)[k] = s[k]
      /\ Append(s, e)[n + 1] = e
  BY ONLY <1>1, s \in Seq(S), e \in S, Appended
<1>4. Append(s, e)[1] = s[1] BY <1>2, <1>3
<1>5. Append(s, e)[2] = e /\ Len(Append(s, e)) = 2 BY <1>2, <1>3, Zenon
<1> QED BY <1>3, <1>4, <1>5

LEMMA FirstTwo ==
  ASSUME NEW S, NEW s \in Seq(S), NEW rest \in Seq(S), Len(s) = 2
  PROVE  /\ 1 \in DOMAIN (s \o rest) /\ 2 \in DOMAIN (s \o rest)
         /\ (s \o rest)[1] = s[1] /\ (s \o rest)[2] = s[2]
<1>1. /\ s \o rest \in Seq(S)
      /\ Len(s \o rest) = Len(s) + Len(rest)
      /\ \A k \in 1..Len(s) + Len(rest) :
           (s \o rest)[k] = IF k <= Len(s) THEN s[k] ELSE rest[k - Len(s)]
  BY ConcatProperties, Zenon
<1>2. PICK n \in Nat : n = Len(rest) OBVIOUS
<1>3. 1 \in 1..2 + n /\ 2 \in 1..2 + n /\ 2 <= 2 /\ 1 <= 2 OBVIOUS
<1>4. (s \o rest)[1] = s[1] /\ (s \o rest)[2] = s[2] BY <1>1, <1>2, <1>3
<1> QED BY <1>1, <1>2, <1>3, <1>4

LEMMA PairedAppend ==
  ASSUME NEW s \in Seq(FrameUnit), NEW unit \in FrameUnit, Paired(s), Follows(unit, s)
  PROVE  Paired(Append(s, unit))
<1>1. ASSUME NEW k \in DOMAIN Append(s, unit)
      PROVE  IF k % 2 = 1 THEN Append(s, unit)[k].half = 1
             ELSE /\ Append(s, unit)[k].half = 2
                  /\ Append(s, unit)[k].frame = Append(s, unit)[k - 1].frame
  <2>1. CASE k \in 1..Len(s)
    <3>1. k % 2 = 1 \/ k - 1 \in 1..Len(s) BY <2>1
    <3> QED BY <2>1, <3>1 DEF Paired
  <2>2. CASE k = Len(s) + 1
    <3>1. Append(s, unit)[k] = unit BY <2>2
    <3>2. Len(s) % 2 = 0 => k % 2 = 1 BY <2>2
    <3>3. Len(s) % 2 # 0 => k % 2 # 1 /\ Append(s, unit)[k - 1] = s[Len(s)]
      BY <2>2
    <3> QED BY <3>1, <3>2, <3>3 DEF Follows
  <2> QED BY <2>1, <2>2
<1> QED BY <1>1 DEF Paired

\* The two halves of the first frame can be taken away.
LEMMA PairedRest ==
  ASSUME NEW s \in Seq(FrameUnit), NEW first \in Seq(FrameUnit), Len(first) = 2,
         Paired(first \o s)
  PROVE  /\ Paired(s)
         /\ \A unit : Follows(unit, first \o s) => Follows(unit, s)
<1> DEFINE both == first \o s
<1>a. /\ both \in Seq(FrameUnit) /\ Len(both) = Len(s) + 2
      /\ \A k \in 1..Len(both) : both[k] = IF k <= 2 THEN first[k] ELSE s[k - 2]
  <2>1. /\ both \in Seq(FrameUnit)
        /\ Len(both) = Len(first) + Len(s)
        /\ \A k \in 1..(Len(first) + Len(s)) :
             both[k] = IF k <= Len(first) THEN first[k] ELSE s[k - Len(first)]
    BY ConcatProperties, Zenon
  <2> HIDE DEF both
  <2>2. Len(s) \in Nat OBVIOUS
  <2>3. PICK n \in Nat : n = Len(s) BY <2>2
  <2>4. Len(both) = n + 2 /\ 1..(2 + n) = 1..(n + 2) BY <2>1, <2>3
  <2>5. \A k \in 1..(n + 2) : both[k] = IF k <= 2 THEN first[k] ELSE s[k - 2]
    BY <2>1, <2>3, <2>4
  <2> QED BY <2>1, <2>3, <2>4, <2>5
<1>b. Paired(both) OBVIOUS
<1> HIDE DEF both
<1>1. Paired(s)
  <2>1. ASSUME NEW k \in DOMAIN s
        PROVE  IF k % 2 = 1 THEN s[k].half = 1
               ELSE s[k].half = 2 /\ s[k].frame = s[k - 1].frame
    <3>1. k + 2 \in DOMAIN both /\ both[k + 2] = s[k] BY <1>a
    <3>2. (k + 2) % 2 = k % 2 OBVIOUS
    <3>3. k % 2 # 1 => both[(k + 2) - 1] = s[k - 1]
      <4>1. ASSUME k % 2 # 1 PROVE k # 1 BY <4>1
      <4> QED BY <1>a, <4>1
    <3> QED BY <1>b, <3>1, <3>2, <3>3 DEF Paired
  <2> QED BY <2>1 DEF Paired
<1>2. ASSUME NEW unit, Follows(unit, both) PROVE Follows(unit, s)
  <2>1. (Len(s) + 2) % 2 = Len(s) % 2 OBVIOUS
  <2>2. Len(s) % 2 # 0 => both[Len(both)] = s[Len(s)]
    <3>1. ASSUME Len(s) % 2 # 0 PROVE Len(s) # 0 BY <3>1
    <3> QED BY <1>a, <3>1
  <2> QED BY <1>2, <1>a, <2>1, <2>2 DEF Follows
<1> QED BY <1>1, <1>2 DEF both

\* Reading a unit takes a whole frame out of the stream or leaves it as it is.
LEMMA ReadKeepsFramed ==
  ASSUME SocketTypeOK, Framed, RelayReads PROVE Framed'
<1>0. /\ parsed \in Seq(FrameUnit) /\ Len(parsed) <= 2 /\ out \in Seq(FrameUnit)
  BY DEF SocketTypeOK
<1>f. /\ Paired(Stream)
      /\ closed \/ Follows(sending, Stream)
      /\ \A k \in DOMAIN parsed : parsed[k].half = k /\ parsed[k].frame = parsed[1].frame
  BY DEF Framed
<1>1. PICK unit \in FrameUnit, rest \in Seq(FrameUnit) :
        unit = Head(out) /\ rest = Tail(out)
  <2>1. out # <<>> BY DEF RelayReads
  <2> QED BY <1>0, <2>1, HeadTailProperties
<1>o. out = <<unit>> \o rest
  <2>1. out # <<>> BY DEF RelayReads
  <2>2. out = <<Head(out)>> \o Tail(out) BY <1>0, <2>1, HeadThenTail
  <2> QED BY <1>1, <2>2
<1>2. /\ out' = rest
      /\ parsed' = IF Len(parsed) = 1 THEN Append(parsed, unit) ELSE <<unit>>
      /\ UNCHANGED <<closed, sending>>
  BY <1>1 DEF RelayReads
<1>3. CASE Len(parsed) = 1
  <2>1. PICK whole \in Seq(FrameUnit) : whole = Append(parsed, unit)
    BY <1>0, <1>3, AppendedToOne
  <2>2. Len(whole) = 2 /\ whole[1] = parsed[1] /\ whole[2] = unit
    BY <1>0, <1>3, <2>1, AppendedToOne
  <2>3. parsed' = whole BY <1>2, <1>3, <2>1
  <2>4. Stream = whole \o rest
    <3>1. Stream = parsed \o (<<unit>> \o rest) BY <1>3, <1>o DEF Stream, Open
    <3>2. parsed \o (<<unit>> \o rest) = Append(parsed, unit) \o rest
      BY <1>0
    <3> QED BY <2>1, <3>1, <3>2
  <2>5. Stream' = rest
    <3>1. Open' = <<>> BY <2>2, <2>3 DEF Open
    <3> QED BY <1>2, <3>1 DEF Stream
  <2>6. Paired(whole \o rest) BY <1>f, <2>4
  <2>7. Paired(rest) /\ (Follows(sending, whole \o rest) => Follows(sending, rest))
    BY <2>2, <2>6, PairedRest
  <2>8. whole[1].half = 1 /\ whole[2].half = 2 /\ whole[2].frame = whole[1].frame
    <3>1. PICK both : both = whole \o rest OBVIOUS
    <3>2. /\ 1 \in DOMAIN both /\ 2 \in DOMAIN both
          /\ both[1] = whole[1] /\ both[2] = whole[2]
      BY <2>2, <3>1, FirstTwo
    <3>3. Paired(both) BY <2>6, <3>1
    <3>4. 1 % 2 = 1 /\ 2 % 2 # 1 /\ 2 - 1 = 1 OBVIOUS
    <3>5. both[1].half = 1 BY <3>2, <3>3, <3>4 DEF Paired
    <3>6. both[2].half = 2 /\ both[2].frame = both[2 - 1].frame
      BY <3>2, <3>3, <3>4 DEF Paired
    <3> QED BY <3>2, <3>4, <3>5, <3>6
  <2>9. \A k \in DOMAIN whole : whole[k].half = k /\ whole[k].frame = whole[1].frame
    BY <2>2, <2>8
  <2> QED BY <1>f, <1>2, <2>3, <2>4, <2>5, <2>7, <2>9 DEF Framed
<1>4. CASE Len(parsed) # 1
  <2>1. parsed' = <<unit>> BY <1>2, <1>4
  <2>2. Stream = out BY <1>0, <1>4 DEF Stream, Open
  <2>3. Stream' = out
    <3>1. Open' = <<unit>> BY <2>1 DEF Open
    <3> QED BY <1>2, <1>o, <3>1 DEF Stream
  <2>4. unit.half = 1
    <3>1. Len(out) >= 1 /\ out[1] = unit BY <1>0, <1>o
    <3> QED BY <1>f, <1>0, <2>2, <3>1 DEF Paired
  <2>5. \A k \in DOMAIN <<unit>> :
          <<unit>>[k].half = k /\ <<unit>>[k].frame = <<unit>>[1].frame
    BY <2>4
  <2> QED BY <1>f, <1>2, <2>1, <2>2, <2>3, <2>5 DEF Framed
<1> QED BY <1>3, <1>4

\* No step reopens a connection or forgets that a send gave up inside a frame;
\* the holder of the lock writes the unit that follows, and the lock is free
\* again after the payload only.
LEMMA FramesStep == SocketTypeOK /\ FramesOK /\ [SocketNext]_socketVars => FramesOK'
<1> SUFFICES ASSUME SocketTypeOK, FramesOK, SocketNext PROVE FramesOK'
  BY DEF FramesOK, Framed, Stream, Open, socketVars, readVars, sendVars
<1>0. /\ parsed \in Seq(FrameUnit) /\ out \in Seq(FrameUnit)
      /\ worker \in Place /\ closed \in BOOLEAN /\ notes \in [Notifier -> Nat]
      /\ sending \in Sending
      /\ sending.frame \in Frame /\ sending.half \in {1, 2}
  BY DEF SocketTypeOK, Sending
<1>1. Stream \in Seq(FrameUnit)
  BY <1>0 DEF Stream, Open
<1>2. halfway => halfway'
  BY DEF SocketNext, RelayAccepts, RelaySends, RelayReads, Receive, FinishUpgrade,
         ReadHeader, ReadGarbage, ReadPayload, Answer, LoseConnection, Put, GiveUp,
         Send, Acquire, SendOnClosed, sendVars
<1> SUFFICES ASSUME Framed PROVE FramesOK'
  BY <1>2 DEF FramesOK
<1>f. /\ Paired(Stream)
      /\ closed \/ Follows(sending, Stream)
      /\ \A k \in DOMAIN parsed : parsed[k].half = k /\ parsed[k].frame = parsed[1].frame
  BY DEF Framed
<1>s. ASSUME UNCHANGED <<out, parsed>>, closed' \/ Follows(sending', Stream)
      PROVE  FramesOK'
  BY <1>f, <1>s DEF FramesOK, Framed, Stream, Open
<1>3. CASE RelayAccepts \/ RelaySends \/ Receive
  <2>1. UNCHANGED <<out, parsed, sending>>
    BY <1>3 DEF RelayAccepts, RelaySends, Receive, FinishUpgrade, ReadHeader, ReadGarbage,
                ReadPayload, Answer, LoseConnection, sendVars
  <2>2. closed => closed'
    BY <1>3 DEF RelayAccepts, RelaySends, Receive, FinishUpgrade, ReadHeader, ReadGarbage,
                ReadPayload, Payload, Answer, LoseConnection, Work, Close
  <2> QED BY <1>f, <1>s, <2>1, <2>2
<1>4. CASE RelayReads
  BY <1>4, ReadKeepsFramed DEF FramesOK
<1>5. CASE Put
  <2>1. PICK unit \in FrameUnit : unit = Unit(sending.frame, sending.half)
    BY <1>0 DEF Unit, FrameUnit
  <2>2. unit.frame = sending.frame /\ unit.half = sending.half
    BY <2>1 DEF Unit
  <2>3. Follows(unit, Stream)
    BY <1>5, <1>f, <2>2 DEF Put, Follows
  <2>4. out' = Append(out, unit) /\ parsed' = parsed
    BY <1>5, <2>1 DEF Put
  <2>5. Stream' = Append(Stream, unit)
    <3>0. Open \in Seq(FrameUnit) BY <1>0 DEF Open
    <3>1. PICK o \in Seq(FrameUnit), q \in Seq(FrameUnit) : o = Open /\ q = out
      BY <1>0, <3>0
    <3>2. /\ Append(q, unit) = q \o <<unit>>
          /\ Append(o \o q, unit) = (o \o q) \o <<unit>>
      BY AppendIsConcat
    <3>3. (o \o q) \o <<unit>> = o \o (q \o <<unit>>) BY ConcatAssociative
    <3>4. Open' = o BY <2>4, <3>1 DEF Open
    <3> QED BY <2>4, <3>1, <3>2, <3>3, <3>4 DEF Stream
  <2>6. Paired(Stream')
    <3>1. PICK s \in Seq(FrameUnit) : s = Stream BY <1>1
    <3>2. Paired(s) /\ Follows(unit, s) BY <1>f, <2>3, <3>1
    <3>3. Paired(Append(s, unit)) BY <3>2, PairedAppend
    <3> QED BY <2>5, <3>1, <3>3
  <2>7. Follows(sending', Append(Stream, unit))
    <3>1. PICK s \in Seq(FrameUnit), n \in Nat : s = Stream /\ n = Len(s) BY <1>1
    <3>2. /\ Len(Append(s, unit)) = n + 1
          /\ Append(s, unit)[n + 1] = unit
      BY <3>1
    <3>3. CASE sending.half = 1
      <4>1. sending'.half = 2 /\ sending'.frame = sending.frame
        BY <1>0, <1>5, <3>3 DEF Put, Sending
      <4>2. n % 2 = 0 BY <2>2, <2>3, <3>1, <3>3 DEF Follows
      <4>3. (n + 1) % 2 # 0 BY <4>2
      <4> QED BY <2>2, <3>1, <3>2, <4>1, <4>3 DEF Follows
    <3>4. CASE sending.half = 2
      <4>1. sending'.half = 1 BY <1>5, <3>4 DEF Put, NoSend
      <4>2. n % 2 # 0 BY <2>2, <2>3, <3>1, <3>4 DEF Follows
      <4>3. (n + 1) % 2 = 0 BY <4>2
      <4> QED BY <3>1, <3>2, <4>1, <4>3 DEF Follows
    <3> QED BY <1>0, <3>3, <3>4
  <2> QED BY <1>f, <2>4, <2>5, <2>6, <2>7 DEF FramesOK, Framed
<1>6. CASE GiveUp
  <2>1. Raised(sending.thread) /\ sending' = NoSend /\ UNCHANGED <<out, parsed>>
    BY <1>6 DEF GiveUp
  <2>2. closed => closed' BY <1>0, <2>1, DoneType
  <2>3. CASE closed' BY <1>s, <2>1, <2>3
  <2>4. CASE ~closed' /\ sending.half = 2
    BY <1>6, <2>2, <2>4 DEF GiveUp, FramesOK
  <2>5. CASE ~closed' /\ sending.half = 1
    <3>1. Follows(sending, Stream) BY <1>f, <2>2, <2>5
    <3>2. Follows(NoSend, Stream) BY <2>5, <3>1 DEF Follows, NoSend
    <3> QED BY <1>s, <2>1, <3>2
  <2> QED BY <1>0, <2>3, <2>4, <2>5
<1>7. ASSUME NEW t \in Sender, Send(t) PROVE FramesOK'
  <2>1. CASE Acquire(t)
    <3>1. /\ UNCHANGED <<out, parsed, closed>>
          /\ sending = NoSend /\ sending'.half = 1
      BY <2>1 DEF Acquire
    <3>2. closed \/ Follows(sending', Stream) BY <1>f, <3>1 DEF Follows, NoSend
    <3> QED BY <1>s, <3>1, <3>2
  <2>2. CASE SendOnClosed(t)
    <3>1. UNCHANGED <<out, parsed, sending>> /\ Raised(t) /\ closed
      BY <2>2 DEF SendOnClosed
    <3>2. closed' BY <1>0, <3>1, DoneType
    <3> QED BY <1>s, <3>1, <3>2
  <2> QED BY <1>7, <2>1, <2>2 DEF Send
<1> QED BY <1>3, <1>4, <1>5, <1>6, <1>7 DEF SocketNext

\* Types of the connection's state: whatever the relay sends, the daemon stays in
\* one of the places of its loop and answers a frame the relay sent.
THEOREM SocketTypeCorrect == SocketSpec => []SocketTypeOK
<1>1. SocketInit => SocketTypeOK
  <2> SUFFICES ASSUME SocketInit PROVE SocketTypeOK
    OBVIOUS
  <2>1. NoSend \in Sending BY DEF NoSend, Sending, Frame
  <2>2. worker \in Place BY AtIsPlace, SMT DEF SocketInit, At, Place, Pc
  <2>3. notes \in [Notifier -> Nat] BY DEF SocketInit
  <2>4. /\ closed \in BOOLEAN /\ halfway \in BOOLEAN /\ sending = NoSend
        /\ frames = <<>> /\ in = <<>> /\ out = <<>> /\ parsed = <<>>
    BY DEF SocketInit
  <2> QED BY <2>1, <2>2, <2>3, <2>4 DEF SocketTypeOK
<1> QED BY <1>1, SocketTypeStep, PTL DEF SocketSpec

\* Whatever the threads of the daemon send on a connection they share, and
\* however often a send ends for want of room, the relay reads whole frames that
\* were sent, unless a send gave up inside a frame and the connection was kept
\* (send_text under _send_lock, and the excepts that pass over a failed send).
THEOREM FramesWhole == SocketSpec => []FramesAreWhole
<1>1. SocketInit => FramesOK
  BY DEF SocketInit, FramesOK, Framed, Paired, Stream, Open, Follows, NoSend
<1>2. SocketTypeOK /\ FramesOK => FramesAreWhole
  <2> SUFFICES ASSUME SocketTypeOK, Framed, NEW k \in DOMAIN parsed
               PROVE  parsed[k] = Unit(parsed[1].frame, k)
    BY DEF FramesOK, FramesAreWhole
  <2>1. parsed[k] \in FrameUnit BY DEF SocketTypeOK
  <2>2. parsed[k].half = k /\ parsed[k].frame = parsed[1].frame BY DEF Framed
  <2> QED BY <2>1, <2>2 DEF FrameUnit, Unit
<1> QED BY <1>1, <1>2, SocketTypeCorrect, FramesStep, PTL DEF SocketSpec
-----------------------------------------------------------------------------
(* The connection: messages read from it.                                  *)

Message == Seq(Nat) \ {<<>>}
ReadTypeOK == fragments \in Seq(Nat) /\ messages \in Seq(Message)

\* The frame that the last message ended with.
LastEnd == EndBefore(Len(messages) + 1)

\* Where the relay thread is between two frames: inside one, or before the relay's
\* answer to the upgrade, which came before the first.
Inside == IF worker.pc = "connect" THEN -1 ELSE IF worker.pc = "payload" THEN 1 ELSE 0

\* What is on its way when frames 1 to r have been read, and h units after them.
Coming(r, h) ==
  /\ Len(in) = 2 * (Len(frames) - r) - h
  /\ \A k \in DOMAIN in : /\ in[k].frame = r + (k + h + 1) \div 2
                          /\ in[k].half = 2 - ((k + h) % 2)

\* The fragments are the data frames read since the last message, none of them
\* the end of one.
Collected(r) ==
  /\ Ascending(fragments)
  /\ ToSet(fragments) = {i \in DOMAIN frames : IsData(i) /\ LastEnd < i /\ i <= r}
  /\ \A i \in ToSet(fragments) : ~EndsMessage(i)
  /\ LastEnd <= r

ReadUpTo(r) == /\ accepted
               /\ Coming(r, Inside)
               /\ Collected(r)
               /\ worker.pc = "payload" => worker.frame = r + 1
               /\ worker.pc = "connect" => r = 0

\* The relay's answer is still to come.
Asking == /\ worker.pc = "connect" /\ ~accepted
          /\ frames = <<>> /\ in = <<>> /\ fragments = <<>> /\ messages = <<>>

Reading == \/ closed
           \/ Asking
           \/ \E r \in 0..Len(frames) : ReadUpTo(r)

AllThose == \A k \in DOMAIN messages : IsMessage(messages[k], EndBefore(k))

\* Only a thread that has nothing to read sends, and nothing is read any more
\* from a connection that is closed.
ReadingOK ==
  /\ closed => worker.pc = "closed"
  /\ sending.thread = "worker" => worker.pc \in {"info", "req", "pong", "reply", "closed"}
  /\ worker.pc = "connect" => ~leftover
  /\ leftover \/ (AllThose /\ Reading)

LEMMA Halving ==
  ASSUME NEW n \in Nat
  PROVE  /\ (n + 2) \div 2 = (n \div 2) + 1 /\ (n + 2) % 2 = n % 2
         /\ (2 * n) \div 2 = n /\ (2 * n) % 2 = 0
         /\ (2 * n + 1) \div 2 = n /\ (2 * n + 1) % 2 = 1
OBVIOUS

LEMMA AscendingAppend ==
  ASSUME NEW s \in Seq(Nat), NEW e \in Nat, Ascending(s), \A x \in ToSet(s) : x < e
  PROVE  /\ Append(s, e) \in Message
         /\ Ascending(Append(s, e))
         /\ ToSet(Append(s, e)) = ToSet(s) \cup {e}
         /\ Last(Append(s, e)) = e
<1>1. PICK n \in Nat : n = Len(s) OBVIOUS
<1>2. PICK m \in Seq(Nat) : m = Append(s, e)
  BY ONLY <1>1, s \in Seq(Nat), e \in Nat, Appended
<1>3. /\ Len(m) = n + 1 /\ m[n + 1] = e
      /\ \A k \in 1..n : m[k] = s[k]
  BY <1>1, <1>2
<1>4. DOMAIN s = 1..n /\ DOMAIN m = 1..(n + 1)
  BY <1>1, <1>3
<1>5. \A k \in 1..(n + 1) : k \in 1..n \/ k = n + 1
  OBVIOUS
<1>6. ASSUME NEW k \in 1..n PROVE m[k] \in Nat /\ m[k] < e
  <2>1. s[k] \in Nat BY <1>4
  <2>2. s[k] \in ToSet(s) BY <1>4 DEF ToSet
  <2>3. s[k] < e BY <2>2
  <2> QED BY <1>3, <2>1, <2>3
<1>7. Ascending(m)
  <2> SUFFICES ASSUME NEW i \in 1..(n + 1), NEW j \in 1..(n + 1), i < j PROVE m[i] < m[j]
    BY <1>4 DEF Ascending
  <2>1. i \in 1..n OBVIOUS
  <2>2. CASE j \in 1..n
    BY <1>3, <1>4, <2>1, <2>2 DEF Ascending
  <2>3. CASE j = n + 1
    BY <1>3, <1>6, <2>1, <2>3
  <2> QED BY <2>2, <2>3
<1>8. ToSet(m) = ToSet(s) \cup {e}
  <2>1. ASSUME NEW x PROVE x \in ToSet(m) <=> x \in ToSet(s) \/ x = e
    <3>1. ASSUME x \in ToSet(m) PROVE x \in ToSet(s) \/ x = e
      <4>1. PICK k \in 1..(n + 1) : x = m[k] BY <1>4, <3>1 DEF ToSet
      <4> QED BY <1>3, <1>4, <1>5, <4>1 DEF ToSet
    <3>2. ASSUME x \in ToSet(s) PROVE x \in ToSet(m)
      <4>1. PICK k \in 1..n : x = s[k] BY <1>4, <3>2 DEF ToSet
      <4>2. k \in 1..(n + 1) OBVIOUS
      <4> QED BY <1>3, <1>4, <4>1, <4>2 DEF ToSet
    <3>3. e \in ToSet(m)
      <4>1. n + 1 \in 1..(n + 1) OBVIOUS
      <4> QED BY <1>3, <1>4, <4>1 DEF ToSet
    <3> QED BY <3>1, <3>2, <3>3
  <2> QED BY <2>1
<1>9. m # <<>> BY <1>3
<1> QED BY <1>2, <1>3, <1>7, <1>8, <1>9 DEF Message, Last

\* A unit that is taken was the next one.
LEMMA ComingTaken ==
  ASSUME NEW r \in Nat, NEW h \in {-1, 0, 1},
         in \in Seq(RelayUnit), frames \in Seq(Kind),
         Coming(r, h), in # <<>>, in' = Tail(in), frames' = frames
  PROVE  /\ h = 1 => Coming(r + 1, 0)'
         /\ h # 1 => Coming(r, h + 1)'
<1>1. PICK rest \in Seq(RelayUnit), n \in Nat :
        rest = Tail(in) /\ n = Len(rest) /\ Len(in) = n + 1
  <2>1. Tail(in) \in Seq(RelayUnit) /\ Len(in) \in Nat
    BY HeadTailProperties
  <2>2. Len(Tail(in)) = Len(in) - 1 BY HeadTailProperties
  <2>3. PICK rest \in Seq(RelayUnit) : rest = Tail(in) BY <2>1
  <2>4. PICK n \in Nat : n = Len(rest) OBVIOUS
  <2>5. Len(in) = n + 1 BY <2>1, <2>2, <2>3, <2>4
  <2> QED BY <2>3, <2>4, <2>5
<1>2. ASSUME NEW k \in 1..n PROVE k + 1 \in DOMAIN in /\ rest[k] = in[k + 1]
  <2>1. \A i \in 1..Len(Tail(in)) : Tail(in)[i] = in[i + 1] BY HeadTailProperties
  <2>2. rest[k] = in[k + 1] BY <1>1, <2>1
  <2>3. k + 1 \in 1..(n + 1) /\ DOMAIN in = 1..(n + 1) BY <1>1
  <2> QED BY <2>2, <2>3
<1>3. DOMAIN rest = 1..n BY <1>1
<1>4. \A k \in 1..n : /\ rest[k].frame = r + (k + 1 + h + 1) \div 2
                       /\ rest[k].half = 2 - ((k + 1 + h) % 2)
  BY <1>2 DEF Coming
<1>5. PICK l \in Nat : l = Len(frames) OBVIOUS
<1>6. n + 1 = 2 * (l - r) - h BY <1>1, <1>5 DEF Coming
<1>7. CASE h = 1
  <2>0. PICK q \in Nat : q = r + 1 OBVIOUS
  <2>1. n = 2 * (l - q) - 0 BY <1>6, <1>7, <2>0
  <2>2. ASSUME NEW k \in 1..n
        PROVE  /\ rest[k].frame = q + (k + 0 + 1) \div 2
               /\ rest[k].half = 2 - ((k + 0) % 2)
    <3>1. k + 1 + h + 1 = (k + 1) + 2 /\ k + 1 + h = k + 2 BY <1>7
    <3>2. ((k + 1) + 2) \div 2 = ((k + 1) \div 2) + 1 /\ (k + 2) % 2 = k % 2
      BY Halving
    <3>3. k + 0 + 1 = k + 1 /\ k + 0 = k OBVIOUS
    <3>4. PICK x \in Nat, y \in Nat : x = (k + 1) \div 2 /\ y = k % 2 OBVIOUS
    <3>5. rest[k].frame = r + (x + 1) /\ rest[k].half = 2 - y
      BY <1>4, <3>1, <3>2, <3>4
    <3>6. r + (x + 1) = q + x BY <2>0
    <3> QED BY <3>3, <3>4, <3>5, <3>6
  <2>3. Coming(q, 0)'
    <3>1. in' = rest /\ frames' = frames BY <1>1
    <3>2. Len(in') = 2 * (Len(frames') - q) - 0 BY <1>1, <1>5, <2>1, <3>1
    <3>3. \A k \in DOMAIN in' : /\ in'[k].frame = q + (k + 0 + 1) \div 2
                                /\ in'[k].half = 2 - ((k + 0) % 2)
      BY <1>3, <2>2, <3>1, Zenon
    <3> QED BY <3>2, <3>3, Zenon DEF Coming
  <2> QED BY <1>7, <2>0, <2>3
<1>8. CASE h # 1
  <2>1. n = 2 * (l - r) - (h + 1) BY <1>6
  <2>2. ASSUME NEW k \in 1..n
        PROVE  /\ rest[k].frame = r + (k + (h + 1) + 1) \div 2
               /\ rest[k].half = 2 - ((k + (h + 1)) % 2)
    <3>1. k + 1 + h + 1 = k + (h + 1) + 1 /\ k + 1 + h = k + (h + 1) OBVIOUS
    <3> QED BY <1>4, <3>1
  <2> QED BY <1>1, <1>3, <1>5, <1>8, <2>1, <2>2 DEF Coming
<1> QED BY <1>7, <1>8

LEMMA TwoMore ==
  ASSUME NEW S, NEW s \in Seq(S), NEW x \in S, NEW y \in S, NEW n \in Nat, n = Len(s)
  PROVE  /\ s \o <<x, y>> \in Seq(S)
         /\ Len(s \o <<x, y>>) = n + 2
         /\ \A k \in 1..n : (s \o <<x, y>>)[k] = s[k]
         /\ (s \o <<x, y>>)[n + 1] = x /\ (s \o <<x, y>>)[n + 2] = y
<1>0. <<x, y>> \in Seq(S) OBVIOUS
<1>1. PICK two \in Seq(S) : two = <<x, y>> BY <1>0, Zenon
<1>2. Len(two) = 2 /\ two[1] = x /\ two[2] = y BY <1>1
<1>3. /\ s \o two \in Seq(S)
      /\ Len(s \o two) = Len(s) + Len(two)
      /\ \A i \in 1..Len(s) + Len(two) :
           (s \o two)[i] = IF i <= Len(s) THEN s[i] ELSE two[i - Len(s)]
  BY ConcatProperties, Zenon
<1>4. PICK all \in Seq(S) : all = s \o two BY <1>3
<1>5. /\ Len(all) = n + 2
      /\ \A i \in 1..n + 2 : all[i] = IF i <= n THEN s[i] ELSE two[i - n]
  BY <1>2, <1>3, <1>4
<1>6. \A k \in 1..n : all[k] = s[k]
  <2>1. \A k \in 1..n : k \in 1..n + 2 /\ k <= n OBVIOUS
  <2> QED BY <1>5, <2>1
<1>7. all[n + 1] = x /\ all[n + 2] = y
  <2>1. n + 1 \in 1..n + 2 /\ ~(n + 1 <= n) /\ (n + 1) - n = 1 OBVIOUS
  <2>2. n + 2 \in 1..n + 2 /\ ~(n + 2 <= n) /\ (n + 2) - n = 2 OBVIOUS
  <2> QED BY <1>2, <1>5, <2>1, <2>2
<1> QED BY <1>1, <1>4, <1>5, <1>6, <1>7

\* Frame e is announced by the two units behind everything on its way.
LEMMA ComingMore ==
  ASSUME NEW r \in Nat, NEW h \in {-1, 0, 1},
         in \in Seq(RelayUnit), frames \in Seq(Kind), frames' \in Seq(Kind),
         r <= Len(frames), Coming(r, h),
         Len(frames') = Len(frames) + 1, in' = in \o Halves(Len(frames'))
  PROVE  Coming(r, h)'
<1>1. PICK n \in Nat, l \in Nat : n = Len(in) /\ l = Len(frames) OBVIOUS
<1>2. n = 2 * (l - r) - h BY <1>1 DEF Coming
<1>3. PICK d \in Nat : l = r + d
  <2>1. l - r \in Nat BY <1>1
  <2>2. l = r + (l - r) OBVIOUS
  <2> QED BY <2>1, <2>2
<1>4. n + h = 2 * d BY <1>2, <1>3
<1>5. PICK x \in RelayUnit, y \in RelayUnit :
        /\ Halves(l + 1) = <<x, y>>
        /\ x.frame = l + 1 /\ x.half = 1 /\ y.frame = l + 1 /\ y.half = 2
  <2>1. Unit(l + 1, 1) \in RelayUnit /\ Unit(l + 1, 2) \in RelayUnit
    BY DEF Unit, RelayUnit
  <2> QED BY <2>1, Zenon DEF Unit, Halves
<1>6. PICK all \in Seq(RelayUnit) :
        /\ all = in \o <<x, y>> /\ Len(all) = n + 2
        /\ \A k \in 1..n : all[k] = in[k]
        /\ all[n + 1] = x /\ all[n + 2] = y
  <2>1. /\ in \o <<x, y>> \in Seq(RelayUnit)
        /\ Len(in \o <<x, y>>) = n + 2
        /\ \A k \in 1..n : (in \o <<x, y>>)[k] = in[k]
        /\ (in \o <<x, y>>)[n + 1] = x /\ (in \o <<x, y>>)[n + 2] = y
    BY ONLY in \in Seq(RelayUnit), x \in RelayUnit, y \in RelayUnit, n \in Nat, <1>1,
            TwoMore
  <2> QED BY <2>1, Zenon
<1>8. ASSUME NEW k \in 1..n + 2
      PROVE  /\ all[k].frame = r + (k + h + 1) \div 2
             /\ all[k].half = 2 - ((k + h) % 2)
  <2>1. CASE k <= n
    <3>1. k \in DOMAIN in /\ all[k] = in[k] BY <1>1, <1>6, <2>1
    <3> QED BY <3>1 DEF Coming
  <2>2. CASE k = n + 1
    <3>1. all[k] = x BY <1>6, <2>2
    <3>2. k + h + 1 = 2 * d + 2 /\ k + h = 2 * d + 1 BY <1>4, <2>2
    <3>3. (2 * d + 2) \div 2 = d + 1 /\ (2 * d + 1) % 2 = 1 BY Halving
    <3>4. all[k].frame = l + 1 /\ all[k].half = 1 BY <1>5, <3>1
    <3>5. r + (d + 1) = l + 1 /\ 2 - 1 = 1 BY <1>3
    <3> QED BY <3>2, <3>3, <3>4, <3>5, Zenon
  <2>3. CASE k = n + 2
    <3>1. all[k] = y BY <1>6, <2>3
    <3>2. k + h + 1 = (2 * d + 1) + 2 /\ k + h = 2 * d + 2 BY <1>4, <2>3
    <3>3. ((2 * d + 1) + 2) \div 2 = d + 1 /\ (2 * d + 2) % 2 = 0 BY Halving
    <3>4. all[k].frame = l + 1 /\ all[k].half = 2 BY <1>5, <3>1
    <3>5. r + (d + 1) = l + 1 /\ 2 - 0 = 2 BY <1>3
    <3> QED BY <3>2, <3>3, <3>4, <3>5, Zenon
  <2> QED BY <2>1, <2>2, <2>3
<1>9. in' = all /\ Len(frames') = l + 1 /\ DOMAIN all = 1..n + 2
  <2>1. Len(frames') = l + 1 BY <1>1
  <2>2. in' = all BY <1>5, <1>6, <2>1, Zenon
  <2> QED BY <1>6, <2>1, <2>2
<1>10. Len(in') = 2 * (Len(frames') - r) - h
  <2>1. n + 2 = 2 * ((l + 1) - r) - h BY <1>2
  <2> QED BY <1>6, <1>9, <2>1, Zenon
<1> QED BY <1>8, <1>9, <1>10, Zenon DEF Coming

\* More frames of the relay change nothing about those that came before.
Longer == /\ frames \in Seq(Kind) /\ frames' \in Seq(Kind)
          /\ DOMAIN frames \subseteq DOMAIN frames'
          /\ \A i \in DOMAIN frames : frames'[i] = frames[i]

LEMMA DataKept ==
  ASSUME Longer, NEW from \in Nat, NEW to \in Nat, to <= Len(frames)
  PROVE  {i \in DOMAIN frames' : IsData(i)' /\ from < i /\ i <= to}
           = {i \in DOMAIN frames : IsData(i) /\ from < i /\ i <= to}
<1>1. DOMAIN frames = 1..Len(frames) BY DEF Longer
<1>2. \A i \in DOMAIN frames' : i <= to => i \in DOMAIN frames
  BY <1>1 DEF Longer
<1> QED BY <1>2 DEF Longer, IsData

LEMMA MessageKept ==
  ASSUME Longer, NEW m \in Message, NEW before \in Nat, IsMessage(m, before)
  PROVE  IsMessage(m, before)'
<1>1. Last(m) \in ToSet(m) /\ Last(m) \in Nat
  <2>1. Len(m) \in 1..Len(m) BY DEF Message
  <2> QED BY <2>1 DEF Message, ToSet, Last
<1>2. ToSet(m) \subseteq DOMAIN frames BY DEF IsMessage
<1>3. Last(m) <= Len(frames) BY <1>1, <1>2 DEF Longer
<1>4. ToSet(m) = {i \in DOMAIN frames' : IsData(i)' /\ before < i /\ i <= Last(m)}
  BY <1>1, <1>3, DataKept DEF IsMessage
<1>5. \A i \in ToSet(m) : EndsMessage(i)' <=> i = Last(m)
  BY <1>2 DEF IsMessage, EndsMessage, Longer
<1> QED BY <1>4, <1>5 DEF IsMessage

LEMMA EndType ==
  ASSUME ReadTypeOK, NEW k \in 1..(Len(messages) + 1)
  PROVE  EndBefore(k) \in Nat
<1>1. CASE k = 1 BY <1>1 DEF EndBefore
<1>2. CASE k # 1
  <2>1. k - 1 \in 1..Len(messages) BY <1>2 DEF ReadTypeOK
  <2>2. messages[k - 1] \in Message BY <2>1 DEF ReadTypeOK
  <2>3. PICK m \in Message : m = messages[k - 1] BY <2>2
  <2>4. m \in Seq(Nat) /\ Len(m) \in 1..Len(m) BY DEF Message
  <2>5. Last(m) \in Nat BY <2>4 DEF Last
  <2> QED BY <1>2, <2>3, <2>5 DEF EndBefore
<1> QED BY <1>1, <1>2

LEMMA LastEndType ==
  ASSUME ReadTypeOK PROVE LastEnd \in Nat
<1>1. Len(messages) + 1 \in 1..(Len(messages) + 1) BY DEF ReadTypeOK
<1> QED BY <1>1, EndType DEF LastEnd

LEMMA CollectedKept ==
  ASSUME Longer, ReadTypeOK, UNCHANGED <<fragments, messages>>,
         NEW r \in Nat, r <= Len(frames), Collected(r)
  PROVE  Collected(r)'
<1>1. PICK from \in Nat : from = LastEnd BY LastEndType
<1>2. LastEnd' = from BY <1>1 DEF LastEnd, EndBefore
<1>3. ToSet(fragments) = {i \in DOMAIN frames' : IsData(i)' /\ from < i /\ i <= r}
  BY <1>1, DataKept DEF Collected
<1>4. \A i \in ToSet(fragments) : ~EndsMessage(i)'
  BY DEF Collected, EndsMessage, Longer
<1> QED BY <1>1, <1>2, <1>3, <1>4 DEF Collected

\* What a frame adds to the fragments, or makes of them.
LEMMA FrameCollected ==
  ASSUME ReadTypeOK, frames \in Seq(Kind), frames' = frames,
         NEW r \in Nat, r + 1 \in DOMAIN frames, Collected(r)
  PROVE  /\ Append(fragments, r + 1) \in Message
         /\ Last(Append(fragments, r + 1)) = r + 1
         /\ EndsMessage(r + 1) => IsMessage(Append(fragments, r + 1), LastEnd)
         /\ /\ IsData(r + 1) /\ ~EndsMessage(r + 1)
            /\ fragments' = Append(fragments, r + 1) /\ messages' = messages
            => Collected(r + 1)'
         /\ ~IsData(r + 1) /\ UNCHANGED <<fragments, messages>> => Collected(r + 1)'
<1>1. PICK from \in Nat : from = LastEnd BY LastEndType
<1>2. PICK e \in Nat : e = r + 1 OBVIOUS
<1>3. from <= r /\ from < e /\ from <= e BY <1>1, <1>2 DEF Collected
<1>4. DOMAIN frames \subseteq Nat OBVIOUS
<1>5. \A i \in DOMAIN frames : i <= e <=> i <= r \/ i = e
  BY <1>2, <1>4
<1> DEFINE upTo(n) == {i \in DOMAIN frames : IsData(i) /\ from < i /\ i <= n}
<1>6. ToSet(fragments) = upTo(r) BY <1>1 DEF Collected
<1>7. upTo(e) = upTo(r) \cup {i \in {e} : IsData(e)}
  BY <1>2, <1>3, <1>5
<1> HIDE DEF upTo
<1>8. \A x \in ToSet(fragments) : x < e
  BY <1>2, <1>4, <1>6 DEF upTo
<1>9. fragments \in Seq(Nat) /\ Ascending(fragments)
  BY DEF ReadTypeOK, Collected
<1>10. PICK m \in Message :
         /\ m = Append(fragments, e) /\ Ascending(m)
         /\ ToSet(m) = ToSet(fragments) \cup {e} /\ Last(m) = e
  BY <1>8, <1>9, AscendingAppend
<1>11. \A i \in ToSet(fragments) : ~EndsMessage(i) /\ i # e
  <2>1. e \notin ToSet(fragments) BY <1>8
  <2> QED BY <2>1 DEF Collected
<1>12. ASSUME EndsMessage(e) PROVE IsMessage(m, from)
  <2>1. IsData(e) BY <1>12 DEF IsData, EndsMessage
  <2>2. ToSet(m) = upTo(e) BY <1>6, <1>7, <1>10, <2>1
  <2>3. \A i \in ToSet(m) : EndsMessage(i) <=> i = Last(m) BY <1>10, <1>11, <1>12
  <2> QED BY <1>10, <2>2, <2>3 DEF IsMessage, upTo
<1>13. ASSUME IsData(e), ~EndsMessage(e), fragments' = m, messages' = messages
       PROVE  Collected(e)'
  <2>1. ToSet(m) = upTo(e) BY <1>6, <1>7, <1>10, <1>13
  <2>2. \A i \in ToSet(m) : ~EndsMessage(i) BY <1>10, <1>11, <1>13
  <2>3. LastEnd' = from BY <1>1, <1>13 DEF LastEnd, EndBefore
  <2>4. upTo(e) = {i \in DOMAIN frames' : IsData(i)' /\ from < i /\ i <= e}
    BY DEF upTo, IsData
  <2>5. \A i \in ToSet(m) : ~EndsMessage(i)' BY <2>2 DEF EndsMessage
  <2> QED BY <1>3, <1>10, <1>13, <2>1, <2>3, <2>4, <2>5 DEF Collected
<1>14. ASSUME ~IsData(e), UNCHANGED <<fragments, messages>> PROVE Collected(e)'
  <2>1. ToSet(fragments) = upTo(e) BY <1>6, <1>7, <1>14
  <2>2. LastEnd' = from BY <1>1, <1>14 DEF LastEnd, EndBefore
  <2>3. upTo(e) = {i \in DOMAIN frames' : IsData(i)' /\ from < i /\ i <= e}
    BY DEF upTo, IsData
  <2>4. \A i \in ToSet(fragments) : ~EndsMessage(i)' BY <1>11 DEF EndsMessage
  <2> QED BY <1>3, <1>9, <1>14, <2>1, <2>2, <2>3, <2>4 DEF Collected
<1> QED BY <1>1, <1>2, <1>10, <1>12, <1>13, <1>14

\* A message that is returned begins where the one before it ended.
LEMMA MessageReturned ==
  ASSUME ReadTypeOK, AllThose, NEW m \in Message, IsMessage(m, LastEnd),
         messages' = Append(messages, m), frames' = frames
  PROVE  /\ AllThose'
         /\ LastEnd' = Last(m)
<1>1. messages \in Seq(Message) BY DEF ReadTypeOK
<1>2. PICK n \in Nat, all \in Seq(Message) :
        /\ n = Len(messages) /\ all = Append(messages, m) /\ Len(all) = n + 1
        /\ all[n + 1] = m /\ \A k \in 1..n : all[k] = messages[k]
  <2>1. PICK n \in Nat : n = Len(messages) BY <1>1
  <2>2. /\ Append(messages, m) \in Seq(Message)
        /\ Len(Append(messages, m)) = n + 1
        /\ \A k \in 1..n : Append(messages, m)[k] = messages[k]
        /\ Append(messages, m)[n + 1] = m
    BY ONLY <1>1, n \in Nat, m \in Message, <2>1, Appended
  <2> QED BY <2>1, <2>2, Zenon
<1>3. messages' = all /\ DOMAIN all = 1..(n + 1) /\ DOMAIN messages = 1..n
  BY <1>1, <1>2
<1>4. ASSUME NEW k \in 1..(n + 1) PROVE EndBefore(k)' = EndBefore(k)
  <2>1. k = 1 \/ k - 1 \in 1..n OBVIOUS
  <2> QED BY <1>2, <1>3, <2>1 DEF EndBefore
<1>5. ASSUME NEW k \in 1..(n + 1) PROVE IsMessage(all[k], EndBefore(k))
  <2>1. CASE k \in 1..n BY <1>2, <1>3, <2>1 DEF AllThose
  <2>2. CASE k = n + 1 BY <1>2, <2>2 DEF LastEnd
  <2>3. k \in 1..n \/ k = n + 1 OBVIOUS
  <2> QED BY <2>1, <2>2, <2>3
<1>6. ASSUME NEW k \in 1..(n + 1) PROVE IsMessage(messages[k], EndBefore(k))'
  <2>1. PICK x, before : x = all[k] /\ before = EndBefore(k) OBVIOUS
  <2>2. IsMessage(x, before)' BY <1>5, <2>1 DEF IsMessage, IsData, EndsMessage
  <2>3. messages'[k] = x /\ EndBefore(k)' = before BY <1>3, <1>4, <2>1
  <2> QED BY <2>2, <2>3 DEF IsMessage
<1>7. LastEnd' = Last(m)
  <2>1. LastEnd' = EndBefore((n + 1) + 1)' BY <1>2, <1>3 DEF LastEnd
  <2>2. (n + 1) + 1 # 1 /\ ((n + 1) + 1) - 1 = n + 1 OBVIOUS
  <2>3. EndBefore((n + 1) + 1)' = Last(all[n + 1]) BY <1>3, <2>2 DEF EndBefore
  <2> QED BY <1>2, <2>1, <2>3
<1> QED BY <1>3, <1>6, <1>7 DEF AllThose

LEMMA ReadTypeStep ==
  SocketTypeOK /\ ReadTypeOK /\ [SocketNext]_socketVars => ReadTypeOK'
<1> SUFFICES ASSUME SocketTypeOK, ReadTypeOK, SocketNext PROVE ReadTypeOK'
  BY DEF ReadTypeOK, socketVars, readVars
<1>0. /\ in \in Seq(RelayUnit) /\ worker.frame \in Nat
      /\ fragments \in Seq(Nat) /\ messages \in Seq(Message)
  BY DEF SocketTypeOK, Place, ReadTypeOK
<1>1. CASE UNCHANGED <<fragments, messages>>
  BY <1>1 DEF ReadTypeOK
<1>2. CASE ReadGarbage
  <2>1. Head(in).frame \in Nat
    <3>1. Head(in) \in RelayUnit BY <1>0, <1>2 DEF ReadGarbage
    <3> QED BY <3>1 DEF RelayUnit
  <2>2. <<Head(in).frame>> \in Message BY <2>1 DEF Message
  <2>3. messages' \in Seq(Message)
    <3>1. PICK m \in Message : m = <<Head(in).frame>> BY <2>2
    <3>2. messages' = messages \/ messages' = Append(messages, m)
      BY <1>2, <3>1 DEF ReadGarbage
    <3>3. Append(messages, m) \in Seq(Message) BY <1>0
    <3> QED BY <1>0, <3>2, <3>3
  <2>4. fragments' = fragments BY <1>2 DEF ReadGarbage
  <2> QED BY <1>0, <2>3, <2>4 DEF ReadTypeOK
<1>3. CASE ReadPayload
  <2>1. PICK n \in Nat : n = worker.frame BY <1>0
  <2>2. Payload(n) BY <1>3, <2>1 DEF ReadPayload
  <2>3. PICK m \in Message : m = Append(fragments, n)
    <3>1. Append(fragments, n) \in Seq(Nat) /\ Append(fragments, n) # <<>> BY <1>0
    <3> QED BY <3>1 DEF Message
  <2>4. \/ messages' = Append(messages, m) /\ fragments' = <<>>
        \/ messages' = messages /\ fragments' = m
        \/ messages' = messages /\ fragments' = fragments
    BY <2>2, <2>3 DEF Payload
  <2>5. messages' \in Seq(Message)
    <3>1. Append(messages, m) \in Seq(Message) BY <1>0
    <3> QED BY <1>0, <2>4, <3>1
  <2>6. fragments' \in Seq(Nat)
    <3>1. m \in Seq(Nat) /\ <<>> \in Seq(Nat) BY DEF Message
    <3> QED BY <1>0, <2>4, <3>1
  <2> QED BY <2>5, <2>6 DEF ReadTypeOK
<1>4. CASE ~ReadGarbage /\ ~ReadPayload
  <2>1. UNCHANGED <<fragments, messages>>
    BY <1>4 DEF SocketNext, RelayAccepts, RelaySends, RelayReads, Receive,
           FinishUpgrade, ReadHeader, Answer, LoseConnection, Put, GiveUp, Send, Acquire,
           SendOnClosed, readVars
  <2> QED BY <1>1, <2>1
<1> QED BY <1>2, <1>3, <1>4

\* A step that takes nothing from the relay.
LEMMA StillReading ==
  ASSUME Reading, UNCHANGED <<accepted, frames, in, fragments, messages>>,
         closed => closed',
         \/ closed'
         \/ worker' = worker
         \/ /\ worker.pc \notin {"connect", "payload"}
            /\ worker'.pc \notin {"connect", "payload"}
  PROVE  Reading'
<1>1. CASE closed' BY <1>1 DEF Reading
<1>2. CASE ~closed'
  <2>1. Inside' = Inside /\ (worker'.pc = "payload" => worker' = worker)
        /\ (worker'.pc = "connect" <=> worker.pc = "connect")
    BY <1>2 DEF Inside
  <2>2. CASE Asking BY <2>1, <2>2 DEF Reading, Asking
  <2>3. ASSUME NEW r \in 0..Len(frames), ReadUpTo(r) PROVE Reading'
    <3>1. Coming(r, Inside)'
      <4>1. PICK h : h = Inside OBVIOUS
      <4>2. Coming(r, h)' BY <2>3, <4>1 DEF ReadUpTo, Coming
      <4> QED BY <2>1, <4>1, <4>2 DEF Coming
    <3>2. Collected(r)'
      BY <2>3 DEF ReadUpTo, Collected, LastEnd, EndBefore, IsData, EndsMessage
    <3>3. ReadUpTo(r)' BY <2>1, <2>3, <3>1, <3>2 DEF ReadUpTo
    <3> QED BY <3>3 DEF Reading
  <2> QED BY <1>2, <2>2, <2>3 DEF Reading
<1> QED BY <1>1, <1>2

LEMMA ThoseKept ==
  ASSUME AllThose, UNCHANGED <<frames, messages>> PROVE AllThose'
BY DEF AllThose, IsMessage, EndBefore, IsData, EndsMessage

\* The end of a send leaves the relay thread between two frames.
LEMMA DoneReading ==
  ASSUME NEW t, Raised(t) \/ (Sent(t) /\ ~closed),
         t = "worker" => worker.pc \in {"info", "req", "pong", "reply", "closed"},
         closed => worker.pc = "closed"
  PROVE  /\ closed => closed'
         /\ closed' => worker'.pc = "closed" \/ (worker' = worker /\ closed)
         /\ \/ closed'
            \/ worker' = worker
            \/ /\ worker.pc \notin {"connect", "payload"}
               /\ worker'.pc \notin {"connect", "payload"}
         /\ t # "worker" => worker' = worker
         /\ worker'.pc = "connect" => worker.pc = "connect"
<1>1. CASE t # "worker"
  BY <1>1 DEF Raised, Sent
<1>2. CASE t = "worker" /\ Sent(t) /\ ~closed
  <2>1. closed' = closed /\ worker' = At(IF worker.pc = "info" THEN "req" ELSE "read", 0)
    BY <1>2 DEF Sent, Work
  <2>2. worker'.pc \in {"req", "read"} BY <2>1 DEF At
  <2> QED BY <1>2, <2>1, <2>2
<1>3. CASE t = "worker" /\ Raised(t)
  <2>1. CASE worker.pc = "info"
    <3>1. Sent(t) /\ ~closed BY <1>3, <2>1 DEF Raised
    <3> QED BY <1>2, <1>3, <3>1
  <2>2. CASE worker.pc # "info"
    <3>1. closed' /\ worker'.pc = "closed" BY <1>3, <2>2 DEF Raised, Close, At
    <3> QED BY <1>3, <3>1
  <2> QED BY <2>1, <2>2
<1> QED BY <1>1, <1>2, <1>3

\* The four steps that take units from the relay, and those that give them.
LEMMA UpgradeStep ==
  ASSUME SocketTypeOK, ReadTypeOK, ReadingOK, FinishUpgrade
  PROVE  leftover' \/ (AllThose' /\ Reading')
<1>0. /\ in \in Seq(RelayUnit) /\ frames \in Seq(Kind)
      /\ worker.pc = "connect" /\ ~closed /\ ~leftover /\ AllThose /\ Reading
  BY DEF SocketTypeOK, ReadingOK, FinishUpgrade
<1>1. PICK k \in 1..Len(in) : in' = SubSeq(in, k + 1, Len(in)) /\ leftover' = (k > 1)
  BY DEF FinishUpgrade
<1>2. UNCHANGED <<accepted, frames, fragments, messages>> BY DEF FinishUpgrade
<1>3. worker'.pc = "info" /\ closed' = closed BY DEF FinishUpgrade, Work, At
<1>4. CASE k = 1
  <2>1. in # <<>> BY <1>0, <1>1
  <2>2. in' = Tail(in)
    <3>1. SubSeq(in, 1 + 1, Len(in)) = SubSeq(in, 2, Len(in)) OBVIOUS
    <3> QED BY <1>0, <1>1, <1>4, <2>1, <3>1, TailIsSubSeq
  <2>3. PICK r \in Nat : r = 0 OBVIOUS
  <2>4. ReadUpTo(r) BY <1>0, <2>1, <2>3 DEF Reading, Asking, ReadUpTo
  <2>5. Coming(r, -1) BY <1>0, <2>4 DEF ReadUpTo, Inside
  <2>6. Coming(r, -1 + 1)' BY <1>0, <1>2, <2>1, <2>2, <2>5, ComingTaken
  <2>7. Inside' = -1 + 1 BY <1>3 DEF Inside
  <2>8. Coming(r, Inside)' BY <2>6, <2>7 DEF Coming
  <2>9. Collected(r)'
    BY <1>2, <2>4 DEF ReadUpTo, Collected, LastEnd, EndBefore, IsData, EndsMessage
  <2>10. ReadUpTo(r)' BY <1>2, <1>3, <2>4, <2>8, <2>9 DEF ReadUpTo
  <2>11. r \in 0..Len(frames') BY <1>0, <1>2, <2>3
  <2>12. Reading' BY <2>10, <2>11 DEF Reading
  <2> QED BY <1>0, <1>2, <2>12, ThoseKept
<1>5. CASE k # 1
  <2>1. k > 1 BY <1>0, <1>5
  <2> QED BY <1>1, <2>1, Zenon
<1> QED BY <1>4, <1>5

LEMMA HeaderStep ==
  ASSUME SocketTypeOK, AllThose, Reading, ~closed, ReadHeader
  PROVE  AllThose' /\ Reading'
<1>0. /\ in \in Seq(RelayUnit) /\ frames \in Seq(Kind)
      /\ worker.pc = "read" /\ in # <<>> /\ in' = Tail(in)
      /\ UNCHANGED <<accepted, frames, fragments, messages>>
  BY DEF SocketTypeOK, ReadHeader
<1>1. worker'.pc = "payload" /\ worker'.frame = Head(in).frame /\ closed' = closed
  BY DEF ReadHeader, Work, At
<1>2. PICK r \in 0..Len(frames) : ReadUpTo(r) BY <1>0 DEF Reading, Asking
<1>3. Coming(r, 0) BY <1>0, <1>2 DEF ReadUpTo, Inside
<1>4. Head(in).frame = r + 1
  <2>1. 1 \in DOMAIN in /\ Head(in) = in[1] BY <1>0
  <2>2. in[1].frame = r + (1 + 0 + 1) \div 2 BY <1>3, <2>1 DEF Coming
  <2>3. (1 + 0 + 1) \div 2 = 1 OBVIOUS
  <2> QED BY <2>1, <2>2, <2>3, Zenon
<1>5. Coming(r, 0 + 1)' BY <1>0, <1>3, ComingTaken
<1>6. Inside' = 0 + 1 BY <1>1 DEF Inside
<1>7. Coming(r, Inside)' BY <1>5, <1>6 DEF Coming
<1>8. Collected(r)'
  BY <1>0, <1>2 DEF ReadUpTo, Collected, LastEnd, EndBefore, IsData, EndsMessage
<1>9. ReadUpTo(r)' BY <1>0, <1>1, <1>2, <1>4, <1>7, <1>8 DEF ReadUpTo
<1> QED BY <1>0, <1>9, ThoseKept DEF Reading

LEMMA NoGarbage ==
  ASSUME SocketTypeOK, Reading, ~closed, ReadGarbage PROVE FALSE
<1>0. in \in Seq(RelayUnit) /\ worker.pc = "read" /\ in # <<>> /\ Head(in).half = 2
  BY DEF SocketTypeOK, ReadGarbage
<1>1. PICK r \in 0..Len(frames) : ReadUpTo(r) BY <1>0 DEF Reading, Asking
<1>2. Coming(r, 0) BY <1>0, <1>1 DEF ReadUpTo, Inside
<1>3. 1 \in DOMAIN in /\ Head(in) = in[1] BY <1>0
<1>4. in[1].half = 2 - ((1 + 0) % 2) BY <1>2, <1>3 DEF Coming
<1>5. 2 - ((1 + 0) % 2) = 1 OBVIOUS
<1> QED BY <1>0, <1>3, <1>4, <1>5

LEMMA PayloadStep ==
  ASSUME SocketTypeOK, ReadTypeOK, AllThose, Reading, ~closed, ReadPayload
  PROVE  AllThose' /\ Reading'
<1>0. /\ in \in Seq(RelayUnit) /\ frames \in Seq(Kind)
      /\ worker.pc = "payload" /\ in # <<>> /\ in' = Tail(in)
      /\ UNCHANGED <<accepted, frames>>
  BY DEF SocketTypeOK, ReadPayload
<1>1. PICK r \in 0..Len(frames) : ReadUpTo(r) BY <1>0 DEF Reading, Asking
<1>2. Coming(r, 1) /\ Collected(r) /\ worker.frame = r + 1
  BY <1>0, <1>1 DEF ReadUpTo, Inside
<1>3. r + 1 \in DOMAIN frames
  <2>1. Len(in) = 2 * (Len(frames) - r) - 1 BY <1>2 DEF Coming
  <2>2. Len(in) \in Nat /\ Len(frames) \in Nat BY <1>0
  <2> QED BY <1>0, <2>1, <2>2
<1>4. Payload(r + 1) BY <1>2 DEF ReadPayload
<1>5. Coming(r + 1, 0)' BY <1>0, <1>2, ComingTaken
<1>6. /\ Append(fragments, r + 1) \in Message
      /\ Last(Append(fragments, r + 1)) = r + 1
      /\ EndsMessage(r + 1) => IsMessage(Append(fragments, r + 1), LastEnd)
      /\ /\ IsData(r + 1) /\ ~EndsMessage(r + 1)
         /\ fragments' = Append(fragments, r + 1) /\ messages' = messages
         => Collected(r + 1)'
      /\ ~IsData(r + 1) /\ UNCHANGED <<fragments, messages>> => Collected(r + 1)'
  BY <1>0, <1>2, <1>3, FrameCollected
<1>7. ASSUME Collected(r + 1)', worker'.pc \in {"answer", "read", "pong"}
      PROVE  Reading'
  <2>1. PICK q \in 0..Len(frames') : q = r + 1 BY <1>0, <1>3
  <2>2. Coming(q, 0)' /\ Collected(q)' BY <1>5, <1>7, <2>1
  <2>3. Inside' = 0 BY <1>7 DEF Inside
  <2>4. Coming(q, Inside)' BY <2>2, <2>3 DEF Coming
  <2>5. ReadUpTo(q)' BY <1>0, <1>1, <1>7, <2>2, <2>4 DEF ReadUpTo
  <2> QED BY <2>5 DEF Reading
<1>8. CASE EndsMessage(r + 1)
  <2>1. PICK m \in Message : m = Append(fragments, r + 1) BY <1>6
  <2>2. /\ messages' = Append(messages, m) /\ fragments' = <<>>
        /\ worker' = At("answer", r + 1)
    BY <1>4, <1>8, <2>1 DEF Payload, EndsMessage, Work
  <2>3. IsMessage(m, LastEnd) /\ Last(m) = r + 1 BY <1>6, <1>8, <2>1
  <2>4. AllThose' /\ LastEnd' = r + 1
    BY <1>0, <2>2, <2>3, MessageReturned
  <2>5. Collected(r + 1)'
    <3>1. PICK q \in Nat : q = r + 1 OBVIOUS
    <3>2. ToSet(fragments') = {} BY <2>2 DEF ToSet
    <3>3. \A i \in DOMAIN frames' : ~(q < i /\ i <= q) BY <1>0
    <3>4. Ascending(fragments') BY <2>2 DEF Ascending
    <3>5. LastEnd' = q /\ q <= q BY <2>4, <3>1
    <3> QED BY <3>1, <3>2, <3>3, <3>4, <3>5 DEF Collected
  <2>6. worker'.pc = "answer" BY <2>2 DEF At
  <2> QED BY <1>7, <2>4, <2>5, <2>6
<1>9. CASE ~EndsMessage(r + 1)
  <2>1. CASE IsData(r + 1)
    <3>1. frames[r + 1] \in {"first", "more"} BY <1>9, <2>1 DEF IsData, EndsMessage
    <3>2. /\ fragments' = Append(fragments, r + 1) /\ messages' = messages
          /\ worker' = At("read", 0)
      BY <1>4, <3>1 DEF Payload, Work
    <3>3. worker'.pc = "read" BY <3>2 DEF At
    <3> QED BY <1>0, <1>6, <1>7, <1>9, <2>1, <3>2, <3>3, ThoseKept
  <2>2. CASE ~IsData(r + 1)
    <3>1. /\ UNCHANGED <<fragments, messages>>
          /\ closed' \/ worker' = At("pong", r + 1) \/ worker' = At("read", 0)
      BY <1>4, <2>2 DEF Payload, IsData, Work, Close
    <3>2. closed' \/ worker'.pc \in {"pong", "read"} BY <3>1 DEF At
    <3>3. AllThose' BY <1>0, <3>1, ThoseKept
    <3>4. CASE closed' BY <3>3, <3>4 DEF Reading
    <3>5. CASE worker'.pc \in {"pong", "read"} BY <1>6, <1>7, <2>2, <3>1, <3>3, <3>5
    <3> QED BY <3>2, <3>4, <3>5
  <2> QED BY <2>1, <2>2
<1> QED BY <1>8, <1>9

LEMMA AnnouncedStep ==
  ASSUME SocketTypeOK, SocketTypeOK', ReadTypeOK, AllThose, Reading, RelaySends
  PROVE  AllThose' /\ Reading'
<1>0. /\ in \in Seq(RelayUnit) /\ frames \in Seq(Kind) /\ frames' \in Seq(Kind)
      /\ accepted /\ in' = in \o Halves(Len(frames'))
      /\ UNCHANGED <<accepted, worker, closed, fragments, messages>>
  BY DEF SocketTypeOK, RelaySends
<1>1. PICK kind \in Kind : frames' = Append(frames, kind)
  BY DEF RelaySends, Allowed, Kind
<1>2. PICK l \in Nat : l = Len(frames) BY <1>0
<1>3. /\ Len(frames') = l + 1
      /\ \A k \in 1..l : frames'[k] = frames[k]
  <2>1. frames \in Seq(Kind) BY <1>0
  <2>2. /\ Len(Append(frames, kind)) = l + 1
        /\ \A k \in 1..l : Append(frames, kind)[k] = frames[k]
    BY ONLY <2>1, <1>2, l \in Nat, kind \in Kind, Appended
  <2> QED BY <1>1, <2>2, Zenon
<1>4. Longer
  <2>1. DOMAIN frames = 1..l /\ DOMAIN frames' = 1..(l + 1) BY <1>0, <1>2, <1>3
  <2>2. 1..l \subseteq 1..(l + 1) OBVIOUS
  <2> QED BY <1>0, <1>3, <2>1, <2>2 DEF Longer
<1>5. AllThose'
  <2> SUFFICES ASSUME NEW k \in DOMAIN messages
               PROVE  IsMessage(messages[k], EndBefore(k))'
    BY <1>0 DEF AllThose
  <2>1. k \in 1..(Len(messages) + 1) /\ messages[k] \in Message BY DEF ReadTypeOK
  <2>2. PICK m \in Message, before \in Nat : m = messages[k] /\ before = EndBefore(k)
    BY <2>1, EndType
  <2>3. IsMessage(m, before)' BY <1>4, <2>2, MessageKept DEF AllThose
  <2>4. messages'[k] = m /\ EndBefore(k)' = before BY <1>0, <2>2 DEF EndBefore
  <2> QED BY <2>3, <2>4 DEF IsMessage
<1>6. CASE closed
  <2>1. closed' BY <1>0, <1>6
  <2> QED BY <1>5, <2>1 DEF Reading
<1>7. CASE ~closed
  <2>1. PICK r \in 0..l : ReadUpTo(r) BY <1>0, <1>2, <1>7 DEF Reading, Asking
  <2>2. PICK h \in {-1, 0, 1} : h = Inside BY DEF Inside
  <2>3. Coming(r, h)'
    <3>1. Coming(r, h) /\ r <= Len(frames) BY <1>2, <2>1, <2>2 DEF ReadUpTo
    <3>2. Len(frames') = Len(frames) + 1 BY <1>2, <1>3
    <3> QED BY <1>0, <3>1, <3>2, ComingMore
  <2>4. Inside' = h BY <1>0, <2>2 DEF Inside
  <2>5. Collected(r)'
    <3>1. Collected(r) /\ r <= Len(frames) BY <1>2, <2>1 DEF ReadUpTo
    <3> QED BY <1>0, <1>4, <3>1, CollectedKept
  <2>6. ReadUpTo(r)'
    <3>1. Coming(r, Inside)' BY <2>3, <2>4 DEF Coming
    <3> QED BY <1>0, <2>1, <2>5, <3>1 DEF ReadUpTo
  <2>7. r \in 0..Len(frames') BY <1>3
  <2> QED BY <1>5, <2>6, <2>7 DEF Reading
<1> QED BY <1>6, <1>7

\* The answer to the upgrade is what comes before the first frame.
LEMMA AcceptedStep ==
  ASSUME ReadTypeOK, AllThose, Reading, ~closed, RelayAccepts
  PROVE  AllThose' /\ Reading'
<1>0. /\ ~accepted /\ accepted' /\ in' = <<Unit(0, 2)>>
      /\ UNCHANGED <<frames, worker, fragments, messages>>
  BY DEF RelayAccepts
<1>1. Asking BY <1>0 DEF Reading, ReadUpTo
<1>2. /\ worker.pc = "connect" /\ frames = <<>> /\ fragments = <<>>
      /\ messages = <<>>
  BY <1>1 DEF Asking
<1>3. PICK r \in Nat : r = 0 OBVIOUS
<1>4. Inside' = -1 BY <1>0, <1>2 DEF Inside
<1>5. Coming(r, -1)'
  <2>1. Len(in') = 1 /\ DOMAIN in' = {1} BY <1>0
  <2>2. in'[1].frame = 0 /\ in'[1].half = 2 BY <1>0 DEF Unit
  <2>3. (1 + (-1) + 1) \div 2 = 0 /\ (1 + (-1)) % 2 = 0 OBVIOUS
  <2>4. Len(frames') = 0 BY <1>0, <1>2
  <2> QED BY <1>3, <2>1, <2>2, <2>3, <2>4 DEF Coming
<1>6. Coming(r, Inside)' BY <1>4, <1>5 DEF Coming
<1>7. Collected(r)'
  <2>1. LastEnd' = 0 BY <1>0, <1>2 DEF LastEnd, EndBefore
  <2>2. ToSet(fragments') = {} /\ DOMAIN frames' = {} BY <1>0, <1>2 DEF ToSet
  <2>3. Ascending(fragments') BY <1>0, <1>2 DEF Ascending
  <2> QED BY <1>3, <2>1, <2>2, <2>3 DEF Collected
<1>8. ReadUpTo(r)' BY <1>0, <1>2, <1>3, <1>6, <1>7 DEF ReadUpTo
<1>9. r \in 0..Len(frames') BY <1>0, <1>2, <1>3
<1> QED BY <1>0, <1>8, <1>9, ThoseKept DEF Reading

LEMMA ReadingStep ==
  /\ SocketTypeOK /\ SocketTypeOK' /\ ReadTypeOK /\ ReadingOK
  /\ [SocketNext]_socketVars
  => ReadingOK'
<1> SUFFICES ASSUME SocketTypeOK, SocketTypeOK', ReadTypeOK, ReadingOK,
                    [SocketNext]_socketVars
             PROVE  ReadingOK'
  OBVIOUS
<1> DEFINE Quiet == worker.pc \in {"info", "req", "pong", "reply", "closed"}
<1>0. /\ closed => worker.pc = "closed"
      /\ sending.thread = "worker" => Quiet
      /\ worker.pc = "connect" => ~leftover
      /\ leftover \/ (AllThose /\ Reading)
      /\ sending \in Sending
  BY DEF ReadingOK, SocketTypeOK
<1>s. ASSUME UNCHANGED <<readVars>>, closed => closed', closed' => worker'.pc = "closed",
             sending'.thread = "worker" =>
               worker'.pc \in {"info", "req", "pong", "reply", "closed"},
             worker'.pc = "connect" => worker.pc = "connect",
             \/ closed'
             \/ worker' = worker
             \/ /\ worker.pc \notin {"connect", "payload"}
                /\ worker'.pc \notin {"connect", "payload"}
      PROVE  ReadingOK'
  <2>1. UNCHANGED <<accepted, frames, in, fragments, messages, leftover>>
    BY <1>s DEF readVars
  <2>2. Reading => Reading' BY <1>s, <2>1, StillReading
  <2>3. AllThose => AllThose' BY <2>1, ThoseKept
  <2> QED BY <1>0, <1>s, <2>1, <2>2, <2>3 DEF ReadingOK
<1>r. ASSUME sending' = sending, worker.pc \in {"connect", "read", "payload"},
             closed' => worker'.pc = "closed", worker'.pc # "connect",
             leftover' \/ (AllThose' /\ Reading')
      PROVE  ReadingOK'
  BY <1>0, <1>r DEF ReadingOK
<1>1. CASE UNCHANGED socketVars
  BY <1>0, <1>1, <1>s DEF socketVars, sendVars
<1>2. CASE RelayAccepts
  <2>1. UNCHANGED <<sending, closed, worker, leftover>> BY <1>2 DEF RelayAccepts, sendVars
  <2>2. closed => AllThose' \/ leftover
    <3>1. UNCHANGED <<frames, messages>> BY <1>2 DEF RelayAccepts
    <3> QED BY <1>0, <3>1, ThoseKept
  <2>3. closed => Reading' BY <2>1 DEF Reading
  <2>4. leftover \/ (AllThose' /\ Reading')
    BY <1>0, <1>2, <2>2, <2>3, AcceptedStep
  <2> QED BY <1>0, <2>1, <2>4 DEF ReadingOK
<1>3. CASE RelaySends
  <2>1. UNCHANGED <<sending, closed, worker, leftover, messages>>
    BY <1>3 DEF RelaySends, sendVars
  <2>2. leftover \/ (AllThose' /\ Reading')
    BY <1>0, <1>3, AnnouncedStep
  <2> QED BY <1>0, <2>1, <2>2 DEF ReadingOK
<1>4. CASE RelayReads
  <2>1. UNCHANGED <<readVars, closed, worker, sending>> BY <1>4 DEF RelayReads
  <2> QED BY <1>0, <1>s, <2>1
<1>5. CASE FinishUpgrade
  <2>1. worker.pc = "connect" /\ worker'.pc = "info" /\ closed' = closed
        /\ sending' = sending
    BY <1>5 DEF FinishUpgrade, Work, At, sendVars
  <2> QED BY <1>0, <1>5, <1>r, <2>1, UpgradeStep
<1>6. CASE ReadHeader
  <2>1. worker.pc = "read" /\ worker'.pc = "payload" /\ closed' = closed
        /\ sending' = sending /\ leftover' = leftover
    BY <1>6 DEF ReadHeader, Work, At, sendVars
  <2> QED BY <1>0, <1>6, <1>r, <2>1, HeaderStep
<1>7. CASE ReadGarbage
  <2>1. worker.pc = "read" /\ sending' = sending /\ leftover' = leftover
    BY <1>7 DEF ReadGarbage, sendVars
  <2>2. (closed' => worker'.pc = "closed") /\ worker'.pc # "connect"
    BY <1>0, <1>7, <2>1 DEF ReadGarbage, Close, At
  <2>3. leftover BY <1>0, <1>7, <2>1, NoGarbage
  <2> QED BY <1>r, <2>1, <2>2, <2>3
<1>8. CASE ReadPayload
  <2>1. worker.pc = "payload" /\ sending' = sending /\ leftover' = leftover
    BY <1>8 DEF ReadPayload, sendVars
  <2>2. \/ closed' /\ worker' = At("closed", 0)
        \/ /\ closed' = closed
           /\ \/ worker' = At("answer", worker.frame)
              \/ worker' = At("read", 0)
              \/ worker' = At("pong", worker.frame)
    BY <1>8 DEF ReadPayload, Payload, Work, Close
  <2>3. (closed' => worker'.pc = "closed") /\ worker'.pc # "connect"
    BY <1>0, <2>1, <2>2 DEF At
  <2> QED BY <1>0, <1>8, <1>r, <2>1, <2>3, PayloadStep
<1>9. CASE Answer
  <2>1. /\ UNCHANGED <<readVars, closed, sending>> /\ worker.pc = "answer"
        /\ worker'.pc \in {"reply", "read"}
    BY <1>9 DEF Answer, Work, At, sendVars
  <2> QED BY <1>0, <1>s, <2>1
<1>10. CASE LoseConnection
  <2>1. /\ UNCHANGED <<readVars, sending>> /\ closed' /\ worker'.pc = "closed"
    BY <1>10 DEF LoseConnection, Close, At, sendVars
  <2> QED BY <1>0, <1>s, <2>1
<1>11. CASE Put
  <2>1. UNCHANGED readVars /\ ~closed BY <1>11 DEF Put
  <2>2. CASE sending.half = 1
    <3>1. UNCHANGED <<closed, worker>> /\ sending' = [sending EXCEPT !.half = 2]
      BY <1>11, <2>2 DEF Put
    <3>2. sending'.thread = sending.thread BY <1>0, <3>1 DEF Sending
    <3> QED BY <1>0, <1>s, <2>1, <3>1, <3>2
  <2>3. CASE sending.half # 1
    <3>1. Sent(sending.thread) /\ sending'.thread = "nobody"
      BY <1>11, <2>3 DEF Put, NoSend
    <3> QED BY <1>0, <1>s, <2>1, <3>1, DoneReading
  <2> QED BY <2>2, <2>3
<1>12. CASE GiveUp
  <2>1. /\ UNCHANGED readVars /\ Raised(sending.thread)
        /\ sending'.thread = "nobody"
    BY <1>12 DEF GiveUp, NoSend
  <2> QED BY <1>0, <1>s, <2>1, DoneReading
<1>13. ASSUME NEW t \in Sender, Acquire(t) PROVE ReadingOK'
  <2>1. /\ UNCHANGED <<readVars, closed, worker>> /\ Waiting(t)
        /\ sending'.thread = t
    BY <1>13 DEF Acquire
  <2>2. t = "worker" => Quiet BY <2>1 DEF Waiting
  <2> QED BY <1>0, <1>s, <2>1, <2>2
<1>14. ASSUME NEW t \in Sender, SendOnClosed(t) PROVE ReadingOK'
  <2>1. UNCHANGED <<readVars, sending>> /\ t # "worker" /\ Raised(t)
    BY <1>14 DEF SendOnClosed
  <2>2. UNCHANGED <<worker, closed>> BY <2>1 DEF Raised, Sent
  <2> QED BY <1>0, <1>s, <2>1, <2>2
<1> QED
  BY <1>1, <1>2, <1>3, <1>4, <1>5, <1>6, <1>7, <1>8, <1>9, <1>10, <1>11, <1>12, <1>13, <1>14
  DEF SocketNext, Receive, Send

\* Whatever the relay sends and however long it takes, the messages the daemon
\* reads are the relay's, whole, in order and from the first on (recv_message),
\* unless connect() read beyond the answer to the upgrade.
THEOREM MessagesWhole == SocketSpec => []MessagesAreThose
<1>1. SocketInit => ReadTypeOK BY DEF SocketInit, ReadTypeOK
<1>2. SocketInit => ReadingOK
  BY DEF SocketInit, ReadingOK, AllThose, Reading, Asking, At, NoSend
<1>3. ReadingOK => MessagesAreThose BY DEF ReadingOK, AllThose, MessagesAreThose
<1>4. SocketTypeOK /\ [SocketNext]_socketVars => SocketTypeOK' BY SocketTypeStep
<1> QED
  BY <1>1, <1>2, <1>3, <1>4, SocketTypeCorrect, ReadTypeStep, ReadingStep, PTL
  DEF SocketSpec
=============================================================================

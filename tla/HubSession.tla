----------------------------- MODULE HubSession -----------------------------
(***************************************************************************)
(* How class AlbyHubManager talks to the daemon: ensure_ready obtains one  *)
(* bearer token and keeps it, _authenticated_request asks for a new one    *)
(* when the daemon refuses it, _paginate does not.  The daemon keeps its   *)
(* tokens in memory (issue_token, verify_token) and loses them when it is  *)
(* restarted, while the LNURL service and its cached token live on.        *)
(*                                                                         *)
(* A request is the sequence of calls one command makes: "list" for the    *)
(* first page of _paginate, "page" for a further page of that list, which  *)
(* goes out with the token the list began with, and "auth" for             *)
(* _authenticated_request.  It ends at the first call that raises.  Every  *)
(* request of the program begins with a list: it looks its wallet up.      *)
(* Tokens issued between two restarts are equally valid, so a token is the *)
(* number of the daemon's run that issued it.                              *)
(***************************************************************************)
EXTENDS Naturals, Sequences

CONSTANTS Thread,    \* threads that share one manager
          Request,   \* the sequences of calls the threads make
          NoThread,  \* nobody holds the manager's lock
          MaxFault   \* bound on restarts and LND outages together

ASSUME SessionAssumption == /\ NoThread \notin Thread
                            /\ Request \subseteq Seq({"list", "page", "auth"})
                            /\ \A r \in Request : r # <<>> => Head(r) = "list"
                            /\ MaxFault \in Nat

VARIABLES
  up,       \* the daemon answers
  run,      \* number of the daemon's current run; only its tokens are valid
  node,     \* LND answers the daemon
  token,    \* _token: 0 is None
  lock,     \* holder of _lock
  thread,   \* what each thread does: [pc, todo, token, retried]
  outcome,  \* how each thread's last request ended
  served,   \* history: how often the daemon executed the current call
  began,    \* history: the daemon's run when the current call began
  faults

daemonVars == <<up, run, node, faults>>
historyVars == <<served, began>>
sessionVars == <<daemonVars, token, lock, thread, outcome, historyVars>>

None == 0
At(pc, todo, tok, retried) == [pc |-> pc, todo |-> todo, token |-> tok, retried |-> retried]
AtRest == At("idle", <<>>, None, FALSE)
Goto(t, pc) == thread' = [thread EXCEPT ![t].pc = pc]
Call(t) == Head(thread[t].todo)

SessionInit == /\ up = TRUE /\ run = 1 /\ node = TRUE /\ faults = 0
               /\ token = None
               /\ lock = NoThread
               /\ thread = [t \in Thread |-> AtRest]
               /\ outcome = [t \in Thread |-> "none"]
               /\ served = [t \in Thread |-> 0]
               /\ began = [t \in Thread |-> 1]

-----------------------------------------------------------------------------
(* The daemon.                                                             *)

\* verify_token against the tokens in memory.
Accepts(tok) == up /\ tok = run

DaemonStops ==
  /\ up /\ faults < MaxFault
  /\ up' = FALSE
  /\ run' = run + 1
  /\ faults' = faults + 1
  /\ UNCHANGED <<node, token, lock, thread, outcome, historyVars>>

DaemonStarts ==
  /\ ~up
  /\ up' = TRUE
  /\ UNCHANGED <<run, node, faults, token, lock, thread, outcome, historyVars>>

NodeFails ==
  /\ node /\ faults < MaxFault
  /\ node' = FALSE
  /\ faults' = faults + 1
  /\ UNCHANGED <<up, run, token, lock, thread, outcome, historyVars>>

NodeReturns ==
  /\ ~node
  /\ node' = TRUE
  /\ UNCHANGED <<up, run, faults, token, lock, thread, outcome, historyVars>>

-----------------------------------------------------------------------------
(* ensure_ready.                                                           *)

Begin(t, r) ==
  /\ thread[t] = AtRest
  /\ r # <<>>
  /\ thread' = [thread EXCEPT ![t] = At("ensure", r, None, FALSE)]
  /\ outcome' = [outcome EXCEPT ![t] = "none"]
  /\ served' = [served EXCEPT ![t] = 0]
  /\ began' = [began EXCEPT ![t] = run]
  /\ UNCHANGED <<daemonVars, token, lock>>

\* An exception ends the request and leaves a with self._lock block.
Fail(t, why) ==
  /\ thread' = [thread EXCEPT ![t] = AtRest]
  /\ outcome' = [outcome EXCEPT ![t] = why]
  /\ lock' = IF lock = t THEN NoThread ELSE lock
  /\ UNCHANGED <<daemonVars, token, historyVars>>

UseCachedToken(t) ==
  /\ thread[t].pc = "ensure"
  /\ lock = NoThread
  /\ token # None
  /\ thread' = [thread EXCEPT ![t].pc = "send", ![t].token = token]
  /\ UNCHANGED <<daemonVars, token, lock, outcome, historyVars>>

EnterSetup(t) ==
  /\ thread[t].pc = "ensure"
  /\ lock = NoThread
  /\ token = None
  /\ lock' = t
  /\ Goto(t, "wait_for_hub")
  /\ UNCHANGED <<daemonVars, token, outcome, historyVars>>

\* _wait_for_hub_api polls for 120 seconds and raises if the last poll fails.
HubAnswers(t) ==
  /\ thread[t].pc = "wait_for_hub"
  /\ up
  /\ Goto(t, "unlock")
  /\ UNCHANGED <<daemonVars, token, lock, outcome, historyVars>>

HubWaitEnds(t) ==
  /\ thread[t].pc = "wait_for_hub"
  /\ ~up
  /\ Fail(t, "unavailable")

\* _hub_setup and _obtain_token: the daemon issues a token.
Unlock(t) ==
  /\ thread[t].pc = "unlock"
  /\ IF up
     THEN /\ thread' = [thread EXCEPT ![t].pc = "wait_for_node", ![t].token = run]
          /\ UNCHANGED <<daemonVars, token, lock, outcome, historyVars>>
     ELSE Fail(t, "unavailable")

\* _wait_for_node_ready: a refused token looks like a node that is not ready.
NodeIsReady(t) ==
  /\ thread[t].pc = "wait_for_node"
  /\ Accepts(thread[t].token) /\ node
  /\ token' = thread[t].token
  /\ lock' = NoThread
  /\ Goto(t, "send")
  /\ UNCHANGED <<daemonVars, outcome, historyVars>>

\* Mutant: the wait has no deadline.
NodeWaitNeverEnds(t) ==
  /\ thread[t].pc = "wait_for_node"
  /\ FALSE
  /\ Fail(t, "unavailable")

NodeWaitEnds(t) ==
  /\ thread[t].pc = "wait_for_node"
  /\ ~(Accepts(thread[t].token) /\ node)
  /\ Fail(t, "unavailable")

-----------------------------------------------------------------------------
(* _request, as _authenticated_request and _paginate use it.               *)

Serve(t) ==
  /\ thread[t].pc = "send"
  /\ Accepts(thread[t].token)
  /\ served' = [served EXCEPT ![t] = @ + 1]
  /\ Goto(t, "reply")
  /\ UNCHANGED <<daemonVars, token, lock, outcome, began>>

\* Mutant: an unreachable daemon is asked once more as well.
UnreachableRetried(t) ==
  /\ \/ thread[t].pc = "send" /\ ~up
     \/ thread[t].pc = "reply" /\ thread[t].token # run
  /\ IF thread[t].retried
     THEN Fail(t, "unavailable")
     ELSE /\ thread' = [thread EXCEPT ![t] = At("reset", @.todo, None, TRUE)]
          /\ UNCHANGED <<daemonVars, token, lock, outcome, historyVars>>

\* The daemon is down, or went down with the reply.
Unreachable(t) ==
  /\ \/ thread[t].pc = "send" /\ ~up
     \/ thread[t].pc = "reply" /\ thread[t].token # run
  /\ Fail(t, "unavailable")

\* Mutant: the refused token is kept.
RefusedKeepsToken(t) ==
  /\ thread[t].pc = "send"
  /\ up /\ ~Accepts(thread[t].token)
  /\ IF Call(t) = "auth" /\ ~thread[t].retried
     THEN /\ thread' = [thread EXCEPT ![t] = At("ensure", @.todo, None, TRUE)]
          /\ UNCHANGED <<daemonVars, token, lock, outcome, historyVars>>
     ELSE Fail(t, IF Call(t) = "auth" THEN "refused" ELSE "stale")

\* 401: _authenticated_request tries again once, _paginate raises.
Refused(t) ==
  /\ thread[t].pc = "send"
  /\ up /\ ~Accepts(thread[t].token)
  /\ IF Call(t) = "auth" /\ ~thread[t].retried
     THEN /\ thread' = [thread EXCEPT ![t] = At("reset", @.todo, None, TRUE)]
          /\ UNCHANGED <<daemonVars, token, lock, outcome, historyVars>>
     ELSE Fail(t, IF Call(t) = "auth" THEN "refused" ELSE "stale")

\* The cached token is dropped even if another thread has just renewed it.
ResetToken(t) ==
  /\ thread[t].pc = "reset"
  /\ lock = NoThread
  /\ token' = None
  /\ Goto(t, "ensure")
  /\ UNCHANGED <<daemonVars, lock, outcome, historyVars>>

\* A further page goes out with the list's token, any other call asks for one.
AfterReply(x) ==
  LET todo == Tail(x.todo)
  IN  IF Head(todo) = "page" THEN At("send", todo, x.token, FALSE)
                             ELSE At("ensure", todo, None, FALSE)

Reply(t) ==
  /\ thread[t].pc = "reply"
  /\ thread[t].token = run
  /\ IF Len(thread[t].todo) = 1
     THEN /\ thread' = [thread EXCEPT ![t] = AtRest]
          /\ outcome' = [outcome EXCEPT ![t] = "ok"]
          /\ UNCHANGED historyVars
     ELSE /\ thread' = [thread EXCEPT ![t] = AfterReply(@)]
          /\ served' = [served EXCEPT ![t] = 0]
          /\ began' = [began EXCEPT ![t] = run]
          /\ UNCHANGED outcome
  /\ UNCHANGED <<daemonVars, token, lock>>

-----------------------------------------------------------------------------
\* The LNURL service is restarted, or the next nwc-wallet command is started: a
\* process with no token, whatever the threads of the one before were doing.
ProcessStarts ==
  /\ faults < MaxFault
  /\ token' = None /\ lock' = NoThread
  /\ thread' = [t \in Thread |-> AtRest]
  /\ outcome' = [t \in Thread |-> "none"]
  /\ served' = [t \in Thread |-> 0]
  /\ faults' = faults + 1
  /\ UNCHANGED <<up, run, node, began>>

ThreadStep(t) == \/ UseCachedToken(t) \/ EnterSetup(t)
                 \/ HubAnswers(t) \/ HubWaitEnds(t) \/ Unlock(t)
                 \/ NodeIsReady(t) \/ NodeWaitEnds(t)
                 \/ Serve(t) \/ Unreachable(t) \/ Refused(t) \/ ResetToken(t) \/ Reply(t)

Ask(t) == \E r \in Request : Begin(t, r)

SessionNext == \/ DaemonStops \/ DaemonStarts \/ NodeFails \/ NodeReturns
               \/ ProcessStarts
               \/ \E t \in Thread : Ask(t) \/ ThreadStep(t)

SessionSpec == SessionInit /\ [][SessionNext]_sessionVars

\* A thread makes progress, and competes for a lock that is released again
\* and again; the daemon is restarted (Restart=on-failure) and LND returns.
FairSessionSpec == /\ SessionSpec
                   /\ WF_sessionVars(DaemonStarts) /\ WF_sessionVars(NodeReturns)
                   /\ \A t \in Thread : SF_sessionVars(ThreadStep(t))

-----------------------------------------------------------------------------
\* A refused request was not executed, so repeating it, be it the creation of
\* a wallet or a transfer, executes it at most once.
ServedAtMostOnce == \A t \in Thread : served[t] <= 1

\* Threads take the lock for minutes while one of them waits for the daemon
\* and LND, and drop each other's tokens: every request still ends.
RequestsEnd == \A t \in Thread : (thread[t].pc # "idle") ~> (thread[t].pc = "idle")

\* "retry once with a fresh token on 401/403" (_authenticated_request) outlives
\* one restart of the daemon, although other threads drop and renew the same
\* token: such a call is refused for good only if the daemon was restarted twice
\* while it was made.  Lists are excepted: with a token of an earlier run a list
\* ends "stale", and the next one again, until a call of _authenticated_request
\* meets that token or the process is restarted; every request begins with a list.
AuthSurvivesRestart ==
  [][\A t \in Thread :
       outcome'[t] = "refused" /\ outcome[t] # "refused" => run > began[t] + 1]_sessionVars
=============================================================================

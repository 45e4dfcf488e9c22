---------------------------- MODULE Provisioning ----------------------------
(***************************************************************************)
(* Declared wallets: albyhub.service starts the daemon and then runs       *)
(* provisionWalletsScript (modules/albyhub.nix) as ExecStartPost.  For     *)
(* each declared wallet the script looks for its alias in the output of    *)
(* nwc-wallet list, runs nwc-wallet create if it is not there, and writes  *)
(* the pairing URI, which create prints once, to a file.  If a command     *)
(* fails, the script stops (set -euo pipefail), the unit fails, daemon     *)
(* included, and systemd starts it again.                                  *)
(*                                                                         *)
(* The machine or the unit may stop at any time, and the operator deletes, *)
(* rotates and creates wallets with nwc-wallet and changes the             *)
(* configuration.  A pairing URI is a number: every one is new.            *)
(***************************************************************************)
EXTENDS Naturals, FiniteSets, Sequences

CONSTANTS Config,     \* configurations: sequences of [name, alias], in the
                      \* order of names
          Lower,      \* spelling of an alias -> its lower-case form
          Valid,      \* aliases that NWC_ALIAS_RE accepts
          ByHand,     \* wallets [name, alias] the operator creates
          MaxFailure, \* bound on stops and commands that fail together
          MaxOp       \* bound on the operator's commands and rebuilds

ASSUME ProvisioningAssumption ==
  /\ Config \subseteq Seq([name : STRING, alias : DOMAIN Lower])
  /\ MaxFailure \in Nat /\ MaxOp \in Nat

VARIABLES
  config,
  unit,       \* albyhub.service: "stopped", "starting", "active", "failed"
  script,     \* [pc, i, out]: step, index of the wallet, what create printed
  wallets,    \* managed wallets: [name, alias, uri]
  file,       \* <dataDir>/wallets/<alias>.pairing-uri
  lastUri,
  interrupted,  \* history: aliases whose wallet was created and whose file was
                \* not written by the same run of the script
  touched,      \* history: aliases the operator created, rotated or deleted
  failures, ops

listVars == <<wallets, lastUri>>
unitVars == <<config, unit, script, listVars, file, interrupted, touched, failures, ops>>

NoFile == 0
Empty == 0 - 1
ScriptAt(pc, i, out) == [pc |-> pc, i |-> i, out |-> out]
Off == ScriptAt("off", 0, NoFile)
Spellings == DOMAIN Lower
Declared == config[script.i]

UnitInit ==
  /\ config \in Config
  /\ unit = "stopped"
  /\ script = Off
  /\ wallets = {} /\ lastUri = 0
  /\ file = [s \in Spellings |-> NoFile]
  /\ interrupted = {} /\ touched = {}
  /\ failures = 0 /\ ops = 0

-----------------------------------------------------------------------------
(* The manager's checks, see HubManager for their races.                    *)

Taken(name, alias) == \E w \in wallets : w.name = name \/ w.alias = alias
NewWallet(name, alias) ==
  /\ lastUri' = lastUri + 1
  /\ wallets' = wallets \cup {[name |-> name, alias |-> alias, uri |-> lastUri + 1]}

-----------------------------------------------------------------------------
(* The script.                                                             *)

AtWallet(i) == IF i <= Len(config) THEN ScriptAt("check", i, NoFile) ELSE Off

StartUnit ==
  /\ unit \in {"stopped", "failed"}
  /\ script' = AtWallet(1)
  /\ unit' = IF script' = Off THEN "active" ELSE "starting"
  /\ UNCHANGED <<config, listVars, file, interrupted, touched, failures, ops>>

ScriptTo(pc, out) == script' = ScriptAt(pc, script.i, out)

NextWallet == /\ script' = AtWallet(script.i + 1)
              /\ unit' = IF script' = Off THEN "active" ELSE "starting"

\* A wallet that was created and whose file is not written yet.
Unwritten == IF script.pc \in {"open", "fill"} THEN {Lower[Declared.alias]} ELSE {}

ScriptFails == script' = Off /\ unit' = "failed"

\* Mutant: the check compares with the wallet's name.
ListedByName ==
  /\ script.pc = "check"
  /\ IF \E w \in wallets : w.alias = Declared.name
     THEN NextWallet
     ELSE ScriptTo("create", NoFile) /\ UNCHANGED unit
  /\ UNCHANGED <<config, listVars, file, interrupted, touched, failures, ops>>

\* jq compares with the alias as it is declared.
Listed ==
  /\ script.pc = "check"
  /\ IF \E w \in wallets : w.alias = Declared.alias
     THEN NextWallet
     ELSE ScriptTo("create", NoFile) /\ UNCHANGED unit
  /\ UNCHANGED <<config, listVars, file, interrupted, touched, failures, ops>>

\* nwc-wallet list fails: to the condition that is a wallet that is not there.
ListFails ==
  /\ script.pc = "check"
  /\ failures < MaxFailure
  /\ failures' = failures + 1
  /\ ScriptTo("create", NoFile)
  /\ UNCHANGED <<config, unit, listVars, file, interrupted, touched, ops>>

\* nwc-wallet create lower-cases and validates the alias.
Create ==
  /\ script.pc = "create"
  /\ Lower[Declared.alias] \in Valid
  /\ ~Taken(Declared.name, Lower[Declared.alias])
  /\ NewWallet(Declared.name, Lower[Declared.alias])
  /\ ScriptTo("open", lastUri + 1)
  /\ UNCHANGED <<config, unit, file, interrupted, touched, failures, ops>>

\* Mutant: without set -e the script goes on with what create printed: nothing.
RefusalIgnored ==
  /\ script.pc = "create"
  /\ Lower[Declared.alias] \notin Valid \/ Taken(Declared.name, Lower[Declared.alias])
  /\ ScriptTo("open", NoFile)
  /\ UNCHANGED <<config, unit, listVars, file, interrupted, touched, failures, ops>>

CreateRefused ==
  /\ script.pc = "create"
  /\ Lower[Declared.alias] \notin Valid \/ Taken(Declared.name, Lower[Declared.alias])
  /\ ScriptFails
  /\ UNCHANGED <<config, listVars, file, interrupted, touched, failures, ops>>

\* The daemon does not answer, before or after it has created the wallet.
CreateFails ==
  /\ script.pc = "create"
  /\ failures < MaxFailure
  /\ failures' = failures + 1
  /\ ScriptFails
  /\ \/ UNCHANGED <<listVars, interrupted>>
     \/ /\ Lower[Declared.alias] \in Valid
        /\ ~Taken(Declared.name, Lower[Declared.alias])
        /\ NewWallet(Declared.name, Lower[Declared.alias])
        /\ interrupted' = interrupted \cup {Lower[Declared.alias]}
  /\ UNCHANGED <<config, file, touched, ops>>

\* The redirection truncates the file before jq writes.
OpenFile ==
  /\ script.pc = "open"
  /\ file' = [file EXCEPT ![Declared.alias] = Empty]
  /\ ScriptTo("fill", script.out)
  /\ UNCHANGED <<config, unit, listVars, interrupted, touched, failures, ops>>

FillFile ==
  /\ script.pc = "fill"
  /\ file' = [file EXCEPT ![Declared.alias] = script.out]
  /\ interrupted' = interrupted \ {Lower[Declared.alias]}
  /\ NextWallet
  /\ UNCHANGED <<config, listVars, touched, failures, ops>>

-----------------------------------------------------------------------------
(* Everything around the script.                                           *)

Stop ==
  /\ unit \in {"starting", "active"}
  /\ failures < MaxFailure
  /\ failures' = failures + 1
  /\ unit' = "stopped"
  /\ interrupted' = interrupted \cup Unwritten
  /\ script' = Off
  /\ UNCHANGED <<config, listVars, file, touched, ops>>

Command(alias) == /\ unit \in {"starting", "active"}
                  /\ ops < MaxOp
                  /\ ops' = ops + 1
                  /\ touched' = touched \cup {alias}
                  /\ UNCHANGED <<config, unit, script, file, interrupted, failures>>

OperatorCreates(new) ==
  /\ Command(new.alias)
  /\ ~Taken(new.name, new.alias)
  /\ NewWallet(new.name, new.alias)

OperatorDeletes(w) ==
  /\ Command(w.alias)
  /\ wallets' = wallets \ {w}
  /\ UNCHANGED lastUri

OperatorRotates(w) ==
  /\ Command(w.alias)
  /\ lastUri' = lastUri + 1
  /\ wallets' = (wallets \ {w}) \cup {[w EXCEPT !.uri = lastUri + 1]}

\* nixos-rebuild switch stops the unit and starts the new one.
Rebuild(c) ==
  /\ c # config
  /\ ops < MaxOp
  /\ ops' = ops + 1
  /\ config' = c
  /\ unit' = "stopped"
  /\ interrupted' = interrupted \cup Unwritten
  /\ script' = Off
  /\ UNCHANGED <<listVars, file, touched, failures>>

Script == \/ Listed \/ ListFails
          \/ Create \/ CreateRefused \/ CreateFails
          \/ OpenFile \/ FillFile

UnitNext ==
  \/ StartUnit \/ Script \/ Stop
  \/ \E new \in ByHand : OperatorCreates(new)
  \/ \E w \in wallets : OperatorDeletes(w) \/ OperatorRotates(w)
  \/ \E c \in Config : Rebuild(c)

UnitSpec == UnitInit /\ [][UnitNext]_unitVars

\* Restart=on-failure, wantedBy=multi-user.target, and a script that runs.
FairUnitSpec == UnitSpec /\ WF_unitVars(StartUnit) /\ WF_unitVars(Script)

-----------------------------------------------------------------------------
\* No run of the script, whatever fails in it, touches the file of a wallet an
\* earlier run created: unless the operator changed the wallet or the script
\* was interrupted between creating it and writing the file, its pairing URI
\* is on disk.
UriIsKept ==
  \A w \in wallets :
    w.alias \in touched \cup interrupted \cup Unwritten
      \/ \E s \in Spellings : Lower[s] = w.alias /\ file[s] = w.uri

\* A declared wallet that the list does not show under its spelling and that
\* create refuses: an alias with capitals once its wallet exists, a new alias
\* for a name that has a wallet, a name or an alias the operator used for
\* another wallet, an alias that is not valid.
Stuck ==
  \E i \in 1..Len(config) :
    LET alias == Lower[config[i].alias]
    IN  /\ \A w \in wallets : w.alias # config[i].alias
        /\ alias \notin Valid \/ Taken(config[i].name, alias)

\* "Each wallet is provisioned idempotently" (albyhub.nix), with exceptions:
\* once stops, failures and changes end, the unit is up for good and every
\* declared wallet exists, unless one of them is stuck, in which case every
\* start fails (a wallet that the operator deletes comes back at the next
\* start only).
StartsAndProvisions ==
  \/ <>[](/\ unit = "active"
          /\ \A i \in 1..Len(config) :
               LET alias == Lower[config[i].alias]
               IN  alias \in touched \/ \E w \in wallets : w.alias = alias)
  \/ <>[]Stuck
=============================================================================

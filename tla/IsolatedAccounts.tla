-------------------------- MODULE IsolatedAccounts --------------------------
(***************************************************************************)
(* What the sub-wallet ledger promises, with no tables and no NIP-47: a    *)
(* set of isolated accounts, each with money it may use and holds placed   *)
(* for payments whose outcome is not known yet.  An account never spends   *)
(* what it does not have, a hold is only ever placed on money that is      *)
(* there, and it ends once, giving back at most what it took.              *)
(* NwcStore implements this module (NwcStore!Accounts).                    *)
(***************************************************************************)
EXTENDS Integers, Functions

CONSTANTS Account,  \* names an account may ever get
          HoldId    \* names a hold may ever get

VARIABLES avail,    \* open account -> money it may use
          holds     \* placed hold -> [account, amount]

vars == <<avail, holds>>

Plus(table, a, x) == [table EXCEPT ![a] = @ + x]
Minus(table, a, x) == [table EXCEPT ![a] = @ - x]

Init == /\ avail = [a \in {} |-> 0]
        /\ holds = [h \in {} |-> 0]

Open(a) == /\ a \notin DOMAIN avail
           /\ avail' = [b \in DOMAIN avail \cup {a} |->
                          IF b = a THEN 0 ELSE avail[b]]
           /\ UNCHANGED holds

\* Closing an account drops its money and its holds with it.
Close(a) == /\ avail' = Restrict(avail, DOMAIN avail \ {a})
            /\ holds' = Restrict(holds, {h \in DOMAIN holds : holds[h].account # a})

\* Money may come in from outside, any amount of it.
Deposit(a) == /\ avail'[a] >= avail[a]
              /\ avail' = [avail EXCEPT ![a] = avail'[a]]
              /\ UNCHANGED holds

Withdraw(a) == \E x \in 0..avail[a] :
                 /\ avail' = Minus(avail, a, x)
                 /\ UNCHANGED holds

Move(a, b) == \E x \in 0..avail[a] :
                /\ avail' = Plus(Minus(avail, a, x), b, x)
                /\ UNCHANGED holds

Place(h, a) == \E x \in 0..avail[a] :
                 /\ avail' = Minus(avail, a, x)
                 /\ holds' = [k \in DOMAIN holds \cup {h} |->
                                IF k = h THEN [account |-> a, amount |-> x]
                                         ELSE holds[k]]

\* The payment behind hold h is over; back is what the account gets back.
Resolve(h) == \E back \in 0..holds[h].amount :
                /\ avail' = Plus(avail, holds[h].account, back)
                /\ holds' = Restrict(holds, DOMAIN holds \ {h})

Next == \/ \E a \in Account : Open(a)
        \/ \E a \in DOMAIN avail : Close(a) \/ Deposit(a) \/ Withdraw(a)
        \/ \E a, b \in DOMAIN avail : Move(a, b)
        \/ \E a \in DOMAIN avail, h \in HoldId \ DOMAIN holds : Place(h, a)
        \/ \E h \in DOMAIN holds : Resolve(h)

Spec == Init /\ [][Next]_vars
=============================================================================

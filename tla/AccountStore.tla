---------------------------- MODULE AccountStore ----------------------------
(***************************************************************************)
(* What the account manager promises: a few accounts, each empty or        *)
(* holding one wallet under one password.  A wallet appears, vanishes and  *)
(* changes its password in one step each, except that a password change    *)
(* passes through a state where the wallet cannot be opened, and in which  *)
(* a power loss may leave it.  Its secret never changes.                   *)
(***************************************************************************)
CONSTANTS Accounts, Passwords, Secrets, Empty

VARIABLE wallet     \* wallet[a]: Empty, or a secret, a password and
                    \* whether the password opens it

Init == wallet = [a \in Accounts |-> Empty]

(* No other account answers to this password. *)
Free(a, pw) ==
    \A b \in Accounts \ {a} : wallet[b] = Empty \/ wallet[b].password # pw

Create(a, s, pw) ==
    /\ wallet[a] = Empty
    /\ Free(a, pw)
    /\ wallet' = [wallet EXCEPT
                    ![a] = [secret |-> s, password |-> pw, open |-> TRUE]]

BeginChange(a) ==
    /\ wallet[a] # Empty
    /\ wallet[a].open
    /\ wallet' = [wallet EXCEPT ![a].open = FALSE]

EndChange(a, pw) ==
    /\ wallet[a] # Empty
    /\ ~wallet[a].open
    /\ Free(a, pw)
    /\ wallet' = [wallet EXCEPT ![a].open = TRUE, ![a].password = pw]

Remove(a) ==
    /\ wallet[a] # Empty
    /\ wallet' = [wallet EXCEPT ![a] = Empty]

Next ==
    \E a \in Accounts :
        \/ BeginChange(a) \/ Remove(a)
        \/ \E pw \in Passwords :
              EndChange(a, pw) \/ \E s \in Secrets : Create(a, s, pw)

Spec == Init /\ [][Next]_wallet
=============================================================================

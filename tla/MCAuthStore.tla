---------------------------- MODULE MCAuthStore ----------------------------
(* Finite instance of AuthStore.                                            *)
EXTENDS AuthStore

\* Two accounts, so that a tab may hold one account's token and hear of the other's.
TwoAccounts == <<"ann", "bob", "ann">>
=============================================================================

------------------------------- MODULE MCAccounts -------------------------------
(* Accounts for TLC: three mailboxes, two Google users, two requests.        *)
EXTENDS Accounts, TLC

MCEnvironments ==
    {{"typed"}, {"moves", "unverified"}, {"reassigned"}, {"twoTabs"}, {"expires"}, {"mailFails"},
     {"readFails"}, {"writeFails"}, {"crash"}, {"overlap"}, {"overlap", "unverified"}}

AnyOrder == Permutations(Mailbox) \cup Permutations(GoogleUser) \cup Permutations(Request)
=============================================================================

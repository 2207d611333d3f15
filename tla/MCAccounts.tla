----------------------------- MODULE MCAccounts -----------------------------
EXTENDS Accounts, TLC

Symmetric == Permutations(Users) \cup Permutations(Handlers)

OneAtATime == {{"github"}, {"gate"}, {"buckets"}, {"app"}, {"registries"}}
=============================================================================

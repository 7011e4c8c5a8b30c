------------------------------ MODULE MCAccounts ------------------------------
EXTENDS Accounts

\* An installation nobody has claimed, one with its owner alone, and one with a
\* member of each role.
Owner == NewUser("a", "owner")
MCTeams == {<<>>, <<Owner>>, <<Owner, NewUser("b", "admin"), NewUser("c", "editor")>>}
=============================================================================

------------------------------ MODULE AuthSession ------------------------------
(***************************************************************************)
(* What a login session promises its user, whatever the CLI does with      *)
(* files and tokens: at any time it belongs to one identity, resource      *)
(* servers are only ever added for that identity, and it has to be empty   *)
(* before it can become somebody else's.                                   *)
(***************************************************************************)
CONSTANTS Identities, ResourceServers, NoIdentity

VARIABLES
    who,      \* the identity logged in as
    owner     \* whose tokens each resource server's are, or NoIdentity

Init ==
    /\ who \in Identities \cup {NoIdentity}
    /\ owner \in [ResourceServers -> {NoIdentity, who}]

\* Log in to an empty session.
Claim(i) ==
    /\ who = NoIdentity
    /\ who' = i
    /\ UNCHANGED owner

\* Get tokens for some resource servers.
Acquire(servers) ==
    /\ who # NoIdentity
    /\ owner' = [rs \in ResourceServers |-> IF rs \in servers THEN who ELSE owner[rs]]
    /\ UNCHANGED who

\* Give up those of one resource server.
Release(rs) ==
    /\ owner' = [owner EXCEPT ![rs] = NoIdentity]
    /\ UNCHANGED who

\* End the session, once it holds nothing.
Close ==
    /\ owner = [rs \in ResourceServers |-> NoIdentity]
    /\ who' = NoIdentity
    /\ UNCHANGED owner

Next ==
    \/ \E i \in Identities : Claim(i)
    \/ \E servers \in SUBSET ResourceServers : Acquire(servers)
    \/ \E rs \in ResourceServers : Release(rs)
    \/ Close

Spec == Init /\ [][Next]_<<who, owner>>
===============================================================================

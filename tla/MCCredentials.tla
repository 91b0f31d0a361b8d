---------------------------- MODULE MCCredentials ----------------------------
\* Small instances of Credentials.
EXTENDS Credentials, FiniteSets, TLC

Symmetric == Permutations(Requests)

Used(rows) == Cardinality({x \in DOMAIN rows : rows[x].status # "none"})

Waiting == {r \in Requests : requests[r].kind # "idle"}

\* Grants are asked for and spent around one recovery, with nothing else going on.
OneConcern ==
    Used(grants) > 0 \/ (\E r \in Waiting : requests[r].kind = "grant") =>
        /\ history.mails = 0 /\ Used(recoveries) <= 1 /\ user.generation <= 1 /\ ~user.closed
        /\ history.eras = Cardinality({a \in Recoveries : recoveries[a].status = "consumed"})
        /\ Cardinality(Waiting) <= 1
        /\ \A r \in Waiting : requests[r].kind \in {"grant", "recover"}

\* Without a provider login the time says nothing.
Bounded == OneConcern /\ now = 1
=============================================================================

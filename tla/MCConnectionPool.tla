-------------------------- MODULE MCConnectionPool --------------------------
(* ConnectionPool for a few threads and every kind of configuration. *)
EXTENDS ConnectionPool, TLC

\* Where connections are scarcer than threads, where one of three in use makes
\* the pool smaller, and where the pool does not fit into its array.
AnyConfig ==
    {c \in ConfigType : c.initial = 1 /\ c.max = 2}
    \cup {c \in ConfigType : c.initial = 1 /\ c.max = 3 /\ c.autoscale /\ ~c.cools}
    \cup {c \in ConfigType : c.initial = 2 /\ c.max = 1}

\* The default configuration, which scales automatically.
DefaultConfig == {[initial |-> 1, max |-> 3, autoscale |-> TRUE, cools |-> TRUE,
                   resizes |-> FALSE, fails |-> FALSE]}

PoolSymmetry == Permutations(Threads) \cup Permutations(Conns)
=============================================================================

--------------------------- MODULE MCDriverSession ---------------------------
(* Every driver at every TLS mode, login, secret, tunnel and client          *)
(* certificate, a few at a time; each driver's session over one plain link.  *)
EXTENDS DriverSession

MCFeatures == Kinds \ {"scylla"}

AllParams == {"host", "database", "account", "user", "file"}
Base_(k) == [driver |-> k, params |-> AllParams, port |-> 0, auth |-> "password",
             secret |-> "literal", tls |-> "prefer", identity |-> "none", tunnel |-> "none"]

Postures == {[Base_(k) EXCEPT !.tls = t, !.tunnel = u] :
               k \in Kinds, t \in TlsMode, u \in {"none", "password"}}
Logins == {[Base_(k) EXCEPT !.auth = a, !.secret = x] : k \in Kinds, a \in AuthKind, x \in Secret}
Tunnels == {[Base_(k) EXCEPT !.tunnel = u, !.secret = x, !.tls = t] :
              k \in {"postgres", "mysql", "snowflake"}, u \in TunnelAuth, x \in Secret,
              t \in {"prefer", "verify_full"}}
Files == {[Base_(k) EXCEPT !.identity = i, !.tls = t] :
            k \in Kinds, i \in {"none", "both", "half", "unreadable"}, t \in {"prefer", "verify_ca"}}
Missing == {[Base_(k) EXCEPT !.params = AllParams \ {p}] : k \in Kinds, p \in AllParams}

MCSessionSpecs == {[Base_(k) EXCEPT !.tls = "disable"] : k \in Kinds \ {"snowflake"}}
                    \cup {[Base_("snowflake") EXCEPT !.auth = "provider", !.tls = "disable"]}

MCSpecs == Postures \cup Logins \cup Tunnels \cup Files \cup Missing \cup MCSessionSpecs

\* Two schemas with a table and indexes of the same names, views of each sort, and
\* a schema that holds nothing but a materialized one.
Index_(n, u, p, parts, inc) == [name |-> n, unique |-> u, primary |-> p,
                                parts |-> parts, included |-> inc]
Table_(s, pk, indexes) == [schema |-> s, name |-> "t", type |-> "table",
                           cols |-> <<"id", "x", "y">>, pk |-> pk, indexes |-> indexes]
View_(s, n, type) == [schema |-> s, name |-> n, type |-> type, cols |-> <<"x">>, pk |-> <<>>,
                      indexes |-> <<>>]

A == Table_("a", <<"id">>, <<Index_("by", FALSE, FALSE, <<"y", "x">>, <<>>),
                             Index_("key", TRUE, TRUE, <<"id">>, <<"y">>)>>)
B == Table_("b", <<"x", "id">>, <<Index_("by", TRUE, FALSE, <<"x", "y">>, <<"id">>),
                                  Index_("key", TRUE, TRUE, <<"x", "id">>, <<>>)>>)
Computed == Table_("a", <<"id">>, <<Index_("fx", FALSE, FALSE, <<Expression, "x">>, <<>>),
                                    Index_("gx", TRUE, FALSE, <<Expression>>, <<>>)>>)

MCWorlds == {<<>>,
             <<A, View_("a", "v", "view")>>,
             <<Computed>>,
             <<A, View_("a", "v", "view"), B, View_("b", "w", "view")>>,
             <<A, View_("a", "w", "materialized"), B>>,
             <<A, View_("b", "w", "materialized")>>}
=============================================================================

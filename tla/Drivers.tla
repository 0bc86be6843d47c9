------------------------------ MODULE Drivers ------------------------------
(***************************************************************************)
(* The static side of the daemon's drivers (src/native/src/spec.rs,        *)
(* registry.rs and the META constants of src/native/src/drivers/): what a  *)
(* driver declares about itself, which drivers a build registers, and what *)
(* a connection specification asks for.  No state: the modules that open   *)
(* links (Connecting) and use them (DriverSession) are written over these  *)
(* tables.                                                                 *)
(***************************************************************************)
EXTENDS Naturals

CONSTANT Features        \* the driver features the daemon was built with

AuthKind == {"none", "password", "client_cert", "provider", "kerberos"}

TlsMode == {"disable", "prefer", "require", "verify_ca", "verify_full"}

Caps == {"sql", "schemas", "cancel", "tls", "tunnel", "multi_db", "kv",
         "indexes", "ddl"}

-----------------------------------------------------------------------------
(* One record per META constant.  port = 0 is "no default", file says that  *)
(* the driver declares a File parameter.                                    *)

PG_META == [kind |-> "postgres", port |-> 5432, file |-> FALSE,
            required |-> {"host", "database"},
            auth |-> {"none", "password", "client_cert"},
            caps |-> {"sql", "schemas", "cancel", "tls", "tunnel", "multi_db", "indexes"}]

CRDB_META == [PG_META EXCEPT !.kind = "cockroachdb", !.port = 26257]

MYSQL_META == [kind |-> "mysql", port |-> 3306, file |-> FALSE,
               required |-> {"host"},
               auth |-> {"none", "password", "client_cert"},
               caps |-> Caps \ {"kv"}]

MARIADB_META == [MYSQL_META EXCEPT !.kind = "mariadb"]

MONGO_META == [kind |-> "mongodb", port |-> 27017, file |-> FALSE,
               required |-> {"host", "database"},
               auth |-> AuthKind \ {"kerberos"},
               caps |-> Caps \ {"sql", "cancel", "ddl"}]

REDIS_META == [kind |-> "redis", port |-> 6379, file |-> FALSE,
               required |-> {"host"},
               auth |-> {"none", "password"},
               caps |-> {"schemas", "tls", "tunnel", "multi_db", "kv"}]

CLICKHOUSE_META == [kind |-> "clickhouse", port |-> 8123, file |-> FALSE,
                    required |-> {"host"},
                    auth |-> {"none", "password"},
                    caps |-> Caps \ {"cancel", "kv"}]

MSSQL_META == [kind |-> "sqlserver", port |-> 1433, file |-> FALSE,
               required |-> {"host"},
               auth |-> {"password"},
               caps |-> Caps \ {"cancel", "kv", "ddl"}]

CASSANDRA_META == [kind |-> "cassandra", port |-> 9042, file |-> FALSE,
                   required |-> {"host"},
                   auth |-> {"none", "password"},
                   caps |-> Caps \ {"cancel", "kv", "ddl"}]

SCYLLA_META == [CASSANDRA_META EXCEPT !.kind = "scylla"]

FIREBIRD_META == [kind |-> "firebird", port |-> 3050, file |-> FALSE,
                  required |-> {"host", "database"},
                  auth |-> {"password"},
                  caps |-> {"sql", "schemas", "tunnel", "indexes"}]

SNOWFLAKE_META == [kind |-> "snowflake", port |-> 0, file |-> FALSE,
                   required |-> {"account", "user"},
                   auth |-> {"client_cert", "provider"},
                   caps |-> {"sql", "schemas", "tls", "multi_db", "ddl"}]

SQLITE_META == [kind |-> "sqlite", port |-> 0, file |-> TRUE,
                required |-> {"file"},
                auth |-> {"none"},
                caps |-> {"sql", "schemas", "indexes", "ddl"}]

DUCKDB_META == [SQLITE_META EXCEPT !.kind = "duckdb"]

-----------------------------------------------------------------------------
(* The registry.  cockroachdb is added inside the postgres block.           *)

Metas == {PG_META, CRDB_META, MYSQL_META, MARIADB_META, MONGO_META, REDIS_META,
          CLICKHOUSE_META, MSSQL_META, CASSANDRA_META, SCYLLA_META, FIREBIRD_META,
          SNOWFLAKE_META, SQLITE_META, DUCKDB_META}

Registry == {m \in Metas : /\ m.kind \in Features
                           /\ m.kind = "cockroachdb" => "postgres" \in Features}

Kinds == {m.kind : m \in Metas}

Meta(kind) == CHOOSE m \in Metas : m.kind = kind

\* Registry::get and the lookup of Server::test: is this kind served at all.
Registered(kind) == \E m \in Registry : m.kind = kind

-----------------------------------------------------------------------------
(* What a specification asks for.                                           *)

\* A template: absent, the text itself, or a verb resolved at connect time.
\* "malformed" is a template whose verb or quoting is wrong.
Secret == {"empty", "literal", "env", "cmd", "vault", "malformed"}

TunnelAuth == {"agent", "key", "password"}

\* params is the set of keys with a non-empty value, identity what the TLS tab
\* holds of a client certificate: nothing, both files readable, only one of
\* the two named, or a file that cannot be read.
ConnSpec == [driver   : Kinds,
             params   : SUBSET {"host", "database", "account", "user", "file"},
             port     : Nat,
             auth     : AuthKind,
             secret   : Secret,
             tls      : TlsMode,
             identity : {"none", "both", "half", "unreadable"},
             tunnel   : TunnelAuth \cup {"none"}]

Required(s) == s.tls \in {"require", "verify_ca", "verify_full"}
Wanted(s) == s.tls # "disable"
VerifiesCert(s) == s.tls \in {"verify_ca", "verify_full"}
VerifiesHostname(s) == s.tls = "verify_full"

Port(s, default) == IF s.port = 0 THEN default ELSE s.port

Tunneled(s) == s.tunnel # "none"

Has(s, cap) == cap \in Meta(s.driver).caps
=============================================================================

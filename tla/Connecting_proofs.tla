------------------------- MODULE Connecting_proofs -------------------------
(***************************************************************************)
(* What Connecting guarantees for every set of specifications, every       *)
(* server and every bound.                                                 *)
(*                                                                         *)
(* The argument: a plan is a straight line, so what a step before `at'     *)
(* established still holds (Behind); what a connection needs at its dial   *)
(* (the address of the forward, the refusal of an unprotected CQL link)    *)
(* stands earlier in its driver's plan (PlanFacts).  The plaintext replay  *)
(* starts only where no protection is required (Replay), and an SSH        *)
(* session is accounted for by the guard, by the login under way, or by    *)
(* the bridge tasks (Tunnel).                                              *)
(***************************************************************************)
EXTENDS Connecting, TLAPS

Netted(s) == Plan(s).style \in {"fallback", "level", "plain"}

LoggingIn == \/ stage \in {"login", "offer", "agent", "bind"}
             \/ stage = "vault" /\ Steps[at] = "net"

\* Inside a step: which one, and in which attempts.
Inside ==
  /\ stage \in {"login", "vault", "offer", "agent", "bind"}
       => Working /\ at \in DOMAIN Steps /\ Steps[at] \in {"net", "secret"}
  /\ status = "live" => at = 1 /\ round = 1 /\ stage = "plan" /\ op = "connect"
  /\ status = "switching" <=> op = "switch"
  /\ status = "switching" => spec.driver \in {"postgres", "cockroachdb"}
  /\ status = "opening" => told = "nothing" /\ ~warned

\* What the steps already taken have left.
Behind ==
  \A j \in 1..(at - 1) :
    /\ Steps[j] = "net" => addr # "none"
    /\ Steps[j] = "native" => ~Required(spec) \/ Tunneled(spec)
    /\ Steps[j] = "dial" => link.up

Standing == status \in {"live", "switching"} => link.up /\ (Netted(spec) => addr # "none")

Replay == round = 2 => /\ Plan(spec).style = "fallback"
                       /\ ~Required(spec)
                       /\ addr # "none"

Tunnel ==
  /\ Tunneled(spec) => addr # "server"
  /\ addr = "forward" => guard
  /\ guard => session /\ opened = 1
  /\ LoggingIn => ~guard /\ session /\ opened = 0
  /\ opened \in {0, 1}
  /\ ~guard /\ status # "over" => opened = 0
  /\ bridges > 0 => session /\ opened = 1

Links ==
  link.up => /\ MustProtect => Safe
             /\ Required(spec) /\ Plan(spec).style = "fallback" => link.secure
             /\ Tunneled(spec) => Safe
             /\ link.claims => link.secure

Said == RequiredMeansProtected /\ StrangersLearnNothing /\ TunnelCarriesEverything

IInv == TypeOK /\ Inside /\ Behind /\ Standing /\ Replay /\ Tunnel /\ Links /\ Said

-----------------------------------------------------------------------------
(* The static tables.                                                       *)

\* The fourteen kinds of the META constants.
LEMMA KindsAre ==
  Kinds = {"postgres", "cockroachdb", "mysql", "mariadb", "mongodb", "redis", "clickhouse",
           "sqlserver", "cassandra", "scylla", "firebird", "snowflake", "sqlite", "duckdb"}
  <1>1. /\ PG_META.kind = "postgres" /\ CRDB_META.kind = "cockroachdb"
        /\ MYSQL_META.kind = "mysql" /\ MARIADB_META.kind = "mariadb"
        /\ MONGO_META.kind = "mongodb" /\ REDIS_META.kind = "redis"
        /\ CLICKHOUSE_META.kind = "clickhouse" /\ MSSQL_META.kind = "sqlserver"
        /\ CASSANDRA_META.kind = "cassandra" /\ SCYLLA_META.kind = "scylla"
        /\ FIREBIRD_META.kind = "firebird" /\ SNOWFLAKE_META.kind = "snowflake"
        /\ SQLITE_META.kind = "sqlite" /\ DUCKDB_META.kind = "duckdb"
    BY DEF PG_META, CRDB_META, MYSQL_META, MARIADB_META, MONGO_META, REDIS_META,
           CLICKHOUSE_META, MSSQL_META, CASSANDRA_META, SCYLLA_META, FIREBIRD_META,
           SNOWFLAKE_META, SQLITE_META, DUCKDB_META
  <1> QED BY <1>1 DEF Kinds, Metas

\* A kind has one META: what the four drivers without TLS, tunnel or cancel say.
LEMMA CapsAre ==
  /\ Meta("firebird").caps = FIREBIRD_META.caps
  /\ Meta("snowflake").caps = SNOWFLAKE_META.caps
  /\ Meta("sqlite").caps = SQLITE_META.caps
  /\ Meta("duckdb").caps = DUCKDB_META.caps
  <1>1. /\ PG_META.kind = "postgres" /\ CRDB_META.kind = "cockroachdb"
        /\ MYSQL_META.kind = "mysql" /\ MARIADB_META.kind = "mariadb"
        /\ MONGO_META.kind = "mongodb" /\ REDIS_META.kind = "redis"
        /\ CLICKHOUSE_META.kind = "clickhouse" /\ MSSQL_META.kind = "sqlserver"
        /\ CASSANDRA_META.kind = "cassandra" /\ SCYLLA_META.kind = "scylla"
        /\ FIREBIRD_META.kind = "firebird" /\ SNOWFLAKE_META.kind = "snowflake"
        /\ SQLITE_META.kind = "sqlite" /\ DUCKDB_META.kind = "duckdb"
    BY DEF PG_META, CRDB_META, MYSQL_META, MARIADB_META, MONGO_META, REDIS_META,
           CLICKHOUSE_META, MSSQL_META, CASSANDRA_META, SCYLLA_META, FIREBIRD_META,
           SNOWFLAKE_META, SQLITE_META, DUCKDB_META
  <1>2. \A k : (\E m \in Metas : m.kind = k) => Meta(k) \in Metas /\ Meta(k).kind = k
    BY DEF Meta
  <1>3. Meta("firebird") = FIREBIRD_META
    BY <1>1, <1>2 DEF Metas
  <1>4. Meta("snowflake") = SNOWFLAKE_META
    BY <1>1, <1>2 DEF Metas
  <1>5. Meta("sqlite") = SQLITE_META
    BY <1>1, <1>2 DEF Metas
  <1>6. Meta("duckdb") = DUCKDB_META
    BY <1>1, <1>2 DEF Metas
  <1> QED BY <1>3, <1>4, <1>5, <1>6

\* The capabilities against the styles: what has TLS, a tunnel or a cancel dials
\* the way that makes these meaningful.
LEMMA CapsFacts ==
  ASSUME NEW s \in ConnSpec
  PROVE  /\ Has(s, "tls") => s.driver \notin {"firebird", "sqlite", "duckdb"}
         /\ Has(s, "tunnel") => s.driver \notin {"snowflake", "sqlite", "duckdb"}
         /\ Has(s, "cancel") => s.driver \notin {"firebird", "snowflake", "sqlite", "duckdb"}
  <1>1. /\ FIREBIRD_META.caps = {"sql", "schemas", "tunnel", "indexes"}
        /\ SNOWFLAKE_META.caps = {"sql", "schemas", "tls", "multi_db", "ddl"}
        /\ SQLITE_META.caps = {"sql", "schemas", "indexes", "ddl"}
        /\ DUCKDB_META.caps = {"sql", "schemas", "indexes", "ddl"}
    BY DEF FIREBIRD_META, SNOWFLAKE_META, SQLITE_META, DUCKDB_META
  <1> QED BY <1>1, CapsAre DEF Has

\* Every plan ends in its only dial; a plan that rides the network seam has asked
\* it by then.
Straight(p) ==
  /\ Len(p.first) \in Nat \ {0} /\ DOMAIN p.first = 1..Len(p.first)
  /\ Len(p.retry) \in Nat \ {0} /\ DOMAIN p.retry = 1..Len(p.retry)
  /\ p.style \in {"fallback", "level", "plain", "https", "file"}
  /\ p.first[Len(p.first)] = "dial" /\ p.retry[Len(p.retry)] = "dial"
  /\ \A i \in DOMAIN p.first : p.first[i] = "dial" => i = Len(p.first)
  /\ p.style \in {"fallback", "level", "plain"}
       => \E j \in 1..(Len(p.first) - 1) : p.first[j] = "net"

\* ... and which driver dials in which style.  CQL's first step is its refusal.
Styled(s) ==
  /\ Plan(s).style = "plain" /\ s.driver # "firebird"
       => Plan(s).first[1] = "native" /\ Len(Plan(s).first) > 1
  /\ Plan(s).style = "file" => s.driver \in {"sqlite", "duckdb"}
  /\ Plan(s).style = "https" => s.driver = "snowflake"
  /\ s.driver \in {"postgres", "cockroachdb"} => Plan(s).style = "fallback"
  /\ Plan(s) = MysqlPlan => Plan(s).style = "fallback"

\* Every driver's plan is straight, and in its style.
LEMMA PlanFacts ==
  ASSUME NEW s \in ConnSpec
  PROVE  Straight(Plan(s)) /\ Styled(s)
  <1>1. s.driver \in Kinds
    BY DEF ConnSpec
  <1>2. CASE s.driver \in {"postgres", "cockroachdb"}
    <2>1. Plan(s) = PgPlan
      BY <1>2 DEF Plan
    <2>2. /\ Plan(s).first = <<"host", "database", "secret", "net", "config", "dial">>
          /\ Plan(s).retry = <<"dial">>
          /\ Plan(s).style = "fallback"
      BY <2>1 DEF PgPlan
    <2> QED BY <1>2, <2>2 DEF Straight, Styled
  <1>3. CASE s.driver \in {"mysql", "mariadb"}
    <2>1. Plan(s) = MysqlPlan
      BY <1>3 DEF Plan
    <2>2. /\ Plan(s).first = <<"host", "secret", "net", "dial">>
          /\ Plan(s).retry = <<"host", "secret", "net", "dial">>
          /\ Plan(s).style = "fallback"
      BY <2>1 DEF PgPlan, MysqlPlan
    <2> QED BY <1>3, <2>2 DEF Straight, Styled
  <1>4. CASE s.driver = "mongodb"
    <2>1. Plan(s) = MongoPlan
      BY <1>4 DEF Plan
    <2>2. /\ Plan(s).first = <<"host", "database", "net", "secret", "dial">>
          /\ Plan(s).retry = <<"dial">>
          /\ Plan(s).style = "fallback"
      BY <2>1 DEF PgPlan, MongoPlan
    <2> QED BY <1>4, <2>2 DEF Straight, Styled
  <1>5. CASE s.driver = "redis"
    <2>1. Plan(s) = RedisPlan
      BY <1>5 DEF Plan
    <2>2. /\ Plan(s).first = <<"host", "net", "secret", "dial">>
          /\ Plan(s).retry = <<"dial">>
          /\ Plan(s).style = "fallback"
      BY <2>1 DEF PgPlan, RedisPlan
    <2> QED BY <1>5, <2>2 DEF Straight, Styled
  <1>6. CASE s.driver = "clickhouse"
    <2>1. Plan(s) = ClickhousePlan
      BY <1>6 DEF Plan
    <2>2. /\ Plan(s).first = <<"host", "net", "secret", "config", "dial">>
          /\ Plan(s).retry = <<"dial">>
          /\ Plan(s).style = "fallback"
      BY <2>1 DEF PgPlan, ClickhousePlan
    <2> QED BY <1>6, <2>2 DEF Straight, Styled
  <1>7. CASE s.driver = "sqlserver"
    <2>1. Plan(s) = MssqlPlan
      BY <1>7 DEF Plan
    <2>2. /\ Plan(s).first = <<"host", "net", "secret", "dial">>
          /\ Plan(s).retry = <<"dial">>
          /\ Plan(s).style = "level"
      BY <2>1 DEF PgPlan, MssqlPlan
    <2>3. MysqlPlan.style = "fallback"
      BY DEF MysqlPlan, PgPlan
    <2> QED BY <1>7, <2>2, <2>3 DEF Straight, Styled
  <1>8. CASE s.driver \in {"cassandra", "scylla"}
    <2>1. Plan(s) = CqlPlan
      BY <1>8 DEF Plan
    <2>2. /\ Plan(s).first = <<"native", "host", "net", "secret", "dial">>
          /\ Plan(s).retry = <<"dial">>
          /\ Plan(s).style = "plain"
      BY <2>1 DEF PgPlan, CqlPlan
    <2>3. MysqlPlan.style = "fallback"
      BY DEF MysqlPlan, PgPlan
    <2> QED BY <1>8, <2>2, <2>3 DEF Straight, Styled
  <1>9. CASE s.driver = "firebird"
    <2>1. Plan(s) = FirebirdPlan
      BY <1>9 DEF Plan
    <2>2. /\ Plan(s).first = <<"host", "database", "net", "secret", "dial">>
          /\ Plan(s).retry = <<"dial">>
          /\ Plan(s).style = "plain"
      BY <2>1 DEF PgPlan, FirebirdPlan
    <2>3. MysqlPlan.style = "fallback"
      BY DEF MysqlPlan, PgPlan
    <2> QED BY <1>9, <2>2, <2>3 DEF Straight, Styled
  <1>10. CASE s.driver = "snowflake"
    <2>1. Plan(s) = SnowflakePlan
      BY <1>10 DEF Plan
    <2>2. /\ Plan(s).first = <<"account", "user", "secret", "dial">>
          /\ Plan(s).retry = <<"dial">>
          /\ Plan(s).style = "https"
      BY <2>1 DEF PgPlan, SnowflakePlan
    <2>3. MysqlPlan.style = "fallback"
      BY DEF MysqlPlan, PgPlan
    <2> QED BY <1>10, <2>2, <2>3 DEF Straight, Styled
  <1>11. CASE s.driver \in {"sqlite", "duckdb"}
    <2>1. Plan(s) = SqlitePlan
      BY <1>11 DEF Plan, DuckdbPlan
    <2>2. /\ Plan(s).first = <<"file", "dial">>
          /\ Plan(s).retry = <<"dial">>
          /\ Plan(s).style = "file"
      BY <2>1 DEF PgPlan, SqlitePlan
    <2>3. MysqlPlan.style = "fallback"
      BY DEF MysqlPlan, PgPlan
    <2> QED BY <1>11, <2>2, <2>3 DEF Straight, Styled
  <1> QED BY <1>1, <1>2, <1>3, <1>4, <1>5, <1>6, <1>7, <1>8, <1>9, <1>10, <1>11, KindsAre

-----------------------------------------------------------------------------
(* The steps of an attempt.                                                 *)

\* Steps as an operator of what it depends on, to speak of it in both states.
StepsOf(o, s, r) ==
  CASE o = "endpoint" -> EndpointSteps(s)
    [] o = "tunnel" -> TunnelSteps
    [] o = "switch" -> SwitchSteps(r)
    [] OTHER -> IF r = 1 THEN Plan(s).first ELSE Plan(s).retry

\* The steps of any attempt are a sequence with at least one member.
LEMMA StepsOfAre ==
  ASSUME NEW o, NEW s \in ConnSpec, NEW r
  PROVE  Len(StepsOf(o, s, r)) \in Nat \ {0} /\ DOMAIN StepsOf(o, s, r) = 1..Len(StepsOf(o, s, r))
  <1>1. Straight(Plan(s))
    BY PlanFacts
  <1>2. CASE o = "endpoint"
    <2>1. \/ StepsOf(o, s, r) = <<"file", "stat">>
          \/ StepsOf(o, s, r) = <<"host", "port", "net", "probe">>
      BY <1>2 DEF StepsOf, EndpointSteps
    <2> QED BY <2>1
  <1>3. CASE o = "tunnel"
    BY <1>3 DEF StepsOf, TunnelSteps
  <1>4. CASE o = "switch"
    <2>1. StepsOf(o, s, r) = <<"config", "dial">> \/ StepsOf(o, s, r) = <<"dial">>
      BY <1>4 DEF StepsOf, SwitchSteps
    <2> QED BY <2>1
  <1>5. CASE o \notin {"endpoint", "tunnel", "switch"}
    BY <1>1, <1>5 DEF StepsOf, Straight
  <1> QED BY <1>2, <1>3, <1>4, <1>5

\* ... those of the attempt under way
LEMMA StepsAre ==
  ASSUME spec \in ConnSpec
  PROVE  Len(Steps) \in Nat \ {0} /\ DOMAIN Steps = 1..Len(Steps)
  <1>1. Steps = StepsOf(op, spec, round)
    BY DEF Steps, StepsOf
  <1> QED BY <1>1, StepsOfAre

\* ... and those of the next state.
LEMMA NextStepsAre ==
  ASSUME spec' \in ConnSpec
  PROVE  Len(Steps)' \in Nat \ {0} /\ (DOMAIN Steps)' = 1..Len(Steps)'
  <1>1. Steps' = StepsOf(op', spec', round')
    BY DEF Steps, StepsOf
  <1> QED BY <1>1, StepsOfAre

\* Which steps an attempt takes depends on no other variable.
LEMMA SameSteps ==
  ASSUME UNCHANGED <<spec, op, round>>
  PROVE  Steps' = Steps
  BY DEF Steps

\* A dial belongs to a plan, or to the replaced link of a switch.
LEMMA DialSteps ==
  ASSUME TypeOK, Inside, at \in DOMAIN Steps, Steps[at] = "dial"
  PROVE  /\ op \in {"connect", "tls", "auth", "switch"}
         /\ op # "switch" /\ round = 1 => Steps = Plan(spec).first /\ at = Len(Steps)
  <1>1. spec \in ConnSpec /\ at \in Nat
    BY DEF TypeOK
  <1>2. Straight(Plan(spec))
    BY <1>1, PlanFacts
  <1>3. op # "endpoint"
    <2> SUFFICES ASSUME op = "endpoint" PROVE FALSE
      OBVIOUS
    <2>1. Steps = <<"file", "stat">> \/ Steps = <<"host", "port", "net", "probe">>
      BY DEF Steps, EndpointSteps
    <2> QED BY <2>1
  <1>4. op # "tunnel"
    BY DEF Steps, TunnelSteps
  <1>5. op # "switch" /\ round = 1 => Steps = Plan(spec).first
    BY <1>3, <1>4 DEF Steps
  <1> QED BY <1>2, <1>3, <1>4, <1>5 DEF TypeOK, Straight

\* A link that has no tunnel and must be protected is no CQL link by the time it
\* dials, and what rides the network seam has its address.
LEMMA AtDial ==
  ASSUME TypeOK, Inside, Behind, Standing, Replay, Doing("dial")
  PROVE  /\ op \in {"connect", "tls", "auth", "switch"}
         /\ Netted(spec) => addr # "none"
         /\ Plan(spec).style = "plain" /\ spec.driver # "firebird"
              => ~Required(spec) \/ Tunneled(spec)
         /\ status = "switching" => Plan(spec).style = "fallback"
  <1>1. spec \in ConnSpec /\ at \in DOMAIN Steps /\ Steps[at] = "dial"
    BY DEF TypeOK, Doing
  <1>2. Straight(Plan(spec)) /\ Styled(spec)
    BY <1>1, PlanFacts
  <1>3. /\ op \in {"connect", "tls", "auth", "switch"}
        /\ op # "switch" /\ round = 1 => Steps = Plan(spec).first /\ at = Len(Steps)
    BY <1>1, DialSteps
  <1>4. CASE op = "switch"
    BY <1>2, <1>3, <1>4 DEF Inside, Standing, Styled
  <1>5. CASE op # "switch" /\ round = 2
    BY <1>3, <1>5 DEF Inside, Replay
  <1>6. CASE op # "switch" /\ round = 1
    <2>1. Steps = Plan(spec).first /\ at = Len(Plan(spec).first) /\ at \in Nat \ {0}
      BY <1>2, <1>3, <1>6 DEF Straight
    <2>2. Netted(spec) => addr # "none"
      <3> SUFFICES ASSUME Netted(spec) PROVE addr # "none"
        OBVIOUS
      <3>1. PICK j \in 1..(at - 1) : Steps[j] = "net"
        BY <1>2, <2>1 DEF Netted, Straight
      <3> QED BY <3>1 DEF Behind
    <2>3. Plan(spec).style = "plain" /\ spec.driver # "firebird"
            => ~Required(spec) \/ Tunneled(spec)
      <3> SUFFICES ASSUME Plan(spec).style = "plain", spec.driver # "firebird"
                   PROVE ~Required(spec) \/ Tunneled(spec)
        OBVIOUS
      <3>1. 1 \in 1..(at - 1) /\ Steps[1] = "native"
        BY <1>2, <2>1 DEF Styled
      <3> QED BY <3>1 DEF Behind
    <2> QED BY <1>3, <1>6, <2>2, <2>3 DEF Inside
  <1> QED BY <1>4, <1>5, <1>6, <1>1 DEF TypeOK

\* Whatever answers: a dial that is heard is protected as far as the mode asks.
LEMMA Heard ==
  ASSUME TypeOK, Inside, Behind, Standing, Replay, Tunnel, Doing("dial"),
         NEW peer \in Peers, Reached(spec, round, peer)
  PROVE  LET secure == SecureDial(spec, round, peer)
         IN /\ secure \in BOOLEAN
            /\ MustProtect => secure \/ Via = "forward"
            /\ Required(spec) /\ Plan(spec).style = "fallback" => secure
            /\ VerifiesCert(spec) /\ Plan(spec).style # "plain"
                 => Via = "file" \/ (secure /\ peer.tls = "vouched")
            /\ Tunneled(spec) => secure \/ Via \in {"forward", "file"}
            /\ Tunneled(spec) /\ Has(spec, "tunnel") => Via = "forward"
            /\ Claims(spec, secure) \in BOOLEAN
            /\ Claims(spec, secure) => secure
  <1>1. spec \in ConnSpec
    BY DEF TypeOK
  <1>2. Straight(Plan(spec)) /\ Styled(spec)
    BY <1>1, PlanFacts
  <1>3. /\ Has(spec, "tls") => spec.driver \notin {"firebird", "sqlite", "duckdb"}
        /\ Has(spec, "tunnel") => spec.driver \notin {"snowflake", "sqlite", "duckdb"}
    BY <1>1, CapsFacts
  <1>4. /\ Netted(spec) => addr # "none"
        /\ Plan(spec).style = "plain" /\ spec.driver # "firebird"
              => ~Required(spec) \/ Tunneled(spec)
    BY AtDial
  <1>5. addr \in {"none", "server", "forward"} /\ (Tunneled(spec) => addr # "server")
    BY DEF TypeOK, Tunnel
  <1>6. /\ VerifiesCert(spec) => Required(spec)
        /\ Required(spec) => Wanted(spec)
        /\ Wanted(spec) \in BOOLEAN /\ Required(spec) \in BOOLEAN
    BY DEF VerifiesCert, Required, Wanted
  <1>7. Required(spec) => round = 1
    BY DEF Replay, TypeOK
  <1>8. AcceptsCert(spec, peer) /\ VerifiesCert(spec) => peer.tls = "vouched"
    BY DEF AcceptsCert
  <1>9. CASE Plan(spec).style = "fallback"
    <2>1. SecureDial(spec, round, peer) = (Wanted(spec) /\ round = 1)
      BY <1>9 DEF SecureDial
    <2>2. Claims(spec, SecureDial(spec, round, peer)) = SecureDial(spec, round, peer)
      BY <1>9 DEF Claims
    <2>3. SecureDial(spec, round, peer) => AcceptsCert(spec, peer)
      BY <1>9 DEF Reached
    <2>4. Tunneled(spec) => Via = "forward"
      BY <1>4, <1>5, <1>9 DEF Via, Netted
    <2> QED BY <1>6, <1>7, <1>8, <2>1, <2>2, <2>3, <2>4 DEF MustProtect
  <1>10. CASE Plan(spec).style = "level"
    <2>1. SecureDial(spec, round, peer) = (Wanted(spec) /\ peer.tls # "none")
      BY <1>10 DEF SecureDial
    <2>2. Claims(spec, SecureDial(spec, round, peer)) = Required(spec)
      BY <1>10 DEF Claims
    <2>3. /\ SecureDial(spec, round, peer) => AcceptsCert(spec, peer)
          /\ ~SecureDial(spec, round, peer) => ~Required(spec)
      BY <1>10 DEF Reached
    <2>4. Tunneled(spec) => Via = "forward"
      BY <1>4, <1>5, <1>10 DEF Via, Netted
    <2> QED BY <1>6, <1>8, <2>1, <2>2, <2>3, <2>4 DEF MustProtect
  <1>11. CASE Plan(spec).style = "https"
    <2>1. SecureDial(spec, round, peer) = TRUE
      BY <1>11 DEF SecureDial
    <2>2. Claims(spec, SecureDial(spec, round, peer)) = TRUE
      BY <1>11, <2>1 DEF Claims
    <2>3. peer.tls = "vouched"
      BY <1>11, <2>1 DEF Reached
    <2>4. ~Has(spec, "tunnel")
      BY <1>2, <1>3, <1>11 DEF Styled
    <2> QED BY <2>1, <2>2, <2>3, <2>4
  <1>12. CASE Plan(spec).style = "plain"
    <2>1. SecureDial(spec, round, peer) = FALSE
      BY <1>12 DEF SecureDial
    <2>2. Claims(spec, SecureDial(spec, round, peer)) = FALSE
      BY <1>12 DEF Claims
    <2>3. Tunneled(spec) => Via = "forward"
      BY <1>4, <1>5, <1>12 DEF Via, Netted
    <2>4. MustProtect => Tunneled(spec)
      BY <1>3, <1>4, <1>12 DEF MustProtect
    <2> QED BY <1>12, <2>1, <2>2, <2>3, <2>4
  <1>13. CASE Plan(spec).style = "file"
    <2>1. SecureDial(spec, round, peer) = FALSE
      BY <1>13 DEF SecureDial
    <2>2. Claims(spec, SecureDial(spec, round, peer)) = FALSE
      BY <1>13 DEF Claims
    <2>3. Via = "file"
      BY <1>13 DEF Via
    <2>4. ~Has(spec, "tunnel") /\ ~MustProtect
      BY <1>2, <1>3, <1>13 DEF Styled, MustProtect
    <2> QED BY <1>13, <2>1, <2>2, <2>3, <2>4
  <1> QED BY <1>2, <1>9, <1>10, <1>11, <1>12, <1>13 DEF Straight

-----------------------------------------------------------------------------
(* The inductive step, by what an action does to the attempt.               *)

Answers == [secure : BOOLEAN, vouched : BOOLEAN, secret : BOOLEAN, via : {"direct", "forward"}]

\* The attempt is given up, or a switch is.
LEMMA Dropping ==
  ASSUME IInv, Working, NEW busy \in Nat, busy > 0 => session /\ opened = 1,
         Drop(busy), wire' \subseteq Answers, Said'
  PROVE  IInv'
  <1> USE DEF IInv
  <1>1. UNCHANGED <<spec, keys, opened, link, warned>>
    BY DEF Drop
  <1>2. at' = 1 /\ round' = 1 /\ stage' = "plan" /\ bridges' = busy
    BY DEF Drop
  <1>3. CASE status = "switching"
    <2>1. status' = "live" /\ op' = "connect" /\ UNCHANGED <<creds, addr, guard, session, told>>
      BY <1>3 DEF Drop
    <2>2. TypeOK'
      BY <1>1, <1>2, <2>1, NextStepsAre DEF TypeOK, Answers
    <2>3. Inside' /\ Behind' /\ Replay'
      BY <1>2, <2>1 DEF Inside, Behind, Replay
    <2>4. Standing'
      BY <1>1, <1>3, <2>1 DEF Standing, Netted
    <2>5. Tunnel'
      BY <1>1, <1>2, <1>3, <2>1 DEF Tunnel, LoggingIn
    <2>6. Links'
      BY <1>1 DEF Links, MustProtect, Safe
    <2> QED BY <2>2, <2>3, <2>4, <2>5, <2>6
  <1>4. CASE status # "switching"
    <2>1. /\ status' = "over" /\ creds' = FALSE /\ addr' = "none" /\ guard' = FALSE
          /\ session' = (busy > 0) /\ told' = "error" /\ UNCHANGED op
      BY <1>4 DEF Drop
    <2>2. TypeOK'
      <3>1. session' \in BOOLEAN
        BY <2>1
      <3>2. Len(Steps)' \in Nat \ {0}
        BY <1>1, NextStepsAre DEF TypeOK
      <3>3. at' \in 1..(Len(Steps)' + 1)
        BY <1>2, <3>2
      <3>4. /\ status' = "over" /\ creds' \in BOOLEAN /\ addr' = "none"
            /\ guard' \in BOOLEAN /\ told' = "error" /\ op' = op
        BY <2>1
      <3> QED BY <1>1, <1>2, <3>1, <3>3, <3>4 DEF TypeOK, Answers
    <2>3. Inside'
      BY <1>1, <1>2, <1>4, <2>1 DEF Inside
    <2>6. Behind' /\ Replay' /\ Standing'
      BY <1>2, <2>1 DEF Behind, Replay, Standing
    <2>4. Tunnel'
      BY <1>1, <1>2, <2>1 DEF Tunnel, LoggingIn
    <2>5. Links'
      BY <1>1 DEF Links, MustProtect, Safe
    <2> QED BY <2>2, <2>3, <2>4, <2>5, <2>6
  <1> QED BY <1>3, <1>4

\* Who says nothing leaves what was said as it was.
LEMMA SaidStays ==
  ASSUME Said, UNCHANGED <<spec, wire>>
  PROVE  Said'
  BY DEF Said, RequiredMeansProtected, StrangersLearnNothing, TunnelCarriesEverything, MustProtect

\* Every error path of a step: the attempt is dropped, its bridges are left.
LEMMA Failing ==
  ASSUME IInv, Working, Fail
  PROVE  IInv'
  <1>1. Drop(bridges) /\ UNCHANGED <<spec, wire>>
    BY DEF Fail, Drop
  <1>2. Said'
    BY <1>1, SaidStays DEF IInv
  <1>3. bridges \in Nat /\ (bridges > 0 => session /\ opened = 1) /\ wire' \subseteq Answers
    BY <1>1 DEF IInv, TypeOK, Tunnel, Answers
  <1> QED BY <1>1, <1>2, <1>3, Dropping

\* A step goes on, inside or to the next one.  What is special to the step is the
\* tunnel's part, and that a step which leaves something leaves it.
LEMMA Moving ==
  ASSUME IInv, Working,
         UNCHANGED <<spec, op, status, round, link, told, warned, wire>>,
         creds' \in BOOLEAN, keys' \in 0..MaxKeys, bridges' \in Nat,
         addr' \in {"none", "server", "forward"}, addr # "none" => addr' # "none",
         session' \in BOOLEAN, guard' \in BOOLEAN, Tunnel',
         \/ /\ at' = at
            /\ stage' \in {"login", "vault", "offer", "agent", "bind"} =>
                 at \in DOMAIN Steps /\ Steps[at] \in {"net", "secret"}
            /\ stage' \in {"plan", "login", "vault", "offer", "agent", "bind"}
         \/ /\ at' = at + 1 /\ stage' = "plan" /\ at \in DOMAIN Steps
            /\ Steps[at] # "dial"
            /\ Steps[at] = "net" => addr' # "none"
            /\ Steps[at] = "native" => ~Required(spec) \/ Tunneled(spec)
  PROVE  IInv'
  <1> USE DEF IInv
  <1>1. Steps' = Steps
    BY SameSteps
  <1>2. Len(Steps) \in Nat \ {0} /\ DOMAIN Steps = 1..Len(Steps) /\ at \in Nat
    BY StepsAre DEF TypeOK
  <1>3. opened' \in Nat
    BY DEF Tunnel
  <1>4. TypeOK'
    BY <1>1, <1>2, <1>3 DEF TypeOK
  <1>5. Inside'
    BY <1>1 DEF Inside, Working
  <1>6. Behind'
    BY <1>1, <1>2 DEF Behind
  <1>7. Standing' /\ Replay'
    BY DEF Standing, Replay, Netted
  <1>8. Links'
    BY DEF Links, MustProtect, Safe
  <1>9. Said'
    BY SaidStays
  <1> QED BY <1>4, <1>5, <1>6, <1>7, <1>8, <1>9

\* ... and when the step leaves the forward alone, nothing is special to it.
LEMMA Onward ==
  ASSUME IInv, Working,
         UNCHANGED <<spec, op, status, round, addr, session, guard, opened, bridges, link, told,
                     warned, wire>>,
         creds' \in BOOLEAN, keys' \in 0..MaxKeys, LoggingIn' => LoggingIn,
         \/ /\ at' = at
            /\ stage' \in {"login", "vault", "offer", "agent", "bind"} =>
                 at \in DOMAIN Steps /\ Steps[at] \in {"net", "secret"}
            /\ stage' \in {"plan", "login", "vault", "offer", "agent", "bind"}
         \/ /\ at' = at + 1 /\ stage' = "plan" /\ at \in DOMAIN Steps
            /\ Steps[at] \notin {"dial", "net"}
            /\ Steps[at] = "native" => ~Required(spec) \/ Tunneled(spec)
  PROVE  IInv'
  <1>1. Tunnel'
    BY DEF IInv, Tunnel
  <1>2. /\ bridges' \in Nat /\ session' \in BOOLEAN /\ guard' \in BOOLEAN
        /\ addr' \in {"none", "server", "forward"}
    BY DEF IInv, TypeOK
  <1> QED BY <1>1, <1>2, Moving

\* An attempt that has not begun.
LEMMA Initial ==
  ASSUME Init
  PROVE  IInv
  <1> USE DEF Init
  <1>1. spec \in ConnSpec
    BY SpecsAssumption
  <1>2. Len(Steps) \in Nat \ {0}
    BY <1>1, StepsAre
  <1>3. at \in 1..(Len(Steps) + 1)
    BY <1>2
  <1>4. keys \in 0..MaxKeys
    BY BoundsAssumption
  <1>5. TypeOK
    <2>1. link \in [up : BOOLEAN, secure : BOOLEAN, claims : BOOLEAN,
                   via : {"none", "file", "direct", "forward"}]
      BY DEF Down
    <2>2. round \in 1..2 /\ opened \in Nat /\ bridges \in Nat
      OBVIOUS
    <2>5. /\ creds \in BOOLEAN /\ session \in BOOLEAN /\ guard \in BOOLEAN
          /\ warned \in BOOLEAN
      BY Zenon
    <2>3. /\ op \in {"connect", "endpoint", "tunnel", "tls", "auth", "switch"}
          /\ status \in {"opening", "live", "switching", "over"}
          /\ stage \in {"lookup", "plan", "login", "vault", "offer", "agent", "bind"}
          /\ addr \in {"none", "server", "forward"}
          /\ told \in {"nothing", "error", "green", "encrypted", "plain"}
      OBVIOUS
    <2>4. wire \subseteq [secure : BOOLEAN, vouched : BOOLEAN, secret : BOOLEAN,
                          via : {"direct", "forward"}]
      OBVIOUS
    <2> HIDE DEF Init
    <2> QED BY <1>1, <1>3, <1>4, <2>1, <2>2, <2>3, <2>4, <2>5, Zenon DEF TypeOK
  <1>6. Inside /\ Behind /\ Standing /\ Replay
    BY DEF Inside, Behind, Standing, Replay
  <1>7. Tunnel /\ Links
    BY DEF Tunnel, LoggingIn, Links, Down
  <1>8. Said
    BY DEF Said, RequiredMeansProtected, StrangersLearnNothing, TunnelCarriesEverything
  <1> QED BY <1>5, <1>6, <1>7, <1>8 DEF IInv

\* An unknown driver fails the attempt, a known one starts its plan.
LEMMA LookupKeeps == ASSUME IInv, Lookup PROVE IInv'
  <1>1. Working /\ stage = "lookup"
    BY DEF Lookup
  <1>2. CASE Fail
    BY <1>1, <1>2, Failing
  <1>3. CASE /\ stage' = "plan"
             /\ UNCHANGED <<spec, op, status, at, round, creds, addr, sshVars, link, toldVars, wire>>
    <2>1. ~LoggingIn'
      BY <1>3 DEF LoggingIn
    <2>2. creds' \in BOOLEAN /\ keys' \in 0..MaxKeys
      BY <1>3 DEF IInv, TypeOK, sshVars
    <2> QED BY <1>1, <1>3, <2>1, <2>2, Onward DEF sshVars, toldVars
  <1> QED BY <1>2, <1>3 DEF Lookup

\* A check passed is remembered by where the attempt stands.
LEMMA CheckKeeps == ASSUME IInv, Check PROVE IInv'
  <1>1. PICK step \in ParamKeys \cup {"tunnel", "port", "native", "config"} :
          /\ Doing(step)
          /\ \/ /\ Passes(step)
                /\ Advance
                /\ UNCHANGED <<spec, op, status, round, creds, addr, sshVars, link, toldVars, wire>>
             \/ Fail
    BY DEF Check
  <1>2. Working /\ stage = "plan" /\ at \in DOMAIN Steps /\ Steps[at] = step
    BY <1>1 DEF Doing
  <1>3. CASE Fail
    BY <1>2, <1>3, Failing
  <1>4. CASE /\ Passes(step)
             /\ Advance
             /\ UNCHANGED <<spec, op, status, round, creds, addr, sshVars, link, toldVars, wire>>
    <2>1. ~LoggingIn'
      BY <1>4 DEF LoggingIn, Advance
    <2>2. creds' \in BOOLEAN /\ keys' \in 0..MaxKeys
      BY <1>4 DEF IInv, TypeOK, sshVars
    <2>3. step \notin {"dial", "net"}
      BY DEF ParamKeys
    <2>4. step = "native" => ~Required(spec) \/ Tunneled(spec)
      BY <1>4 DEF Passes, ParamKeys
    <2> QED BY <1>2, <1>4, <2>1, <2>2, <2>3, <2>4, Onward DEF sshVars, toldVars, Advance
  <1> QED BY <1>1, <1>3, <1>4

\* A resolved secret goes to the driver's step or to the login under way.
LEMMA ResolvedKeeps ==
  ASSUME IInv, Working, at \in DOMAIN Steps, Steps[at] \in {"net", "secret"},
         Steps[at] = "net" => LoggingIn,
         NEW some \in BOOLEAN, Resolved(some)
  PROVE  IInv'
  <1>1. UNCHANGED <<spec, op, status, round, addr, sshVars, link, toldVars, wire>>
    BY DEF Resolved
  <1>2. creds' \in BOOLEAN /\ keys' \in 0..MaxKeys
    BY <1>1 DEF IInv, TypeOK, sshVars, Resolved
  <1>3. CASE Steps[at] = "net"
    <2>1. stage' = "offer" /\ at' = at
      BY <1>3 DEF Resolved
    <2> QED BY <1>1, <1>2, <1>3, <2>1, Onward DEF sshVars, toldVars
  <1>4. CASE Steps[at] = "secret"
    <2>1. stage' = "plan" /\ at' = at + 1
      BY <1>4 DEF Resolved, Advance
    <2>2. ~LoggingIn'
      BY <2>1 DEF LoggingIn
    <2> QED BY <1>1, <1>2, <1>4, <2>1, <2>2, Onward DEF sshVars, toldVars
  <1> QED BY <1>3, <1>4

\* Who needs a secret is inside a driver's "secret" step or inside "net".
LEMMA Needing ==
  ASSUME IInv, NeedsSecret
  PROVE  /\ Working /\ at \in DOMAIN Steps /\ Steps[at] \in {"net", "secret"}
         /\ Steps[at] = "net" => LoggingIn
  BY DEF IInv, Inside, NeedsSecret, Doing, LoggingIn

\* However the secret comes: template, environment, command, agent, key file.
LEMMA SecretKeeps ==
  ASSUME IInv, ResolveSecret \/ AskVault \/ VaultLine \/ OtherAuth
  PROVE  IInv'
  <1>1. CASE ResolveSecret
    <2>1. NeedsSecret /\ (Resolved(FALSE) \/ Resolved(TRUE) \/ Fail)
      BY <1>1 DEF ResolveSecret
    <2> QED BY <2>1, Needing, ResolvedKeeps, Failing
  <1>2. CASE AskVault
    <2>1. CASE Fail
      BY <1>2, <2>1, Needing, Failing DEF AskVault
    <2>2. CASE /\ stage' = "vault"
               /\ UNCHANGED <<spec, op, status, at, round, creds, addr, sshVars, link, toldVars,
                              wire>>
      <3>1. /\ Working /\ at \in DOMAIN Steps /\ Steps[at] \in {"net", "secret"}
            /\ Steps[at] = "net" => LoggingIn
        BY <1>2, Needing DEF AskVault
      <3>2. creds' \in BOOLEAN /\ keys' \in 0..MaxKeys
        BY <2>2 DEF IInv, TypeOK, sshVars
      <3>3. Steps' = Steps
        BY <2>2, SameSteps
      <3>4. LoggingIn' => LoggingIn
        BY <2>2, <3>1, <3>3 DEF LoggingIn
      <3> QED BY <2>2, <3>1, <3>2, <3>4, Onward DEF sshVars, toldVars
    <2> QED BY <1>2, <2>1, <2>2 DEF AskVault
  <1>3. CASE VaultLine
    <2>1. Working /\ stage = "vault" /\ (Resolved(TRUE) \/ Fail)
      BY <1>3 DEF VaultLine
    <2>2. /\ at \in DOMAIN Steps /\ Steps[at] \in {"net", "secret"}
          /\ Steps[at] = "net" => LoggingIn
      BY <2>1 DEF IInv, Inside, LoggingIn
    <2> QED BY <2>1, <2>2, ResolvedKeeps, Failing
  <1>4. CASE OtherAuth
    <2>1. Working /\ at \in DOMAIN Steps /\ Steps[at] = "secret"
      BY <1>4 DEF OtherAuth, Doing
    <2>2. CASE Fail
      BY <2>1, <2>2, Failing
    <2>3. CASE /\ Advance
               /\ creds' = (spec.auth \in Plan(spec).keyfile)
               /\ UNCHANGED <<spec, op, status, round, addr, sshVars, link, toldVars, wire>>
      <3>1. creds' \in BOOLEAN
        BY <2>3
      <3>2. keys' \in 0..MaxKeys
        BY <2>3 DEF IInv, TypeOK, sshVars
      <3>3. stage' = "plan" /\ at' = at + 1 /\ ~LoggingIn'
        BY <2>3 DEF Advance, LoggingIn
      <3> QED BY <2>1, <2>3, <3>1, <3>2, <3>3, Onward DEF sshVars, toldVars
    <2> QED BY <1>4, <2>2, <2>3 DEF OtherAuth
  <1> QED BY <1>1, <1>2, <1>3, <1>4

-----------------------------------------------------------------------------
(* The forward.                                                             *)

\* A tunnelled specification is answered with the forward that is open, never the server.
LEMMA ResolveKeeps == ASSUME IInv, Resolve PROVE IInv'
  <1> USE DEF IInv
  <1>1. /\ Working /\ stage = "plan" /\ at \in DOMAIN Steps /\ Steps[at] = "net"
        /\ ~Tunneled(spec) \/ guard
        /\ addr' = IF guard THEN "forward" ELSE "server"
        /\ at' = at + 1 /\ stage' = "plan"
        /\ UNCHANGED <<spec, op, status, round, creds, session, guard, opened, bridges, keys,
                       link, told, warned, wire>>
    BY DEF Resolve, Doing, Advance, sshVars, toldVars
  <1>2. guard \in BOOLEAN /\ creds' \in BOOLEAN /\ keys' \in 0..MaxKeys /\ bridges' \in Nat
        /\ session' \in BOOLEAN
    BY <1>1 DEF TypeOK
  <1>3. Tunnel'
    BY <1>1, <1>2 DEF Tunnel, LoggingIn
  <1> QED BY <1>1, <1>2, <1>3, Moving

\* A session is opened only where no forward is.
LEMMA SshConnectKeeps == ASSUME IInv, SshConnect PROVE IInv'
  <1> USE DEF IInv
  <1>1. /\ Working /\ stage = "plan" /\ at \in DOMAIN Steps /\ Steps[at] = "net"
        /\ Tunneled(spec) /\ ~guard
    BY DEF SshConnect, Doing
  <1>2. CASE Fail
    BY <1>1, <1>2, Failing
  <1>3. CASE /\ session' = TRUE /\ stage' = "login"
             /\ UNCHANGED <<spec, op, status, at, round, creds, addr, guard, opened, bridges, keys,
                            link, toldVars, wire>>
    <2>1. /\ creds' \in BOOLEAN /\ keys' \in 0..MaxKeys /\ bridges' \in Nat
          /\ addr' \in {"none", "server", "forward"} /\ guard' \in BOOLEAN
      BY <1>3 DEF TypeOK
    <2>2. Tunnel'
      BY <1>1, <1>3 DEF Tunnel, LoggingIn, Working
    <2> QED BY <1>1, <1>3, <2>1, <2>2, Moving DEF toldVars
  <1> QED BY <1>2, <1>3 DEF SshConnect

\* Offering identities changes neither forward nor link.
LEMMA LoginKeeps ==
  ASSUME IInv, AgentKeys \/ OfferKey \/ OfferSecret
  PROVE  IInv'
  <1>1. /\ Working /\ stage \in {"login", "agent", "offer"}
        /\ LoggingIn /\ at \in DOMAIN Steps /\ Steps[at] \in {"net", "secret"}
    BY DEF AgentKeys, OfferKey, OfferSecret, LoggingIn, IInv, Inside
  <1>2. CASE Fail
    BY <1>1, <1>2, Failing
  <1>3. CASE /\ stage' \in {"agent", "bind"} /\ keys' \in 0..MaxKeys
             /\ UNCHANGED <<spec, op, status, at, round, creds, addr, session, guard, opened,
                            bridges, link, toldVars, wire>>
    <2>1. creds' \in BOOLEAN
      BY <1>3 DEF IInv, TypeOK
    <2> QED BY <1>1, <1>3, <2>1, Onward DEF toldVars
  <1>4. keys \in 0..MaxKeys
    BY DEF IInv, TypeOK
  <1>5. keys > 0 => keys - 1 \in 0..MaxKeys
    BY <1>4, BoundsAssumption
  <1>6. 0 \in 0..MaxKeys
    BY BoundsAssumption
  <1>7. CASE AgentKeys
    BY <1>2, <1>3, <1>7 DEF AgentKeys
  <1>8. CASE OfferKey
    BY <1>2, <1>3, <1>5, <1>6, <1>8 DEF OfferKey
  <1>9. CASE OfferSecret
    BY <1>2, <1>3, <1>4, <1>9 DEF OfferSecret, sshVars
  <1> QED BY <1>7, <1>8, <1>9

\* The one forward of the attempt comes up.
LEMMA BindKeeps == ASSUME IInv, Bind PROVE IInv'
  <1> USE DEF IInv
  <1>1. /\ Working /\ stage = "bind" /\ LoggingIn
        /\ at \in DOMAIN Steps /\ Steps[at] \in {"net", "secret"}
    BY DEF Bind, LoggingIn, Inside
  <1>2. CASE Fail
    BY <1>1, <1>2, Failing
  <1>3. CASE /\ guard' = TRUE /\ opened' = opened + 1 /\ addr' = "forward" /\ Advance
             /\ UNCHANGED <<spec, op, status, round, creds, session, bridges, keys, link, toldVars,
                            wire>>
    <2>1. /\ creds' \in BOOLEAN /\ keys' \in 0..MaxKeys /\ bridges' \in Nat /\ session' \in BOOLEAN
      BY <1>3 DEF TypeOK
    <2>2. at' = at + 1 /\ stage' = "plan"
      BY <1>3 DEF Advance
    <2>3. opened = 0 /\ opened' = 1 /\ session' = TRUE
      BY <1>1, <1>3 DEF Tunnel
    <2>4. Tunnel'
      BY <1>3, <2>2, <2>3 DEF Tunnel, LoggingIn
    <2> QED BY <1>1, <1>3, <2>1, <2>2, <2>4, Moving DEF toldVars
  <1> QED BY <1>2, <1>3 DEF Bind

\* The last bridge takes the session along unless the guard keeps it.
LEMMA BridgeEndsKeeps == ASSUME IInv, BridgeEnds PROVE IInv'
  <1> USE DEF IInv
  <1>1. /\ UNCHANGED <<spec, op, status, stage, at, round, creds, addr, guard, opened, keys, link,
                       told, warned, wire>>
        /\ bridges > OwnBridge /\ bridges' = bridges - 1 /\ session' = (guard \/ bridges > 1)
    BY DEF BridgeEnds, toldVars
  <1>2. bridges \in Nat /\ OwnBridge \in {0, 1}
    BY DEF TypeOK, OwnBridge
  <1>3. bridges > 0 /\ bridges' \in Nat /\ session' \in BOOLEAN
    BY <1>1, <1>2
  <1>4. Steps' = Steps /\ LoggingIn' = LoggingIn
    BY <1>1, SameSteps DEF LoggingIn
  <1>5. opened = 1 /\ ~LoggingIn
    BY <1>3 DEF Tunnel
  <1>6. (guard => session') /\ (bridges' > 0 => session')
    <2>1. bridges' > 0 => bridges > 1
      BY <1>1, <1>2
    <2> QED BY <1>1, <2>1, Zenon
  <1>7. Tunnel'
    <2> HIDE DEF LoggingIn
    <2> QED BY <1>1, <1>4, <1>5, <1>6 DEF Tunnel
  <1>8. TypeOK'
    <2>1. /\ UNCHANGED <<spec, op, status, stage, at, round, creds, addr, guard, opened, keys, link,
                         told, warned, wire>>
      BY <1>1
    <2> QED BY <1>3, <1>4, <2>1 DEF TypeOK
  <1>9. Inside' /\ Behind' /\ Standing' /\ Replay'
    BY <1>1, <1>4 DEF Inside, Behind, Standing, Replay, Working, Netted
  <1>10. Links'
    BY <1>1 DEF Links, MustProtect, Safe
  <1>11. Said'
    BY <1>1, SaidStays
  <1> QED BY <1>7, <1>8, <1>9, <1>10, <1>11

-----------------------------------------------------------------------------
(* Dials.                                                                   *)

\* A dial through the forward is one bridge more, and the forward is there.
LEMMA BridgedFacts ==
  ASSUME TypeOK, Tunnel
  PROVE  /\ Bridged \in Nat
         /\ Bridged > 0 => session /\ opened = 1
         /\ Via = "forward" => guard
         /\ Via \in {"file", "direct", "forward"}
  <1>1. bridges \in Nat
    BY DEF TypeOK
  <1>2. Via \in {"file", "direct", "forward"} /\ (Via = "forward" => addr = "forward")
    BY DEF Via
  <1>3. Via = "forward" => guard /\ session /\ opened = 1
    BY <1>2 DEF Tunnel
  <1>4. CASE Via = "forward"
    <2>1. Bridged = bridges + 1
      BY <1>4 DEF Bridged
    <2> QED BY <1>1, <1>2, <1>3, <1>4, <2>1
  <1>5. CASE Via # "forward"
    <2>1. Bridged = bridges
      BY <1>1, <1>5 DEF Bridged
    <2> QED BY <1>1, <1>2, <1>3, <1>5, <2>1 DEF Tunnel
  <1> QED BY <1>4, <1>5

\* The endpoint test's socket may be one bridge more.
LEMMA ProbeKeeps == ASSUME IInv, Probe PROVE IInv'
  <1> USE DEF IInv
  <1>1. Working /\ stage = "plan" /\ at \in DOMAIN Steps /\ Steps[at] = "probe"
    BY DEF Probe, Doing
  <1>2. CASE Fail
    BY <1>1, <1>2, Failing
  <1>3. CASE /\ Advance
             /\ bridges' = Bridged
             /\ UNCHANGED <<spec, op, status, round, creds, addr, keys, session, guard, opened,
                            link, toldVars, wire>>
    <2>1. /\ creds' \in BOOLEAN /\ keys' \in 0..MaxKeys /\ session' \in BOOLEAN
          /\ guard' \in BOOLEAN /\ addr' \in {"none", "server", "forward"}
      BY <1>3 DEF TypeOK
    <2>2. at' = at + 1 /\ stage' = "plan"
      BY <1>3 DEF Advance
    <2>3. bridges' \in Nat /\ (bridges' > 0 => session' /\ opened' = 1)
      BY <1>3, BridgedFacts
    <2>4. Tunnel'
      BY <1>3, <2>2, <2>3 DEF Tunnel, LoggingIn
    <2> QED BY <1>1, <1>3, <2>1, <2>2, <2>3, <2>4, Moving DEF toldVars
  <1> QED BY <1>2, <1>3 DEF Probe

\* The endpoint test's look at a file.
LEMMA StatKeeps == ASSUME IInv, Stat PROVE IInv'
  <1>1. Working /\ stage = "plan" /\ at \in DOMAIN Steps /\ Steps[at] = "stat"
    BY DEF Stat, Doing
  <1>2. CASE Fail
    BY <1>1, <1>2, Failing
  <1>3. CASE /\ Advance
             /\ UNCHANGED <<spec, op, status, round, creds, addr, sshVars, link, toldVars, wire>>
    <2>1. creds' \in BOOLEAN /\ keys' \in 0..MaxKeys
      BY <1>3 DEF IInv, TypeOK, sshVars
    <2>2. at' = at + 1 /\ stage' = "plan" /\ ~LoggingIn'
      BY <1>3 DEF Advance, LoggingIn
    <2> QED BY <1>1, <1>3, <2>1, <2>2, Onward DEF sshVars, toldVars
  <1> QED BY <1>2, <1>3 DEF Stat

\* What a dial said, whoever heard it, keeps what was said so far harmless.
LEMMA SayingKeeps ==
  ASSUME IInv, spec' = spec, NEW w \in Answers,
         wire' \subseteq wire \cup {w},
         MustProtect /\ w.secret => w.secure \/ w.via = "forward",
         VerifiesCert(spec) /\ Plan(spec).style # "plain" /\ w.secret => w.vouched,
         Tunneled(spec) /\ Has(spec, "tunnel") => w.via = "forward"
  PROVE  wire' \subseteq Answers /\ Said'
  <1>1. wire \subseteq Answers
    BY DEF IInv, TypeOK, Answers
  <1>2. \A v \in wire' : v \in wire \/ v = w
    OBVIOUS
  <1>3. RequiredMeansProtected'
    BY <1>2 DEF IInv, Said, RequiredMeansProtected, MustProtect
  <1>4. StrangersLearnNothing'
    BY <1>2 DEF IInv, Said, StrangersLearnNothing
  <1>5. TunnelCarriesEverything'
    BY <1>2 DEF IInv, Said, TunnelCarriesEverything
  <1> QED BY <1>1, <1>3, <1>4, <1>5 DEF Said

\* A dial, its plaintext replay and its failure: the case the invariant is made for.
LEMMA DialKeeps == ASSUME IInv, Dial PROVE IInv'
  <1> USE DEF IInv
  <1>1. Working /\ stage = "plan" /\ at \in DOMAIN Steps /\ Steps[at] = "dial" /\ Doing("dial")
    BY DEF Dial, Doing
  <1>2. spec' = spec /\ spec \in ConnSpec /\ at \in Nat
    BY DEF Dial, TypeOK
  <1>3. Len(Steps) \in Nat \ {0} /\ DOMAIN Steps = 1..Len(Steps)
    BY <1>2, StepsAre
  <1>4. PICK peer \in Peers :
          LET secure == SecureDial(spec, round, peer)
              reached == Reached(spec, round, peer)
              in == reached /\ peer.login
          IN /\ wire' = IF reached THEN wire \cup Talk(secure, secure /\ peer.tls = "vouched")
                        ELSE wire
             /\ \/ in /\ Opened(secure)
                \/ ~in /\ MayFallBack /\ FallBack
                \/ ~in /\ ~MayFallBack /\ Drop(Bridged)
    BY DEF Dial
  <1> DEFINE secure == SecureDial(spec, round, peer)
             reached == Reached(spec, round, peer)
             vouched == secure /\ peer.tls = "vouched"
  <1>5. /\ Netted(spec) => addr # "none"
        /\ Plan(spec).style = "plain" /\ spec.driver # "firebird" => ~Required(spec) \/ Tunneled(spec)
        /\ status = "switching" => Plan(spec).style = "fallback"
    BY <1>1, AtDial
  <1>6. reached =>
          /\ secure \in BOOLEAN
          /\ MustProtect => secure \/ Via = "forward"
          /\ Required(spec) /\ Plan(spec).style = "fallback" => secure
          /\ VerifiesCert(spec) /\ Plan(spec).style # "plain"
               => Via = "file" \/ (secure /\ peer.tls = "vouched")
          /\ Tunneled(spec) => secure \/ Via \in {"forward", "file"}
          /\ Tunneled(spec) /\ Has(spec, "tunnel") => Via = "forward"
          /\ Claims(spec, secure) \in BOOLEAN
          /\ Claims(spec, secure) => secure
    BY <1>1, Heard
  <1>7. /\ Bridged \in Nat /\ (Bridged > 0 => session /\ opened = 1)
        /\ Via = "forward" => guard
        /\ Via \in {"file", "direct", "forward"}
    BY BridgedFacts
  <1>8. wire' \subseteq Answers /\ Said'
    <2>1. CASE reached /\ Via # "file"
      <3> DEFINE w == [secure |-> secure, vouched |-> vouched, via |-> Via, secret |-> creds]
      <3>1. wire' = wire \cup {w}
        BY <1>4, <2>1 DEF Talk
      <3>2. secure \in BOOLEAN /\ vouched \in BOOLEAN /\ creds \in BOOLEAN
        BY <1>6, <2>1 DEF TypeOK
      <3>3. Via \in {"direct", "forward"}
        BY <1>7, <2>1
      <3> HIDE DEF secure, vouched
      <3>4. w \in Answers
        BY <3>2, <3>3 DEF Answers
      <3>5. w.secure = secure /\ w.vouched = vouched /\ w.via = Via /\ w.secret = creds
        OBVIOUS
      <3>6. /\ MustProtect => secure \/ Via = "forward"
            /\ VerifiesCert(spec) /\ Plan(spec).style # "plain" => vouched
            /\ Tunneled(spec) /\ Has(spec, "tunnel") => Via = "forward"
        BY <1>6, <2>1 DEF vouched
      <3> HIDE DEF w
      <3> QED BY <1>2, <3>1, <3>4, <3>5, <3>6, SayingKeeps
    <2>2. CASE ~(reached /\ Via # "file")
      <3>1. wire' = wire
        BY <1>4, <2>2 DEF Talk
      <3> QED BY <1>2, <3>1, SaidStays DEF TypeOK, Answers
    <2> QED BY <2>1, <2>2
  <1>9. CASE Drop(Bridged)
    BY <1>1, <1>7, <1>8, <1>9, Dropping
  <1>10. CASE MayFallBack /\ FallBack
    <2>1. /\ Plan(spec).style = "fallback" /\ round = 1 /\ ~Required(spec)
          /\ round' = 2 /\ at' = 1 /\ stage' = "plan" /\ bridges' = Bridged
          /\ UNCHANGED <<op, status, creds, addr, keys, session, guard, opened, link, told, warned>>
      BY <1>10 DEF MayFallBack, FallBack, toldVars
    <2>2. TypeOK'
      <3>1. Len(Steps)' \in Nat \ {0}
        BY <1>2, NextStepsAre
      <3>2. at' \in 1..(Len(Steps)' + 1)
        BY <2>1, <3>1
      <3> QED BY <1>2, <1>7, <1>8, <2>1, <3>2 DEF TypeOK, Answers
    <2>3. Inside'
      BY <1>1, <1>2, <2>1 DEF Inside, Working
    <2>4. Behind' /\ Replay'
      BY <1>2, <1>5, <2>1 DEF Behind, Replay, Netted
    <2>5. Standing'
      BY <1>2, <2>1 DEF Standing, Netted
    <2>6. Tunnel'
      BY <1>2, <1>7, <2>1 DEF Tunnel, LoggingIn
    <2>7. Links'
      BY <1>2, <2>1 DEF Links, MustProtect, Safe
    <2> QED BY <1>8, <2>2, <2>3, <2>4, <2>5, <2>6, <2>7
  <1>11. CASE reached /\ Opened(secure)
    <2>1. /\ link' = [up |-> TRUE, secure |-> secure, via |-> Via, claims |-> Claims(spec, secure)]
          /\ bridges' = Bridged /\ at' = at + 1 /\ stage' = "plan"
          /\ UNCHANGED <<op, status, round, creds, addr, keys, session, guard, opened, told, warned>>
      BY <1>11 DEF Opened, Advance, toldVars
    <2>2. Steps' = Steps
      BY <1>2, <2>1, SameSteps
    <2>3. secure \in BOOLEAN /\ Claims(spec, secure) \in BOOLEAN
      BY <1>6, <1>11
    <2> HIDE DEF secure, reached
    <2>4. link'.up = TRUE /\ link'.secure = secure /\ link'.via = Via
          /\ link'.claims = Claims(spec, secure)
      BY <2>1
    <2>5. link' \in [up : BOOLEAN, secure : BOOLEAN, claims : BOOLEAN,
                     via : {"none", "file", "direct", "forward"}]
      BY <1>7, <2>1, <2>3
    <2>6. TypeOK'
      <3>1. at' \in 1..(Len(Steps)' + 1)
        BY <1>1, <1>2, <1>3, <2>1, <2>2
      <3> QED BY <1>2, <1>7, <1>8, <2>1, <2>5, <3>1 DEF TypeOK, Answers
    <2>7. Inside'
      BY <1>1, <1>2, <2>1 DEF Inside, Working
    <2>8. Behind'
      BY <1>1, <1>2, <1>3, <1>5, <2>1, <2>2, <2>4 DEF Behind
    <2>9. Standing' /\ Replay'
      BY <1>2, <2>1, <2>4 DEF Standing, Replay, Netted
    <2>10. Tunnel'
      BY <1>2, <1>7, <2>1 DEF Tunnel, LoggingIn
    <2>11. Links'
      <3>1. /\ MustProtect => secure \/ Via = "forward"
            /\ Required(spec) /\ Plan(spec).style = "fallback" => secure
            /\ Tunneled(spec) => secure \/ Via \in {"forward", "file"}
            /\ Claims(spec, secure) => secure
        BY <1>6, <1>11
      <3> QED BY <1>2, <2>4, <3>1 DEF Links, MustProtect, Safe
    <2> QED BY <1>8, <2>6, <2>7, <2>8, <2>9, <2>10, <2>11
  <1> QED BY <1>4, <1>9, <1>10, <1>11

-----------------------------------------------------------------------------
(* The end of an attempt, and what follows it.                              *)

\* An attempt that is through has its link, and its address.
LEMMA Through ==
  ASSUME TypeOK, Behind, Replay, Done, op = "connect"
  PROVE  link.up /\ (Netted(spec) => addr # "none")
  <1>1. spec \in ConnSpec /\ at = Len(Steps) + 1
    BY DEF TypeOK, Done
  <1>2. Straight(Plan(spec))
    BY <1>1, PlanFacts
  <1>3. Steps = IF round = 1 THEN Plan(spec).first ELSE Plan(spec).retry
    BY DEF Steps
  <1>4. Len(Steps) \in 1..(at - 1) /\ Steps[Len(Steps)] = "dial"
    BY <1>1, <1>2, <1>3 DEF Straight
  <1>5. link.up
    BY <1>4 DEF Behind
  <1>6. CASE round = 1
    <2> SUFFICES ASSUME Netted(spec) PROVE addr # "none"
      BY <1>5
    <2>1. PICK j \in 1..(Len(Steps) - 1) : Steps[j] = "net"
      BY <1>2, <1>3, <1>6 DEF Netted, Straight
    <2>2. j \in 1..(at - 1)
      BY <1>1, <1>2, <1>3, <1>6 DEF Straight
    <2> QED BY <2>1, <2>2 DEF Behind
  <1>7. CASE round = 2
    BY <1>5, <1>7 DEF Replay
  <1> QED BY <1>6, <1>7 DEF TypeOK

\* The types after a step that only turns the attempt back to its first step.
LEMMA Rewound ==
  ASSUME TypeOK, spec' = spec, keys' = keys, opened' = opened, bridges' = bridges, wire' = wire,
         at' = 1, round' = 1,
         op' \in {"connect", "endpoint", "tunnel", "tls", "auth", "switch"},
         status' \in {"opening", "live", "switching", "over"},
         stage' \in {"lookup", "plan", "login", "vault", "offer", "agent", "bind"},
         creds' \in BOOLEAN, addr' \in {"none", "server", "forward"},
         session' \in BOOLEAN, guard' \in BOOLEAN,
         link' \in [up : BOOLEAN, secure : BOOLEAN, claims : BOOLEAN,
                    via : {"none", "file", "direct", "forward"}],
         told' \in {"nothing", "error", "green", "encrypted", "plain"},
         warned' \in BOOLEAN
  PROVE  TypeOK'
  <1>1. Len(Steps)' \in Nat \ {0}
    BY NextStepsAre DEF TypeOK
  <1>2. at' \in 1..(Len(Steps)' + 1)
    BY <1>1
  <1> QED BY <1>2 DEF TypeOK

\* A connection is registered with its link and its address.
LEMMA RegisterKeeps == ASSUME IInv, Register PROVE IInv'
  <1> USE DEF IInv
  <1>1. /\ Working /\ stage = "plan" /\ op = "connect"
        /\ status' = "live" /\ at' = 1 /\ round' = 1
        /\ UNCHANGED <<spec, op, stage, creds, addr, session, guard, opened, bridges, keys, link,
                       wire>>
    BY DEF Register, Done, sshVars
  <1>2. status = "opening"
    BY <1>1 DEF Inside, Working
  <1>3. told' \in {"encrypted", "plain"} /\ warned' \in BOOLEAN
    BY DEF Register
  <1>4. TypeOK'
    BY <1>1, <1>3, Rewound DEF TypeOK
  <1>5. Inside' /\ Behind' /\ Replay'
    BY <1>1 DEF Inside, Behind, Replay
  <1>6. link.up /\ (Netted(spec) => addr # "none")
    BY Through DEF Register
  <1>7. Standing'
    BY <1>1, <1>6 DEF Standing, Netted
  <1>8. Tunnel'
    BY <1>1, <1>2 DEF Tunnel, LoggingIn
  <1>9. Links'
    BY <1>1 DEF Links, MustProtect, Safe
  <1>10. Said'
    BY <1>1, SaidStays
  <1> QED BY <1>4, <1>5, <1>7, <1>8, <1>9, <1>10

\* What a finished test or a disconnect gives back.
LEMMA DiscardKeeps ==
  ASSUME IInv, Discard, stage = "plan", op # "switch",
         told' \in {"nothing", "error", "green", "encrypted", "plain"}
  PROVE  IInv'
  <1> USE DEF IInv
  <1>1. /\ status' = "over" /\ at' = 1 /\ round' = 1 /\ link' = Down
        /\ creds' = FALSE /\ addr' = "none" /\ guard' = FALSE
        /\ UNCHANGED <<spec, op, stage, keys, opened, bridges, warned, wire>>
    BY DEF Discard
  <1>2. session' = (bridges > 0)
    BY DEF Discard
  <1>3. session' \in BOOLEAN /\ (bridges > 0 => session')
    <2>1. session' = (bridges > 0) => session' \in BOOLEAN
      OBVIOUS
    <2>2. session' = (bridges > 0) => (bridges > 0 => session')
      BY Zenon
    <2> QED BY <1>2, <2>1, <2>2, Zenon
  <1>4. link' \in [up : BOOLEAN, secure : BOOLEAN, claims : BOOLEAN,
                   via : {"none", "file", "direct", "forward"}]
        /\ link'.up = FALSE
    BY <1>1 DEF Down
  <1>5. creds' \in BOOLEAN /\ guard' \in BOOLEAN /\ addr' \in {"none", "server", "forward"}
    BY <1>1
  <1>6. TypeOK'
    BY <1>1, <1>3, <1>4, <1>5, Rewound DEF TypeOK
  <1>7. Inside' /\ Behind' /\ Standing' /\ Replay'
    BY <1>1 DEF Inside, Behind, Standing, Replay
  <1>8. Tunnel'
    BY <1>1, <1>3 DEF Tunnel, LoggingIn
  <1>9. Links'
    BY <1>4 DEF Links
  <1>10. Said'
    BY <1>1, SaidStays
  <1> QED BY <1>6, <1>7, <1>8, <1>9, <1>10

\* A verdict and a disconnect discard an attempt of theirs, never a switch.
LEMMA EndKeeps == ASSUME IInv, Verdict \/ Disconnect PROVE IInv'
  <1>1. CASE Verdict
    <2>1. Discard /\ stage = "plan" /\ op # "switch" /\ told' \in {"error", "green"}
      BY <1>1 DEF Verdict, Done
    <2> QED BY <2>1, DiscardKeeps
  <1>2. CASE Disconnect
    <2>1. Discard /\ stage = "plan" /\ op # "switch" /\ told' = told
      BY <1>2 DEF Disconnect, IInv, Inside
    <2> QED BY <2>1, DiscardKeeps DEF IInv, TypeOK
  <1> QED BY <1>1, <1>2

\* A switch starts and ends with a live link.
LEMMA SwitchKeeps == ASSUME IInv, SwitchDatabase \/ Switched PROVE IInv'
  <1> USE DEF IInv
  <1>1. /\ UNCHANGED <<spec, creds, addr, session, guard, opened, bridges, keys, link, told,
                       warned, wire>>
        /\ stage = "plan" /\ stage' = "plan" /\ at' = 1 /\ round' = 1
        /\ status \in {"live", "switching"}
        /\ \/ status' = "switching" /\ op' = "switch"
                /\ spec.driver \in {"postgres", "cockroachdb"}
           \/ status' = "live" /\ op' = "connect"
    <2>1. CASE SwitchDatabase
      BY <2>1 DEF SwitchDatabase, Inside, sshVars, toldVars
    <2>2. CASE Switched
      BY <2>2 DEF Switched, Done, Inside, sshVars, toldVars
    <2> QED BY <2>1, <2>2
  <1>2. TypeOK'
    BY <1>1, Rewound DEF TypeOK
  <1>3. Inside' /\ Behind' /\ Replay'
    BY <1>1 DEF Inside, Behind, Replay
  <1>4. Standing'
    BY <1>1 DEF Standing, Netted
  <1>5. Tunnel'
    BY <1>1 DEF Tunnel, LoggingIn
  <1>6. Links'
    BY <1>1 DEF Links, MustProtect, Safe
  <1>7. Said'
    BY <1>1, SaidStays
  <1> QED BY <1>2, <1>3, <1>4, <1>5, <1>6, <1>7

\* A cancel's session says a secret only as protected as the link it belongs to.
LEMMA CancelDialKeeps == ASSUME IInv, CancelDial PROVE IInv'
  <1> USE DEF IInv
  <1> DEFINE mysql == Plan(spec) = MysqlPlan
             secure == mysql /\ link.secure
             vouched == secure /\ VerifiesCert(spec)
             secret == mysql /\ creds
             w == [secure |-> secure, vouched |-> vouched, via |-> Via, secret |-> secret]
  <1>1. /\ status \in {"live", "switching"} /\ Has(spec, "cancel")
        /\ wire' = wire \cup {w} /\ bridges' = Bridged
        /\ UNCHANGED <<spec, op, status, stage, at, round, creds, addr, keys, session, guard,
                       opened, link, told, warned>>
    BY DEF CancelDial, toldVars
  <1>2. spec \in ConnSpec
    BY DEF TypeOK
  <1>3. Straight(Plan(spec)) /\ Styled(spec)
    BY <1>2, PlanFacts
  <1>4. Has(spec, "cancel") => spec.driver \notin {"firebird", "snowflake", "sqlite", "duckdb"}
    BY <1>2, CapsFacts
  <1>5. Plan(spec).style \notin {"file", "https"}
    BY <1>1, <1>3, <1>4 DEF Styled
  <1>6. link.up /\ addr # "none"
    BY <1>1, <1>3, <1>5 DEF Standing, Netted, Straight
  <1>7. Via \in {"direct", "forward"} /\ (Tunneled(spec) => Via = "forward")
    BY <1>5, <1>6 DEF Via, Tunnel, TypeOK
  <1>8. mysql /\ Required(spec) => link.secure
    BY <1>3, <1>6 DEF Links, Styled
  <1>9. VerifiesCert(spec) => Required(spec)
    BY DEF VerifiesCert, Required
  <1>10. secure \in BOOLEAN /\ vouched \in BOOLEAN /\ secret \in BOOLEAN
    OBVIOUS
  <1>11. /\ MustProtect /\ secret => secure
         /\ VerifiesCert(spec) /\ secret => vouched
    BY <1>8, <1>9 DEF MustProtect
  <1>12. wire' \subseteq Answers /\ Said'
    <2> HIDE DEF secure, vouched, secret
    <2>1. w \in Answers
      BY <1>7, <1>10 DEF Answers
    <2>2. w.secure = secure /\ w.vouched = vouched /\ w.via = Via /\ w.secret = secret
      OBVIOUS
    <2> HIDE DEF w
    <2> QED BY <1>1, <1>7, <1>11, <2>1, <2>2, SayingKeeps
  <1> HIDE DEF w
  <1>13. bridges' \in Nat /\ (bridges' > 0 => session' /\ opened' = 1)
    BY <1>1, BridgedFacts
  <1>14. Steps' = Steps
    BY <1>1, SameSteps
  <1>15. TypeOK'
    BY <1>1, <1>12, <1>13, <1>14 DEF TypeOK, Answers
  <1>16. Inside' /\ Behind' /\ Standing' /\ Replay'
    BY <1>1, <1>14 DEF Inside, Behind, Standing, Replay, Working, Netted
  <1>17. Tunnel'
    BY <1>1, <1>13, <1>14 DEF Tunnel, LoggingIn
  <1>18. Links'
    BY <1>1 DEF Links, MustProtect, Safe
  <1> QED BY <1>12, <1>15, <1>16, <1>17, <1>18

\* Nothing happens to the attempt.
LEMMA StutterKeeps == ASSUME IInv, UNCHANGED vars PROVE IInv'
  <1>1. UNCHANGED <<spec, op, status, stage, at, round, creds, addr, keys, session, guard, opened,
                    bridges, link, told, warned, wire>>
    BY DEF vars
  <1>2. Steps' = Steps
    BY <1>1, SameSteps
  <1>3. TypeOK'
    BY <1>1, <1>2 DEF IInv, TypeOK
  <1>4. Inside' /\ Behind' /\ Standing' /\ Replay'
    BY <1>1, <1>2 DEF IInv, Inside, Behind, Standing, Replay, Working, Netted
  <1>5. Tunnel' /\ Links'
    BY <1>1, <1>2 DEF IInv, Tunnel, LoggingIn, Links, MustProtect, Safe
  <1>6. Said'
    BY <1>1, SaidStays DEF IInv
  <1> QED BY <1>3, <1>4, <1>5, <1>6 DEF IInv

\* Every step of Next keeps the strengthened invariant.
LEMMA Inductive == ASSUME IInv, [Next]_vars PROVE IInv'
  <1>1. CASE Lookup
    BY <1>1, LookupKeeps
  <1>2. CASE Check
    BY <1>2, CheckKeeps
  <1>3. CASE ResolveSecret \/ AskVault \/ VaultLine \/ OtherAuth
    BY <1>3, SecretKeeps
  <1>4. CASE Resolve
    BY <1>4, ResolveKeeps
  <1>5. CASE SshConnect
    BY <1>5, SshConnectKeeps
  <1>6. CASE AgentKeys \/ OfferKey \/ OfferSecret
    BY <1>6, LoginKeeps
  <1>7. CASE Bind
    BY <1>7, BindKeeps
  <1>8. CASE BridgeEnds
    BY <1>8, BridgeEndsKeeps
  <1>9. CASE Dial
    BY <1>9, DialKeeps
  <1>10. CASE Probe
    BY <1>10, ProbeKeeps
  <1>11. CASE Stat
    BY <1>11, StatKeeps
  <1>12. CASE Register
    BY <1>12, RegisterKeeps
  <1>13. CASE Verdict \/ Disconnect
    BY <1>13, EndKeeps
  <1>14. CASE SwitchDatabase \/ Switched
    BY <1>14, SwitchKeeps
  <1>15. CASE CancelDial
    BY <1>15, CancelDialKeeps
  <1>16. CASE UNCHANGED vars
    BY <1>16, StutterKeeps
  <1> QED BY <1>1, <1>2, <1>3, <1>4, <1>5, <1>6, <1>7, <1>8, <1>9, <1>10, <1>11, <1>12, <1>13,
            <1>14, <1>15, <1>16 DEF Next

-----------------------------------------------------------------------------
(* The theorems.                                                            *)

\* The strengthened invariant holds of every behaviour.
THEOREM Invariance == Spec => []IInv
  <1>1. Init => IInv
    BY Initial
  <1>2. IInv /\ [Next]_vars => IInv'
    BY Inductive
  <1> QED BY <1>1, <1>2, PTL DEF Spec

\* Every field of an attempt stays in its type, whatever plan runs: no step is
\* taken past the end of a plan.
THEOREM LinkTypeCorrect == Spec => []TypeOK
  <1>1. IInv => TypeOK
    BY DEF IInv
  <1> QED BY <1>1, Invariance, PTL

\* require, verify_ca and verify_full never let a secret out in the clear: not
\* through the plaintext fallback, a database switch or a cancel.
THEOREM RequiredProtected == Spec => []RequiredMeansProtected
  <1>1. IInv => RequiredMeansProtected
    BY DEF IInv, Said
  <1> QED BY <1>1, Invariance, PTL

\* In the verifying modes no server without a trusted certificate learns a secret.
THEOREM StrangersKeptOut == Spec => []StrangersLearnNothing
  <1>1. IInv => StrangersLearnNothing
    BY DEF IInv, Said
  <1> QED BY <1>1, Invariance, PTL

\* What a driver with a configured tunnel says always rides the forward.
THEOREM TunnelNotBypassed == Spec => []TunnelCarriesEverything
  <1>1. IInv => TunnelCarriesEverything
    BY DEF IInv, Said
  <1> QED BY <1>1, Invariance, PTL

\* An attempt opens at most one forward, and an address or a bridge on it means
\* that its session is up.
THEOREM ForwardOnce == Spec => []OneForward
  <1>1. IInv => OneForward
    BY DEF IInv, Tunnel, OneForward
  <1> QED BY <1>1, Invariance, PTL

-----------------------------------------------------------------------------
(* Connecting keeps the promise of LinkPromise, step by step.               *)

\* What the promise does not look at may change freely.
LEMMA PromiseStutters ==
  ASSUME UNCHANGED <<spec, session, warned>>, (told = "encrypted") = (told' = "encrypted"),
         \/ status' = status /\ (status \in {"live", "switching"} => link' = link)
         \/ /\ status \in {"live", "switching"} /\ status' \in {"live", "switching"}
            /\ link' = link
  PROVE  UNCHANGED Promise!vars
  BY DEF Promise!vars, MustProtect, Safe

\* Giving an attempt or a link up.
LEMMA PromiseFinishes ==
  ASSUME spec' = spec, warned' = warned, status \in {"opening", "live"}, status' = "over",
         session \in BOOLEAN, session' \in {FALSE, session},
         (told = "encrypted") = (told' = "encrypted")
  PROVE  Promise!Finish
  BY DEF Promise!Finish, MustProtect

\* A session that stays up only where it is needed is given back or kept.
LEMMA GivenBack ==
  ASSUME NEW needed \in BOOLEAN, NEW was \in BOOLEAN, NEW now, now = needed, needed => was
  PROVE  now \in {FALSE, was}
  OBVIOUS

\* An attempt that is dropped is over; a switch that is dropped never happened.
LEMMA PromiseDrops ==
  ASSUME IInv, Working, NEW busy \in Nat, busy > 0 => session, Drop(busy)
  PROVE  Promise!Next \/ UNCHANGED Promise!vars
  <1>1. UNCHANGED <<spec, link, warned>>
    BY DEF Drop
  <1>2. CASE status = "switching"
    <2>1. status' = "live" /\ UNCHANGED <<session, told>>
      BY <1>2 DEF Drop
    <2> QED BY <1>1, <1>2, <2>1, PromiseStutters
  <1>3. CASE status # "switching"
    <2>1. status = "opening" /\ told = "nothing"
      BY <1>3 DEF Working, IInv, Inside
    <2>2. status' = "over" /\ told' = "error"
      BY <1>3 DEF Drop
    <2>3. session \in BOOLEAN
      BY DEF IInv, TypeOK
    <2>4. session' = (busy > 0)
      BY <1>3 DEF Drop
    <2>5. session' \in {FALSE, session}
      <3>1. (busy > 0) \in BOOLEAN
        OBVIOUS
      <3> QED BY <2>3, <2>4, <3>1, GivenBack
    <2> QED BY <1>1, <2>1, <2>2, <2>3, <2>5, PromiseFinishes DEF Promise!Next
  <1> QED BY <1>2, <1>3

\* Every error path is a Finish of the promise, or nothing.
LEMMA PromiseFails ==
  ASSUME IInv, Working, Fail
  PROVE  Promise!Next \/ UNCHANGED Promise!vars
  <1>1. bridges \in Nat /\ (bridges > 0 => session)
    BY DEF IInv, TypeOK, Tunnel
  <1> QED BY <1>1, PromiseDrops DEF Fail

\* The steps that look at nothing the promise is about: checks, secrets, the
\* login, the listener, the probes.
LEMMA PromiseWorks ==
  ASSUME IInv,
         \/ Lookup \/ Check \/ ResolveSecret \/ AskVault \/ VaultLine \/ OtherAuth
         \/ Resolve \/ AgentKeys \/ OfferKey \/ OfferSecret \/ Bind \/ Probe \/ Stat
  PROVE  Promise!Next \/ UNCHANGED Promise!vars
  <1>1. Working
    BY DEF Lookup, Check, ResolveSecret, AskVault, VaultLine, OtherAuth, Resolve, AgentKeys,
           OfferKey, OfferSecret, Bind, Probe, Stat, NeedsSecret, Doing
  <1>2. CASE Fail
    BY <1>1, <1>2, PromiseFails
  <1>3. CASE UNCHANGED <<spec, status, session, link, told, warned>>
    BY <1>3, PromiseStutters
  <1>4. CASE Lookup
    BY <1>2, <1>3, <1>4 DEF Lookup, sshVars, toldVars
  <1>5. CASE Check
    BY <1>2, <1>3, <1>5 DEF Check, sshVars, toldVars
  <1>6. CASE ResolveSecret
    BY <1>2, <1>3, <1>6 DEF ResolveSecret, Resolved, sshVars, toldVars
  <1>7. CASE AskVault
    BY <1>2, <1>3, <1>7 DEF AskVault, sshVars, toldVars
  <1>8. CASE VaultLine
    BY <1>2, <1>3, <1>8 DEF VaultLine, Resolved, sshVars, toldVars
  <1>9. CASE OtherAuth
    BY <1>2, <1>3, <1>9 DEF OtherAuth, sshVars, toldVars
  <1>10. CASE Resolve
    BY <1>3, <1>10 DEF Resolve, sshVars, toldVars
  <1>11. CASE AgentKeys \/ OfferKey \/ OfferSecret
    BY <1>2, <1>3, <1>11 DEF AgentKeys, OfferKey, OfferSecret, sshVars, toldVars
  <1>12. CASE Bind
    BY <1>2, <1>3, <1>12 DEF Bind, toldVars
  <1>13. CASE Probe
    BY <1>2, <1>3, <1>13 DEF Probe, toldVars
  <1>14. CASE Stat
    BY <1>2, <1>3, <1>14 DEF Stat, sshVars, toldVars
  <1> QED BY <1>4, <1>5, <1>6, <1>7, <1>8, <1>9, <1>10, <1>11, <1>12, <1>13, <1>14

\* A session comes up only while the link is being opened.
LEMMA PromiseBorrows ==
  ASSUME IInv, SshConnect
  PROVE  Promise!Next \/ UNCHANGED Promise!vars
  <1>1. Working /\ at \in DOMAIN Steps /\ Steps[at] = "net"
    BY DEF SshConnect, Doing
  <1>2. CASE Fail
    BY <1>1, <1>2, PromiseFails
  <1>3. CASE session' = TRUE /\ UNCHANGED <<spec, op, status, link, told, warned>>
    <2>1. op # "switch"
      <3> SUFFICES ASSUME op = "switch" PROVE FALSE
        OBVIOUS
      <3>1. Steps = <<"config", "dial">> \/ Steps = <<"dial">>
        BY DEF Steps, SwitchSteps
      <3> QED BY <1>1, <3>1
    <2>2. status = "opening"
      BY <1>1, <2>1 DEF IInv, Inside, Working
    <2>3. Promise!Borrow
      BY <1>3, <2>2 DEF Promise!Borrow, MustProtect
    <2> QED BY <2>3 DEF Promise!Next
  <1> QED BY <1>2, <1>3 DEF SshConnect, toldVars

\* A bridge that ends gives the session back only when the attempt is over.
LEMMA PromiseDrains ==
  ASSUME IInv, BridgeEnds
  PROVE  Promise!Next \/ UNCHANGED Promise!vars
  <1>1. /\ UNCHANGED <<spec, status, link, told, warned>>
        /\ bridges > OwnBridge /\ session' = (guard \/ bridges > 1)
    BY DEF BridgeEnds, toldVars
  <1>2. bridges > 0
    <2>1. bridges \in Nat /\ OwnBridge \in {0, 1}
      BY DEF IInv, TypeOK, OwnBridge
    <2> QED BY <1>1, <2>1
  <1>3. session = TRUE /\ opened = 1 /\ session' \in BOOLEAN
    BY <1>1, <1>2 DEF IInv, TypeOK, Tunnel
  <1>4. CASE session' = session
    BY <1>1, <1>4, PromiseStutters
  <1>5. CASE session' # session
    <2>1. session' = FALSE
      BY <1>3, <1>5
    <2>2. ~guard
      BY <1>1, <2>1, Zenon
    <2>3. status = "over"
      BY <1>3, <2>2 DEF IInv, Tunnel
    <2>4. Promise!Drain
      BY <1>1, <1>3, <2>1, <2>3 DEF Promise!Drain, MustProtect
    <2> QED BY <2>4 DEF Promise!Next
  <1> QED BY <1>4, <1>5

\* A dial of an opening link is nothing yet; that of a switch replaces the link by one
\* that is protected where it has to be.
LEMMA PromiseReplaces ==
  ASSUME IInv, IInv', Dial
  PROVE  Promise!Next \/ UNCHANGED Promise!vars
  <1>1. Working /\ spec' = spec
    BY DEF Dial, Doing
  <1>2. \/ \E secure \in BOOLEAN : Opened(secure)
        \/ FallBack
        \/ Drop(Bridged)
    <2>1. PICK peer \in Peers :
            \/ Reached(spec, round, peer) /\ Opened(SecureDial(spec, round, peer))
            \/ FallBack
            \/ Drop(Bridged)
      BY DEF Dial
    <2>2. Reached(spec, round, peer) => SecureDial(spec, round, peer) \in BOOLEAN
      BY Heard DEF IInv, Dial
    <2> QED BY <2>1, <2>2
  <1>3. CASE Drop(Bridged)
    <2>1. Bridged \in Nat /\ (Bridged > 0 => session)
      BY BridgedFacts DEF IInv
    <2> QED BY <1>1, <1>3, <2>1, PromiseDrops
  <1>4. CASE FallBack
    <2>1. UNCHANGED <<status, session, link, told, warned>>
      BY <1>4 DEF FallBack, toldVars
    <2> QED BY <1>1, <2>1, PromiseStutters
  <1>5. CASE \E secure \in BOOLEAN : Opened(secure)
    <2>1. UNCHANGED <<status, session, told, warned>> /\ link'.up
      BY <1>5 DEF Opened, toldVars
    <2>2. CASE status = "opening"
      BY <1>1, <2>1, <2>2, PromiseStutters
    <2>3. CASE status = "switching"
      <3>1. MustProtect' => Safe'
        BY <2>1 DEF IInv, Links
      <3>2. Safe' \in BOOLEAN
        BY DEF IInv, TypeOK, Safe
      <3>3. Promise!Replace
        BY <1>1, <2>1, <2>3, <3>1, <3>2 DEF Promise!Replace, MustProtect
      <3> QED BY <3>3 DEF Promise!Next
    <2> QED BY <1>1, <2>2, <2>3 DEF Working
  <1> QED BY <1>2, <1>3, <1>4, <1>5

\* A padlock is shown, and a required protection held, only by what Links allows.
LEMMA PromiseAdmits ==
  ASSUME IInv, Register
  PROVE  Promise!Next \/ UNCHANGED Promise!vars
  <1>1. /\ Working /\ op = "connect" /\ status' = "live"
        /\ told' = IF Padlock THEN "encrypted" ELSE "plain"
        /\ warned' = ~Padlock
        /\ UNCHANGED <<spec, session, link>>
    BY DEF Register, Done, sshVars
  <1>2. status = "opening"
    BY <1>1 DEF IInv, Inside, Working
  <1>3. link.up
    BY Through DEF IInv, Register
  <1>4. (MustProtect => Safe) /\ (Padlock => Safe)
    BY <1>3 DEF IInv, Links, Padlock, Safe
  <1>5. (told' = "encrypted") = Padlock
    <2>1. Padlock \in BOOLEAN
      BY DEF Padlock, IInv, TypeOK
    <2> QED BY <1>1, <2>1
  <1>6. Promise!Admit
    <2>1. Safe' = Safe /\ MustProtect' = MustProtect
      BY <1>1 DEF Safe, MustProtect
    <2>2. Safe \in BOOLEAN /\ Padlock \in BOOLEAN
      BY DEF Safe, Padlock, IInv, TypeOK
    <2> QED BY <1>1, <1>2, <1>4, <1>5, <2>1, <2>2 DEF Promise!Admit
  <1> QED BY <1>6 DEF Promise!Next

\* A verdict or a disconnect finishes, and the padlock stays as it was shown.
LEMMA PromiseEnds ==
  ASSUME IInv, Verdict \/ Disconnect
  PROVE  Promise!Next \/ UNCHANGED Promise!vars
  <1>1. /\ Discard
        /\ status \in {"opening", "live"}
        /\ (told = "encrypted") = (told' = "encrypted")
    <2>1. CASE Verdict
      <3>1. Discard /\ op # "switch" /\ Working /\ told' \in {"error", "green"}
        BY <2>1 DEF Verdict, Done
      <3>2. status = "opening" /\ told = "nothing"
        BY <3>1 DEF IInv, Inside, Working
      <3> QED BY <3>1, <3>2
    <2>2. CASE Disconnect
      BY <2>2 DEF Disconnect
    <2> QED BY <2>1, <2>2
  <1>2. status' = "over" /\ UNCHANGED <<spec, warned>> /\ session' = (bridges > 0)
    BY <1>1 DEF Discard
  <1>3. session \in BOOLEAN /\ (bridges > 0 => session)
    BY DEF IInv, TypeOK, Tunnel
  <1>4. session' \in {FALSE, session}
    <2>1. (bridges > 0) \in BOOLEAN
      OBVIOUS
    <2> QED BY <1>2, <1>3, <2>1, GivenBack
  <1> QED BY <1>1, <1>2, <1>3, <1>4, PromiseFinishes DEF Promise!Next

\* Between two databases the connection stays live, and a cancel changes nothing.
LEMMA PromiseStays ==
  ASSUME IInv, SwitchDatabase \/ Switched \/ CancelDial \/ UNCHANGED vars
  PROVE  UNCHANGED Promise!vars
  <1>1. UNCHANGED <<spec, session, link, told, warned>>
    BY DEF SwitchDatabase, Switched, CancelDial, vars, sshVars, toldVars
  <1>2. \/ status' = status
        \/ status \in {"live", "switching"} /\ status' \in {"live", "switching"}
    <2>1. CASE Switched
      BY <2>1 DEF Switched, Done, IInv, Inside
    <2> QED BY <2>1 DEF SwitchDatabase, CancelDial, vars
  <1> QED BY <1>1, <1>2, PromiseStutters

\* Every step of an attempt is a step of the promise, or none.
LEMMA PromiseStep ==
  ASSUME IInv, [Next]_vars
  PROVE  [Promise!Next]_(Promise!vars)
  <1>1. IInv'
    BY Inductive
  <1>2. CASE \/ Lookup \/ Check \/ ResolveSecret \/ AskVault \/ VaultLine \/ OtherAuth
             \/ Resolve \/ AgentKeys \/ OfferKey \/ OfferSecret \/ Bind \/ Probe \/ Stat
    BY <1>2, PromiseWorks
  <1>3. CASE SshConnect
    BY <1>3, PromiseBorrows
  <1>4. CASE BridgeEnds
    BY <1>4, PromiseDrains
  <1>5. CASE Dial
    BY <1>1, <1>5, PromiseReplaces
  <1>6. CASE Register
    BY <1>6, PromiseAdmits
  <1>7. CASE Verdict \/ Disconnect
    BY <1>7, PromiseEnds
  <1>8. CASE SwitchDatabase \/ Switched \/ CancelDial \/ UNCHANGED vars
    BY <1>8, PromiseStays
  <1> QED BY <1>2, <1>3, <1>4, <1>5, <1>6, <1>7, <1>8 DEF Next

\* The safety half of ImplementsPromise: whatever an attempt or a live connection
\* does is a step the promise allows, or none.  (That a session is given back in
\* the end is liveness, and TLC's.)
THEOREM PromiseKept == Spec => Promise!Init /\ [][Promise!Next]_(Promise!vars)
  <1>1. Init => Promise!Init
    BY DEF Init, Promise!Init, MustProtect
  <1>2. IInv /\ [Next]_vars => [Promise!Next]_(Promise!vars)
    BY PromiseStep
  <1> QED BY <1>1, <1>2, Invariance, PTL DEF Spec
=============================================================================

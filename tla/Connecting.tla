---------------------------- MODULE Connecting ----------------------------
(***************************************************************************)
(* One connection from its specification to its end: the handlers connect  *)
(* and connection.test of src/native/src/server.rs, the network seam with  *)
(* its SSH forward (net.rs), the secrets (secret.rs, vault.rs), the TLS    *)
(* postures (tls.rs) and connect, switch_database, cancel and close of     *)
(* every driver.                                                           *)
(*                                                                         *)
(* A driver is a PLAN: the steps its connect runs, in order, and the steps *)
(* it replays in plaintext when the encrypted attempt fails.  The actions  *)
(* below execute plans, so they are the same for every driver; what answers*)
(* a dial is chosen anew at each dial, so a server may change between the  *)
(* encrypted attempt and its fallback.                                     *)
(***************************************************************************)
EXTENDS Drivers, Sequences

CONSTANTS Specs,         \* the specifications a client may send
          MaxBridges,    \* bound: bridge tasks at once
          MaxKeys        \* bound: identities in the SSH agent

ASSUME SpecsAssumption == Specs \subseteq ConnSpec
ASSUME BoundsAssumption == MaxBridges \in Nat \ {0, 1} /\ MaxKeys \in Nat

VARIABLES
  spec,      \* the specification being opened
  op,        \* "connect", a test stage, or "switch"
  status,    \* "opening", "live", "switching", "over"
  stage,     \* where in the current step: "plan", or inside net / a secret
  at,        \* the current step of Steps
  round,     \* 1, or 2 for the plaintext replay
  creds,     \* the credential the driver will present
  addr,      \* what NetContext::resolve answered
  keys,      \* identities of the agent not yet offered
  session,   \* the SSH session is up
  guard,     \* the local forward is listening (TunnelGuard)
  opened,    \* forwards opened by this attempt
  bridges,   \* forwarded connections being copied
  link,      \* the driver's open connection
  told,      \* the answer to the client
  warned,    \* daemon.log announced a link that is not encrypted
  wire       \* every conversation held: protected how, saying what

sshVars == <<session, guard, opened, bridges, keys>>
toldVars == <<told, warned>>
vars == <<spec, op, status, stage, at, round, creds, addr, keys, session, guard,
          opened, bridges, link, told, warned, wire>>

-----------------------------------------------------------------------------
(* The drivers' plans.                                                      *)
(*   first, retry  the steps, and those replayed in plaintext               *)
(*   style         how a dial treats TLS                                    *)
(*   named         the modes in which the certificate's name is checked     *)
(*   files         when an unusable client certificate is noticed           *)
(*   resolves, keyfile, refuses   what the "secret" step makes of auth      *)

PgPlan == [first |-> <<"host", "database", "secret", "net", "config", "dial">>,
           retry |-> <<"dial">>,
           style |-> "fallback", named |-> {"verify_ca", "verify_full"}, files |-> "strict",
           resolves |-> {"password"}, keyfile |-> {}, refuses |-> {}]

\* The fallback rebuilds its Opts: parameters, secret and address once more.
MysqlPlan == [PgPlan EXCEPT !.first = <<"host", "secret", "net", "dial">>,
                            !.retry = <<"host", "secret", "net", "dial">>,
                            !.named = {"verify_full"},
                            !.files = "at_dial"]

MongoPlan == [PgPlan EXCEPT !.first = <<"host", "database", "net", "secret", "dial">>,
                            !.files = "at_dial"]

RedisPlan == [PgPlan EXCEPT !.first = <<"host", "net", "secret", "dial">>,
                            !.files = "unused"]

ClickhousePlan == [PgPlan EXCEPT !.first = <<"host", "net", "secret", "config", "dial">>,
                                 !.named = {"verify_full"},
                                 !.files = "pair"]

\* tiberius negotiates inside one dial, at the level the mode maps to.
MssqlPlan == [PgPlan EXCEPT !.first = <<"host", "net", "secret", "dial">>,
                            !.style = "level", !.files = "unused",
                            !.refuses = AuthKind \ {"password"}]

\* No TLS of its own: "native" refuses what it cannot protect.
CqlPlan == [PgPlan EXCEPT !.first = <<"native", "host", "net", "secret", "dial">>,
                          !.style = "plain", !.files = "unused"]

FirebirdPlan == [PgPlan EXCEPT !.first = <<"host", "database", "net", "secret", "dial">>,
                               !.style = "plain", !.files = "unused"]

\* Dials its HTTPS endpoint itself, never through the network seam.
SnowflakePlan == [PgPlan EXCEPT !.first = <<"account", "user", "secret", "dial">>,
                                !.style = "https", !.files = "unused",
                                !.resolves = {"provider"}, !.keyfile = {"client_cert"},
                                !.refuses = AuthKind \ {"provider", "client_cert"}]

SqlitePlan == [PgPlan EXCEPT !.first = <<"file", "dial">>,
                             !.style = "file", !.files = "unused", !.resolves = {}]

DuckdbPlan == SqlitePlan

Plan(s) ==
  CASE s.driver \in {"postgres", "cockroachdb"} -> PgPlan
    [] s.driver \in {"mysql", "mariadb"} -> MysqlPlan
    [] s.driver = "mongodb" -> MongoPlan
    [] s.driver = "redis" -> RedisPlan
    [] s.driver = "clickhouse" -> ClickhousePlan
    [] s.driver = "sqlserver" -> MssqlPlan
    [] s.driver \in {"cassandra", "scylla"} -> CqlPlan
    [] s.driver = "firebird" -> FirebirdPlan
    [] s.driver = "snowflake" -> SnowflakePlan
    [] s.driver = "sqlite" -> SqlitePlan
    [] OTHER -> DuckdbPlan

\* Every parameter a form asks for is one connect insists on, and no way to log
\* in that a form offers is refused before the server is asked.
ASSUME FormsAgree ==
  \A m \in Metas : LET p == Plan([driver |-> m.kind])
                   IN /\ m.required \subseteq {p.first[i] : i \in DOMAIN p.first}
                      /\ m.auth \cap p.refuses = {}

EndpointSteps(s) == IF Meta(s.driver).file THEN <<"file", "stat">>
                                           ELSE <<"host", "port", "net", "probe">>

TunnelSteps == <<"tunnel", "host", "port", "net">>

SwitchSteps(r) == IF r = 1 THEN <<"config", "dial">> ELSE <<"dial">>

Steps == CASE op = "endpoint" -> EndpointSteps(spec)
           [] op = "tunnel" -> TunnelSteps
           [] op = "switch" -> SwitchSteps(round)
           [] OTHER -> IF round = 1 THEN Plan(spec).first ELSE Plan(spec).retry

ParamKeys == {"host", "database", "account", "user", "file"}

-----------------------------------------------------------------------------
(* What answers a dial, and what becomes of the dial.                       *)

\* A server nobody can reach offers neither TLS nor plaintext.  A certificate
\* is vouched for by the roots the driver uses, or a stranger's.
Peers == [tls : {"none", "stranger", "vouched"}, named : BOOLEAN,
          plain : BOOLEAN, login : BOOLEAN]

\* The certificate names the server, never the forward's local address.
Named(peer) == peer.named /\ addr # "forward"

\* Bug: verify_ca is taken for a mode that checks nothing.
AcceptsCert_NameOnly(s, peer) ==
  \/ ~VerifiesHostname(s)
  \/ /\ peer.tls = "vouched"
     /\ s.tls \in Plan(s).named => Named(peer)

AcceptsCert(s, peer) ==
  \/ ~VerifiesCert(s)
  \/ /\ peer.tls = "vouched"
     /\ s.tls \in Plan(s).named => Named(peer)

SecureDial(s, r, peer) ==
  CASE Plan(s).style = "fallback" -> Wanted(s) /\ r = 1
    [] Plan(s).style = "level" -> Wanted(s) /\ peer.tls # "none"
    [] Plan(s).style = "https" -> TRUE
    [] OTHER -> FALSE

\* The handshake went through: the driver now says what it has to say.
Reached(s, r, peer) ==
  IF SecureDial(s, r, peer)
  THEN /\ peer.tls # "none"
       /\ IF Plan(s).style = "https" THEN peer.tls = "vouched" /\ Named(peer)
                                     ELSE AcceptsCert(s, peer)
       /\ ~(Plan(s).files = "at_dial" /\ s.identity = "unreadable")
  ELSE /\ peer.plain
       /\ Plan(s).style = "level" => ~Required(s)

\* Bug: a link that TLS was offered on counts as one.
Claims_Negotiated(s, secure) ==
  CASE Plan(s).style \in {"fallback", "https"} -> secure
    [] Plan(s).style = "level" -> Wanted(s)
    [] OTHER -> FALSE

\* Connection::encrypted.
Claims(s, secure) ==
  CASE Plan(s).style \in {"fallback", "https"} -> secure
    [] Plan(s).style = "level" -> Required(s)
    [] OTHER -> FALSE

\* rustls takes both files or none, reqwest reads a pair when there is one.
ConfigOk(s) == \/ ~Wanted(s)
               \/ Plan(s).files = "strict" /\ s.identity \in {"none", "both"}
               \/ Plan(s).files = "pair" /\ s.identity # "unreadable"

Down == [up |-> FALSE, secure |-> FALSE, via |-> "none", claims |-> FALSE]

Via == IF Plan(spec).style = "file" THEN "file"
       ELSE IF addr = "forward" THEN "forward" ELSE "direct"

Safe == link.secure \/ link.via \in {"forward", "file"}

\* The link keeps one bridge of its own.
OwnBridge == IF link.up /\ link.via = "forward" THEN 1 ELSE 0

-----------------------------------------------------------------------------
Init ==
  /\ spec \in Specs
  /\ op \in {"connect", "endpoint", "tunnel", "tls", "auth"}
  /\ status = "opening" /\ stage = "lookup" /\ at = 1 /\ round = 1
  /\ creds = FALSE /\ addr = "none" /\ keys = 0
  /\ session = FALSE /\ guard = FALSE /\ opened = 0 /\ bridges = 0
  /\ link = Down
  /\ told = "nothing" /\ warned = FALSE
  /\ wire = {}

(* An error drops everything the attempt holds; a switch that fails leaves  *)
(* the connection it was to replace.  busy is the number of bridge tasks:   *)
(* they own the SSH session together with the guard.                        *)
Drop(busy) ==
  /\ bridges' = busy
  /\ at' = 1 /\ round' = 1 /\ stage' = "plan"
  /\ IF status = "switching"
     THEN /\ status' = "live" /\ op' = "connect"
          /\ UNCHANGED <<creds, addr, guard, session, told>>
     ELSE /\ status' = "over"
          /\ creds' = FALSE /\ addr' = "none" /\ guard' = FALSE
          /\ session' = (busy > 0)
          /\ told' = "error"
          /\ UNCHANGED op
  /\ UNCHANGED <<spec, keys, opened, link, warned>>

Fail == Drop(bridges) /\ UNCHANGED wire

Working == status \in {"opening", "switching"}
Doing(step) == /\ Working /\ stage = "plan"
               /\ at \in DOMAIN Steps
               /\ Steps[at] = step

\* The step is over: on to the next one of the plan.
Advance == at' = at + 1 /\ stage' = "plan"

\* registry.get, and the metadata lookup of a test.
Lookup ==
  /\ Working /\ stage = "lookup"
  /\ \/ /\ Registered(spec.driver)
        /\ stage' = "plan"
        /\ UNCHANGED <<spec, op, status, at, round, creds, addr, sshVars, link, toldVars, wire>>
     \/ /\ ~Registered(spec.driver)
        /\ Fail

\* What a step that only looks at the specification lets through: a required
\* parameter, a configured tunnel, a port, a link CQL can protect, the TLS
\* configuration.
Passes(step) ==
  CASE step \in ParamKeys -> step \in spec.params
    [] step = "tunnel" -> Tunneled(spec)
    [] step = "port" -> Port(spec, Meta(spec.driver).port) # 0
    [] step = "native" -> ~Required(spec) \/ Tunneled(spec)
    [] step = "config" -> ConfigOk(spec)
    [] OTHER -> FALSE

Check ==
  \E step \in ParamKeys \cup {"tunnel", "port", "native", "config"} :
    /\ Doing(step)
    /\ \/ /\ Passes(step)
          /\ Advance
          /\ UNCHANGED <<spec, op, status, round, creds, addr, sshVars, link, toldVars, wire>>
       \/ /\ ~Passes(step)
          /\ Fail

-----------------------------------------------------------------------------
(* Secrets: the driver's own at its "secret" step, the tunnel's while the   *)
(* forward is being opened ("login").                                       *)

NeedsSecret ==
  \/ Doing("secret") /\ spec.auth \in Plan(spec).resolves
  \/ Working /\ stage = "login" /\ spec.tunnel \in {"password", "key"}

\* The resolved text goes back to whoever asked for it.
Resolved(some) ==
  /\ IF Steps[at] = "net"
     THEN stage' = "offer" /\ UNCHANGED <<at, creds>>
     ELSE Advance /\ creds' = some
  /\ UNCHANGED <<spec, op, status, round, addr, sshVars, link, toldVars, wire>>

\* An environment variable may be unset, a command may fail.
ResolveSecret ==
  /\ NeedsSecret
  /\ \/ spec.secret = "empty" /\ Resolved(FALSE)
     \/ spec.secret \in {"literal", "env", "cmd"} /\ Resolved(TRUE)
     \/ spec.secret \in {"env", "cmd", "malformed"} /\ Fail

\* The keyring agent's socket: unknown, or nobody listens, or it is asked.
AskVault ==
  /\ NeedsSecret
  /\ spec.secret = "vault"
  /\ \/ /\ stage' = "vault"
        /\ UNCHANGED <<spec, op, status, at, round, creds, addr, sshVars, link, toldVars, wire>>
     \/ Fail

\* One line of the agent.  Notifications and lines that do not parse are read
\* over (they change nothing here); "closed", "locked" or a reply without a
\* value end the attempt.
VaultLine ==
  /\ Working /\ stage = "vault"
  /\ Resolved(TRUE) \/ Fail

\* Nothing to resolve: a key file to read, an auth the driver turns down, or an
\* auth it silently takes as "no credential".
OtherAuth ==
  /\ Doing("secret")
  /\ spec.auth \notin Plan(spec).resolves
  /\ \/ /\ spec.auth \notin Plan(spec).refuses
        /\ Advance
        /\ creds' = (spec.auth \in Plan(spec).keyfile)
        /\ UNCHANGED <<spec, op, status, round, addr, sshVars, link, toldVars, wire>>
     \/ /\ spec.auth \in Plan(spec).refuses \cup Plan(spec).keyfile
        /\ Fail

-----------------------------------------------------------------------------
(* The network seam: NetContext::resolve and TunnelGuard::open.             *)

\* Bug: a later ask is answered with the server itself.
Resolve_Direct ==
  /\ Doing("net")
  /\ ~Tunneled(spec) \/ guard
  /\ addr' = "server"
  /\ Advance
  /\ UNCHANGED <<spec, op, status, round, creds, sshVars, link, toldVars, wire>>

\* No tunnel: the server itself.  A forward opened before: that one.
Resolve ==
  /\ Doing("net")
  /\ ~Tunneled(spec) \/ guard
  /\ addr' = IF guard THEN "forward" ELSE "server"
  /\ Advance
  /\ UNCHANGED <<spec, op, status, round, creds, sshVars, link, toldVars, wire>>

\* Bug: every ask opens a forward of its own.
SshConnect_Again ==
  /\ Doing("net")
  /\ Tunneled(spec)
  /\ \/ /\ session' = TRUE
        /\ stage' = "login"
        /\ UNCHANGED <<spec, op, status, at, round, creds, addr, guard, opened, bridges, keys,
                       link, toldVars, wire>>
     \/ Fail

\* client::connect, and with an agent the list of its identities.
SshConnect ==
  /\ Doing("net")
  /\ Tunneled(spec) /\ ~guard
  /\ \/ /\ session' = TRUE
        /\ stage' = "login"
        /\ UNCHANGED <<spec, op, status, at, round, creds, addr, guard, opened, bridges, keys,
                       link, toldVars, wire>>
     \/ Fail

AgentKeys ==
  /\ Working /\ stage = "login" /\ spec.tunnel = "agent"
  /\ \/ /\ keys' \in 0..MaxKeys
        /\ stage' = "agent"
        /\ UNCHANGED <<spec, op, status, at, round, creds, addr, session, guard, opened, bridges,
                       link, toldVars, wire>>
     \/ Fail

\* One identity after the other until one is accepted.
OfferKey ==
  /\ Working /\ stage = "agent"
  /\ \/ /\ keys > 0
        /\ \/ stage' = "bind" /\ keys' = 0
           \/ stage' = "agent" /\ keys' = keys - 1
        /\ UNCHANGED <<spec, op, status, at, round, creds, addr, session, guard, opened, bridges,
                       link, toldVars, wire>>
     \/ /\ keys = 0
        /\ Fail

\* The password, or the key once it is loaded, is accepted or not.
OfferSecret ==
  /\ Working /\ stage = "offer"
  /\ \/ /\ stage' = "bind"
        /\ UNCHANGED <<spec, op, status, at, round, creds, addr, sshVars, link, toldVars, wire>>
     \/ Fail

\* The local listener and its accept loop.
Bind ==
  /\ Working /\ stage = "bind"
  /\ \/ /\ guard' = TRUE
        /\ opened' = opened + 1
        /\ addr' = "forward"
        /\ Advance
        /\ UNCHANGED <<spec, op, status, round, creds, session, bridges, keys, link, toldVars, wire>>
     \/ Fail

\* The accept loop hands every connection to a task of its own, which lives as
\* long as both ends do and keeps the session alive meanwhile.
BridgeEnds ==
  /\ bridges > OwnBridge
  /\ bridges' = bridges - 1
  /\ session' = (guard \/ bridges > 1)
  /\ UNCHANGED <<spec, op, status, stage, at, round, creds, addr, guard, opened, keys, link,
                 toldVars, wire>>

-----------------------------------------------------------------------------
(* Dials.                                                                   *)

Bridged == bridges + (IF Via = "forward" THEN 1 ELSE 0)

\* Bug: what the mode requires is not looked at.
MayFallBack_Always ==
  Plan(spec).style = "fallback" /\ round = 1 /\ Wanted(spec)

\* Whether a failed attempt is followed by a plaintext one.
MayFallBack == /\ Plan(spec).style = "fallback"
               /\ round = 1
               /\ Wanted(spec) /\ ~Required(spec)

Talk(secure, vouched) == IF Via = "file" THEN {}
                         ELSE {[secure |-> secure, vouched |-> vouched, via |-> Via,
                                secret |-> creds]}

\* Bug: the step counter is not reset.
FallBack_KeepStep ==
  /\ round' = 2 /\ stage' = "plan"
  /\ bridges' = Bridged
  /\ UNCHANGED <<op, status, at, creds, addr, keys, session, guard, opened, link, toldVars>>

\* The encrypted attempt failed: the plan's plaintext part is next.
FallBack ==
  /\ round' = 2 /\ at' = 1 /\ stage' = "plan"
  /\ bridges' = Bridged
  /\ UNCHANGED <<op, status, creds, addr, keys, session, guard, opened, link, toldVars>>

Opened(secure) ==
  /\ link' = [up |-> TRUE, secure |-> secure, via |-> Via, claims |-> Claims(spec, secure)]
  /\ bridges' = Bridged
  /\ Advance
  /\ UNCHANGED <<op, status, round, creds, addr, keys, session, guard, opened, toldVars>>

Dial ==
  /\ Doing("dial")
  /\ \E peer \in Peers :
       LET secure == SecureDial(spec, round, peer)
           reached == Reached(spec, round, peer)
           in == reached /\ peer.login
       IN /\ wire' = IF reached THEN wire \cup Talk(secure, secure /\ peer.tls = "vouched")
                    ELSE wire
          /\ \/ in /\ Opened(secure)
             \/ ~in /\ MayFallBack /\ FallBack
             \/ ~in /\ ~MayFallBack /\ Drop(Bridged)
  /\ UNCHANGED spec

\* The endpoint test's bare socket: the forward's own listener always answers.
Probe ==
  /\ Doing("probe")
  /\ \/ /\ Advance
        /\ bridges' = Bridged
        /\ UNCHANGED <<spec, op, status, round, creds, addr, keys, session, guard, opened, link,
                       toldVars, wire>>
     \/ addr = "server" /\ Fail

\* ... and its look at a file.
Stat ==
  /\ Doing("stat")
  /\ \/ /\ Advance
        /\ UNCHANGED <<spec, op, status, round, creds, addr, sshVars, link, toldVars, wire>>
     \/ Fail

-----------------------------------------------------------------------------
(* The end of an attempt.                                                   *)

Done == Working /\ stage = "plan" /\ at = Len(Steps) + 1

Padlock == link.claims \/ Tunneled(spec)

\* connect: the entry, the warning and the answer.
Register ==
  /\ Done /\ op = "connect"
  /\ status' = "live"
  /\ told' = IF Padlock THEN "encrypted" ELSE "plain"
  /\ warned' = ~Padlock
  /\ at' = 1 /\ round' = 1
  /\ UNCHANGED <<spec, op, stage, creds, addr, sshVars, link, wire>>

\* Everything of the attempt goes; bridge tasks are left to notice.
Discard ==
  /\ status' = "over" /\ at' = 1 /\ round' = 1
  /\ link' = Down /\ creds' = FALSE /\ addr' = "none"
  /\ guard' = FALSE /\ session' = (bridges > 0)
  /\ UNCHANGED <<spec, op, stage, keys, opened, bridges, warned, wire>>

\* A test stage is green, except the TLS stage on a link in the clear.
Verdict ==
  /\ Done /\ op \in {"endpoint", "tunnel", "tls", "auth"}
  /\ told' = IF op = "tls" /\ ~Padlock THEN "error" ELSE "green"
  /\ Discard

Disconnect ==
  /\ status = "live"
  /\ Discard
  /\ UNCHANGED told

\* PostgreSQL only: another database is another connection, from the kept
\* Config and TlsSpec.
SwitchDatabase ==
  /\ status = "live" /\ spec.driver \in {"postgres", "cockroachdb"}
  /\ bridges < MaxBridges
  /\ status' = "switching" /\ op' = "switch"
  /\ UNCHANGED <<spec, stage, at, round, creds, addr, sshVars, link, toldVars, wire>>

Switched ==
  /\ Done /\ op = "switch"
  /\ status' = "live" /\ op' = "connect"
  /\ at' = 1 /\ round' = 1
  /\ UNCHANGED <<spec, stage, creds, addr, sshVars, link, toldVars, wire>>

\* A cancel opens a session of its own: PostgreSQL's in the clear, saying only
\* the backend's key; MySQL's with the Opts of the link, logging in again.
CancelDial ==
  /\ status \in {"live", "switching"} /\ Has(spec, "cancel")
  /\ bridges < MaxBridges
  /\ LET mysql == Plan(spec) = MysqlPlan
     IN wire' = wire \cup {[secure |-> mysql /\ link.secure,
                            vouched |-> mysql /\ link.secure /\ VerifiesCert(spec),
                            via |-> Via, secret |-> mysql /\ creds]}
  /\ bridges' = Bridged
  /\ UNCHANGED <<spec, op, status, stage, at, round, creds, addr, keys, session, guard, opened,
                 link, toldVars>>

Next ==
  \/ Lookup \/ Check
  \/ ResolveSecret \/ AskVault \/ VaultLine \/ OtherAuth
  \/ Resolve \/ SshConnect \/ AgentKeys \/ OfferKey \/ OfferSecret \/ Bind \/ BridgeEnds
  \/ Dial \/ Probe \/ Stat
  \/ Register \/ Verdict \/ Disconnect \/ SwitchDatabase \/ Switched \/ CancelDial

\* copy_bidirectional ends once one of the two sockets is gone.
Spec == Init /\ [][Next]_vars /\ WF_vars(BridgeEnds)

-----------------------------------------------------------------------------
TypeOK ==
  /\ spec \in ConnSpec
  /\ op \in {"connect", "endpoint", "tunnel", "tls", "auth", "switch"}
  /\ status \in {"opening", "live", "switching", "over"}
  /\ stage \in {"lookup", "plan", "login", "vault", "offer", "agent", "bind"}
  /\ at \in 1..(Len(Steps) + 1)
  /\ round \in 1..2
  /\ creds \in BOOLEAN
  /\ addr \in {"none", "server", "forward"}
  /\ keys \in 0..MaxKeys
  /\ session \in BOOLEAN /\ guard \in BOOLEAN
  /\ opened \in Nat /\ bridges \in Nat
  /\ link \in [up : BOOLEAN, secure : BOOLEAN, claims : BOOLEAN,
               via : {"none", "file", "direct", "forward"}]
  /\ told \in {"nothing", "error", "green", "encrypted", "plain"}
  /\ warned \in BOOLEAN
  /\ wire \subseteq [secure : BOOLEAN, vouched : BOOLEAN, secret : BOOLEAN,
                    via : {"direct", "forward"}]

\* A link whose mode requires protection, on a driver that has TLS to offer.
MustProtect == Required(spec) /\ Has(spec, "tls")

\* No secret is ever said in the clear when TLS is required (postgres.rs
\* 224-225): not by the fallback, not after a database switch, not by a cancel.
RequiredMeansProtected ==
  MustProtect => \A w \in wire : w.secret => w.secure \/ w.via = "forward"

\* In the verifying modes a server no trusted root vouches for never learns
\* the secret, whatever was tried before (spec.rs 202-205).  CQL has no TLS at
\* all, so its tunnelled links are not meant.
StrangersLearnNothing ==
  VerifiesCert(spec) /\ Plan(spec).style # "plain" =>
    \A w \in wire : w.secret => w.vouched

\* A required tunnel is never bypassed (net.rs 11-12): once configured, all a
\* driver says rides the forward, its retries and its cancels included.
TunnelCarriesEverything ==
  Tunneled(spec) /\ Has(spec, "tunnel") => \A w \in wire : w.via = "forward"

\* However often an attempt asks for the address, it opens one forward, and
\* the answers to the later asks are that forward (net.rs 41).
OneForward ==
  /\ opened <= 1
  /\ addr = "forward" => guard /\ session
  /\ bridges > 0 => session /\ opened = 1

Promise == INSTANCE LinkPromise
             WITH must <- MustProtect,
                  phase <- IF status = "switching" THEN "live" ELSE status,
                  safe <- status \in {"live", "switching"} /\ Safe,
                  padlock <- told = "encrypted",
                  held <- session

\* Connecting keeps the promise of LinkPromise: protection, padlock, warning,
\* and every SSH session given back in the end.
ImplementsPromise == Promise!Spec
=============================================================================

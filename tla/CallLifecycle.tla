---------------------------- MODULE CallLifecycle ----------------------------
(***************************************************************************)
(* What query.execute promises its client about one call, with no mention  *)
(* of connections, locks, tasks or maps:                                   *)
(*   - the call id is known before anything is said about the call;        *)
(*   - one terminal state is announced, and it is the call's state from    *)
(*     then on;                                                            *)
(*   - a cancel accepted before the call settles decides the outcome.      *)
(***************************************************************************)
CONSTANT Calls

VARIABLES state,  \* what query.page and query.cancel see of each call
          known,  \* the calls whose id the client has been sent
          told    \* the states announced for each call

cvars == <<state, known, told>>

CInit ==
    /\ state = [c \in Calls |-> "none"]
    /\ known = {}
    /\ told = [c \in Calls |-> {}]

Accept(c) ==
    /\ state[c] = "none"
    /\ state' = [state EXCEPT ![c] = "running"]
    /\ UNCHANGED <<known, told>>

Tell(c) ==
    /\ c \notin known
    /\ state[c] # "none"
    /\ known' = known \cup {c}
    /\ UNCHANGED <<state, told>>

AbandonRunning(c) ==
    /\ state[c] = "running"
    /\ state' = [state EXCEPT ![c] = "cancelled"]
    /\ UNCHANGED <<known, told>>

Settle(c) ==
    /\ c \in known
    /\ told[c] = {}
    /\ \E s \in {"done", "failed", "cancelled"} :
          /\ (s = "cancelled") <=> (state[c] = "cancelled")
          /\ state' = [state EXCEPT ![c] = s]
          /\ told' = [told EXCEPT ![c] = {s}]
    /\ UNCHANGED known

CNext == \E c \in Calls : Accept(c) \/ Tell(c) \/ AbandonRunning(c) \/ Settle(c)

CSpec == CInit /\ [][CNext]_cvars

CFairSpec == CSpec /\ \A c \in Calls : WF_cvars(Tell(c)) /\ WF_cvars(Settle(c))
=============================================================================

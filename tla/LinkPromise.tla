---------------------------- MODULE LinkPromise ----------------------------
(***************************************************************************)
(* What opening a connection promises, whatever the driver: the doc        *)
(* comments of src/native/src/spec.rs 163-167, net.rs 11-12 and server.rs  *)
(* 196-197, 210-216 as one small specification.                            *)
(*   - a link that must be protected is never given out unprotected, nor   *)
(*     turned into an unprotected one later;                               *)
(*   - the padlock shown with a fresh link is never a lie, and a link that *)
(*     gets no padlock is announced;                                       *)
(*   - whatever the attempt or the link borrowed on the way (an SSH        *)
(*     session) is given back once it is over.                             *)
(* Connecting implements it.                                               *)
(***************************************************************************)
VARIABLES must,      \* the link has to be protected
          phase,     \* "opening", "live" or "over"
          safe,      \* the live link is protected, by TLS or by the tunnel
          padlock,   \* the answer to the client said so
          warned,    \* an unprotected link was announced
          held       \* an SSH session is up

vars == <<must, phase, safe, padlock, warned, held>>

Init == /\ must \in BOOLEAN
        /\ phase = "opening"
        /\ ~safe /\ ~padlock /\ ~warned /\ ~held

Borrow == /\ phase = "opening"
          /\ held' = TRUE
          /\ UNCHANGED <<must, phase, safe, padlock, warned>>

Admit == /\ phase = "opening"
         /\ phase' = "live"
         /\ safe' \in BOOLEAN
         /\ must => safe'
         /\ padlock' \in BOOLEAN
         /\ padlock' => safe'
         /\ warned' = ~padlock'
         /\ UNCHANGED <<must, held>>

\* A refused attempt, a dry run that is over, a link that is closed.
Finish == /\ phase \in {"opening", "live"}
          /\ phase' = "over"
          /\ safe' = FALSE
          /\ held' \in {FALSE, held}
          /\ UNCHANGED <<must, padlock, warned>>

\* The link is opened anew under the same entry (another database).
Replace == /\ phase = "live"
           /\ safe' \in BOOLEAN
           /\ must => safe'
           /\ UNCHANGED <<must, phase, padlock, warned, held>>

Drain == /\ phase = "over"
         /\ held
         /\ held' = FALSE
         /\ UNCHANGED <<must, phase, safe, padlock, warned>>

Next == Borrow \/ Admit \/ Finish \/ Replace \/ Drain

Spec == Init /\ [][Next]_vars /\ WF_vars(Drain)
=============================================================================

------------------------------ MODULE Payments ------------------------------
(***************************************************************************)
(* What a wallet promises about payments, without a word about screens,    *)
(* files, daemons or nodes: a payment is shown, then confirmed by the      *)
(* person, and only then made, once.  Transfer.tla is shown to implement   *)
(* it.                                                                     *)
(***************************************************************************)
CONSTANT Drafts  \* payments that may be prepared

VARIABLES shown,      \* prepared and shown to the person
          confirmed,  \* the person said yes
          made        \* the network has it

pvars == <<shown, confirmed, made>>

PInit == shown = {} /\ confirmed = {} /\ made = {}

Show == /\ \E d \in Drafts \ shown : shown' = shown \cup {d}
        /\ UNCHANGED <<confirmed, made>>

Confirm == /\ \E d \in shown : confirmed' = confirmed \cup {d}
           /\ UNCHANGED <<shown, made>>

Make == /\ \E d \in confirmed \ made : made' = made \cup {d}
        /\ UNCHANGED <<shown, confirmed>>

PNext == Show \/ Confirm \/ Make

PSpec == PInit /\ [][PNext]_pvars
=============================================================================

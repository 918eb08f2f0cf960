--------------------------- MODULE SigningService ---------------------------
(***************************************************************************)
(* What keypunkd promises its clients, without a word about how: a table   *)
(* of the artifacts each client was shown, a wallet seed, and signatures   *)
(* that are only ever made for an entry of that table with the seed of the *)
(* moment.  keypunkd keeps no such table (it hands an encrypted digest to  *)
(* the client instead): Keypunk.tla is shown to implement this.            *)
(***************************************************************************)
CONSTANTS Clients,    \* peers, one per IPC registration
          Artifacts,  \* unsigned transactions
          Paths,      \* derivation paths
          Seeds,      \* wallet seeds
          None        \* "no wallet", "no signature yet"

VARIABLES approved,   \* what each client was shown since the service started
          wallet,     \* the seed that signs, or None
          signature   \* the last signature handed out, or None

svars == <<approved, wallet, signature>>

Approval == [to : Clients, artifact : Artifacts, path : Paths]

SInit == /\ approved = {}
         /\ wallet = None
         /\ signature = None

\* A client is shown an artifact.
Approve == /\ \E e \in Approval : approved' = approved \cup {e}
           /\ UNCHANGED <<wallet, signature>>

\* The service restarts: nothing shown before counts any more.
Forget == /\ approved' = {}
          /\ UNCHANGED <<wallet, signature>>

\* The wallet is created or replaced.
Replace == /\ wallet' \in Seeds
           /\ UNCHANGED <<approved, signature>>

\* Only something shown to this client may be signed, with the present seed.
Sign == \E e \in approved :
           /\ wallet # None
           /\ signature' = [to |-> e.to, artifact |-> e.artifact,
                            path |-> e.path, seed |-> wallet]
           /\ UNCHANGED <<approved, wallet>>

SNext == Approve \/ Forget \/ Replace \/ Sign

SSpec == SInit /\ [][SNext]_svars
=============================================================================

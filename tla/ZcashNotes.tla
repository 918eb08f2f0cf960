----------------------------- MODULE ZcashNotes -----------------------------
(***************************************************************************)
(* The Zcash wallet database as balances, drafts and history see it: the   *)
(* accounts imported into it, the transactions stored by the wallet before *)
(* they were broadcast, what was scanned, and the file it lives in.        *)
(*                                                                         *)
(* WalletDbActor keeps one connection open and resolves viewing keys with  *)
(* a map in memory, while the history and the status open the path anew.   *)
(* `paypunk reset` deletes the file, with its directory, under it.         *)
(*                                                                         *)
(* Amounts are abstracted to notes: a payment spends some notes of its     *)
(* account and makes one for the recipient and one of change, and a        *)
(* balance is the set of its notes.  zcash_client_sqlite is external: a    *)
(* note is spent for it when a scanned or a stored and unexpired           *)
(* transaction spends it.  Left out: the scanner's interleavings           *)
(* (ZcashSync.tla; here the lowest unscanned block is next), several       *)
(* confirmations, payments to oneself, amounts, memos and fees.            *)
(***************************************************************************)
EXTENDS Naturals, Sequences, SequencesExt

CONSTANTS Accounts,  \* viewing keys, one address each
          World,     \* everybody else
          MaxTx,     \* bound on transactions
          MaxHeight, \* bound on the chain
          Delta      \* blocks until a transaction expires (40)

ASSUME ZcashNotesAssumption == /\ World \notin Accounts
                               /\ {MaxTx, MaxHeight, Delta} \subseteq Nat \ {0}

Heights == 0..MaxHeight
Parties == Accounts \cup {World}
TxIds == 1..MaxTx
Note == TxIds \X {"payment", "change"}
Tx == [from : Parties, to : Parties, inputs : SUBSET Note, expiry : Nat,
       state : {"draft", "stored", "sent", "dropped"}, mined : Heights, kept : BOOLEAN]

VARIABLES txs,    \* all transactions made so far
          tip,    \* height of the chain
          rows,   \* accounts in the connected database, in row order
          seen,   \* height up to which each was scanned
          known,  \* transactions that StoreTransaction put into it
          gone,   \* its file was deleted under the connection
          cache,  \* fvk_to_account_id: a row of the connected database, of a
                  \* former one ("stale"), or no entry
          addrs   \* address_viewing_keys

chain == <<txs, tip>>
database == <<rows, seen, known, gone>>
vars == <<chain, database, cache, addrs>>

Nothing == [a \in Accounts |-> 0]
NoCache == [a \in Accounts |-> "none"]

Init == /\ txs = <<>>
        /\ tip = 0
        /\ rows = <<>>
        /\ seen = Nothing
        /\ known = {}
        /\ gone = FALSE
        /\ cache = NoCache
        /\ addrs = {}

Imported == ToSet(rows)

\* The heights that the wallet has scanned up to, for one account or another.
Reached == {seen[a] : a \in Imported} \cup {0}
Top(h) == h \in Reached /\ \A k \in Reached : k <= h

-----------------------------------------------------------------------------
(* Notes: the chain's truth and the wallet's view of it                    *)

Owner(n) == IF n[2] = "payment" THEN txs[n[1]].to ELSE txs[n[1]].from
Notes(a) == {n \in (1..Len(txs)) \X {"payment", "change"} : Owner(n) = a}
Mined(t) == txs[t].mined # 0
SpentBy(n) == {t \in 1..Len(txs) : n \in txs[t].inputs}
Unspent(a) == {n \in Notes(a) : Mined(n[1]) /\ \A t \in SpentBy(n) : ~Mined(t)}

Scanned(t, a) == a \in Imported /\ txs[t].mined \in 1..seen[a]
Live(t) == t \in known /\ \A h \in Reached : txs[t].expiry > h
SpentForWallet(n) == \E t \in SpentBy(n) : Scanned(t, txs[t].from) \/ Live(t)
Spendable(a) == {n \in Notes(a) : Scanned(n[1], a) /\ ~SpentForWallet(n)}
Pending(a) == {n \in Notes(a) : /\ a \in Imported
                                /\ ~Scanned(n[1], a) /\ Live(n[1])
                                /\ ~SpentForWallet(n)}

\* The account that a viewing key stands for: the map first, then the
\* database.  An entry of a former database names no account of this one.
Resolves(a) == \/ cache[a] = "current"
               \/ cache[a] = "none" /\ a \in Imported

\* GetBalance: spendable and pending, zero for a key it does not find.
Balance(a) == IF a \in addrs /\ Resolves(a) THEN Spendable(a) \cup Pending(a)
                                            ELSE {}

\* A look-up in the database is remembered.
Remembered(a) == IF Resolves(a) THEN [cache EXCEPT ![a] = "current"] ELSE cache

-----------------------------------------------------------------------------
(* The chain, lightwalletd and the scanner                                 *)

\* A block without or with one of the transactions that were broadcast.
MineBlock ==
    /\ tip < MaxHeight
    /\ tip' = tip + 1
    /\ \/ txs' = txs
       \/ \E t \in 1..Len(txs) :
            /\ txs[t].state = "sent" /\ ~Mined(t) /\ txs[t].expiry > tip
            /\ \A n \in txs[t].inputs : n \in Unspent(txs[t].from)
            /\ txs' = [txs EXCEPT ![t].mined = tip + 1]
    /\ UNCHANGED <<database, cache, addrs>>

\* Somebody pays one of the accounts.
Deposit(a) ==
    /\ Len(txs) < MaxTx /\ tip < MaxHeight
    /\ tip' = tip + 1
    /\ txs' = Append(txs, [from |-> World, to |-> a, inputs |-> {},
                           expiry |-> tip + 1, state |-> "sent",
                           mined |-> tip + 1, kept |-> FALSE])
    /\ UNCHANGED <<database, cache, addrs>>

\* The drafts of a deleted database are not brought up any more (a bound).
NoTx == [from |-> World, to |-> World, inputs |-> {}, expiry |-> 0,
         state |-> "dropped", mined |-> 0, kept |-> FALSE]
Dropped == [t \in DOMAIN txs |-> IF txs[t].state = "draft" THEN NoTx
                                 ELSE [txs[t] EXCEPT !.kept = FALSE]]

\* A new database: it has no accounts and transactions.  The map of keys is
\* left as it is.
Anew == [txs |-> Dropped, rows |-> <<>>, seen |-> Nothing, known |-> {},
         cache |-> [a \in Accounts |->
                      IF cache[a] = "none" THEN "none" ELSE "stale"]]

AsItIs == [txs |-> txs, rows |-> rows, seen |-> seen, known |-> known,
           cache |-> cache]

\* What ensure_db_file_exists leaves.
Ensured == IF gone THEN Anew ELSE AsItIs

\* open_wallet_db: any error of the existing file, a lock of another process
\* for one, and it is deleted and made anew.
Opened == {Anew} \cup IF gone THEN {} ELSE {AsItIs}

\* ScanBlocks: one more block, for the account that is furthest behind and
\* those that are where it is.
Scan(a) ==
    /\ ~gone
    /\ a \in Imported /\ \A b \in Imported : seen[a] <= seen[b]
    /\ seen[a] < tip
    /\ seen' = [b \in Accounts |-> IF b \in Imported /\ seen[b] = seen[a]
                                    THEN seen[a] + 1 ELSE seen[b]]
    /\ UNCHANGED <<chain, rows, known, gone, cache, addrs>>

\* ScanBlocks with the file gone: the blocks are put into a new database,
\* which has no account to scan them for.
ScanAnew ==
    /\ gone
    /\ txs' = Ensured.txs /\ rows' = Ensured.rows /\ seen' = Ensured.seen
    /\ known' = Ensured.known /\ cache' = Ensured.cache /\ gone' = FALSE
    /\ UNCHANGED <<tip, addrs>>

-----------------------------------------------------------------------------
(* Accounts: sync_account of the protocol, RegisterAccount of the actor    *)

\* Mutant: an entry of the map is never replaced.
RegisterKeepsEntry(a) ==
    LET e == Ensured IN
    /\ addrs' = addrs \cup {a}
    /\ txs' = e.txs /\ known' = e.known
    /\ IF a \in ToSet(e.rows)
       THEN rows' = e.rows /\ seen' = Nothing
       ELSE rows' = Append(e.rows, a) /\ seen' = [e.seen EXCEPT ![a] = 0]
    /\ cache' = IF e.cache[a] = "none" THEN [e.cache EXCEPT ![a] = "current"]
                                       ELSE e.cache
    /\ gone' = FALSE
    /\ UNCHANGED tip

\* Mutant: nothing tells that the account is already there.
RegisterTwice(a) ==
    LET e == Ensured IN
    /\ addrs' = addrs \cup {a}
    /\ txs' = e.txs /\ known' = e.known
    /\ rows' = Append(e.rows, a) /\ seen' = [e.seen EXCEPT ![a] = 0]
    /\ cache' = [e.cache EXCEPT ![a] = "current"]
    /\ gone' = FALSE
    /\ UNCHANGED tip

\* A new account is imported; for one that is already there the database is
\* truncated to the birthday, for all accounts.
Register(a) ==
    LET e == Ensured IN
    /\ addrs' = addrs \cup {a}
    /\ txs' = e.txs /\ known' = e.known
    /\ IF a \in ToSet(e.rows)
       THEN rows' = e.rows /\ seen' = Nothing
       ELSE rows' = Append(e.rows, a) /\ seen' = [e.seen EXCEPT ![a] = 0]
    /\ cache' = [e.cache EXCEPT ![a] = "current"]
    /\ gone' = FALSE
    /\ UNCHANGED tip

\* lightwalletd does not answer: only the address is noted, and the
\* database made anew if it has to be.
RegisterFails(a) ==
    /\ addrs' = addrs \cup {a}
    /\ txs' = Ensured.txs /\ rows' = Ensured.rows /\ seen' = Ensured.seen
    /\ known' = Ensured.known /\ cache' = Ensured.cache /\ gone' = FALSE
    /\ UNCHANGED tip

-----------------------------------------------------------------------------
(* Payments                                                                *)

\* ProposeAndBuild for a known account; the notes are not reserved.
Drafted(a, to) ==
    /\ Len(txs) < MaxTx
    /\ Spendable(a) # {}
    /\ \E s \in (SUBSET Spendable(a)) \ {{}}, h \in Reached :
         /\ Top(h)
         /\ txs' = Append(txs, [from |-> a, to |-> to, inputs |-> s,
                                expiry |-> h + Delta, state |-> "draft",
                                mined |-> 0, kept |-> FALSE])
    /\ UNCHANGED <<tip, database, addrs>>

\* `build`: the address of the intent names the account.
Build(a, to) == /\ a \in addrs /\ Resolves(a)
                /\ Drafted(a, to)
                /\ cache' = Remembered(a)

\* `create_transfer` brings no key: any account that has enough.
CreateTransfer(a, to) == a \in Imported /\ Drafted(a, to) /\ UNCHANGED cache

\* Mutant: the transaction is broadcast without being stored.
StoreUnrecorded(t) ==
    /\ t \in 1..Len(txs) /\ txs[t].state = "draft"
    /\ txs' = [txs EXCEPT ![t].state = "stored", ![t].kept = ~gone]
    /\ UNCHANGED <<tip, database, cache, addrs>>

\* store_and_finalize, of a draft that was signed: its inputs are spent from
\* now on.  kept notes that the record is in the file on disk.
Store(t) ==
    /\ t \in 1..Len(txs) /\ txs[t].state = "draft"
    /\ txs' = [txs EXCEPT ![t].state = "stored", ![t].kept = ~gone]
    /\ known' = known \cup {t}
    /\ UNCHANGED <<tip, rows, seen, gone, cache, addrs>>

\* lightwalletd takes it, whether or not its answer comes back, unless it has
\* expired.  When it never does, the transaction stays stored.
Broadcast(t) ==
    /\ t \in 1..Len(txs) /\ txs[t].state = "stored" /\ txs[t].expiry > tip
    /\ txs' = [txs EXCEPT ![t].state = "sent"]
    /\ UNCHANGED <<tip, database, cache, addrs>>

-----------------------------------------------------------------------------
(* Queries                                                                 *)

\* GetBalance may add to the map of keys.
GetBalance(a) ==
    /\ a \in addrs
    /\ cache' = Remembered(a)
    /\ UNCHANGED <<chain, database, addrs>>

Listed(t, a) == \/ t \in known /\ (txs[t].from = a \/ txs[t].to = a)
                \/ \E n \in Notes(a) : n[1] = t /\ Scanned(t, a)

\* Mutant: what was received is looked at first.
DirectionReceived(t, a) == IF \E n \in Notes(a) : n[1] = t THEN "incoming"
                           ELSE "outgoing"

\* Only a stored transaction has rows in sent_notes; scanned alone, it is
\* the note of change that it brought.
Direction(t, a) ==
    IF t \in known /\ txs[t].from = a THEN "outgoing" ELSE "incoming"

Status(t) == IF \E a \in Imported : Scanned(t, a) /\ a \in {txs[t].from, txs[t].to}
             THEN "confirmed" ELSE "pending"

\* GetHistory: of the account in the given row.
History(i) ==
    IF ~gone /\ i \in DOMAIN rows
    THEN {[tx |-> t, direction |-> Direction(t, rows[i]), status |-> Status(t)] :
            t \in {u \in 1..Len(txs) : Listed(u, rows[i])}}
    ELSE {}

-----------------------------------------------------------------------------
(* Faults                                                                  *)

\* paypunkd is started again, on the file that is there or a new one.
Restart ==
    /\ cache' = NoCache
    /\ addrs' = {}
    /\ gone' = FALSE
    /\ \E d \in Opened : txs' = d.txs /\ rows' = d.rows /\ seen' = d.seen
                         /\ known' = d.known
    /\ UNCHANGED tip

\* `paypunk reset` removes the directory.
Reset ==
    /\ ~gone
    /\ gone' = TRUE
    /\ txs' = [t \in DOMAIN txs |-> [txs[t] EXCEPT !.kept = FALSE]]
    /\ UNCHANGED <<tip, rows, seen, known, cache, addrs>>

Next ==
    \/ MineBlock
    \/ \E a \in Accounts : Deposit(a)
    \/ \E a \in Accounts : Scan(a)
    \/ ScanAnew
    \/ \E a \in Accounts : Register(a)
    \/ \E a \in Accounts : RegisterFails(a)
    \/ \E a \in Accounts : \E to \in Parties \ {a} : Build(a, to)
    \/ \E a \in Accounts : \E to \in Parties \ {a} : CreateTransfer(a, to)
    \/ \E t \in TxIds : Store(t)
    \/ \E t \in TxIds : Broadcast(t)
    \/ \E a \in Accounts : GetBalance(a)
    \/ Restart
    \/ Reset

Spec == Init /\ [][Next]_vars

-----------------------------------------------------------------------------
(* Properties                                                              *)

\* Every variable stays in its set; no account is imported twice.
TypeOK ==
    /\ txs \in Seq(Tx) /\ Len(txs) <= MaxTx
    /\ tip \in Heights
    /\ rows \in Seq(Accounts) /\ IsInjective(rows)
    /\ seen \in [Accounts -> 0..tip]
    /\ known \in SUBSET (1..Len(txs))
    /\ gone \in BOOLEAN
    /\ cache \in [Accounts -> {"none", "current", "stale"}]
    /\ addrs \in SUBSET Accounts

\* Once everything is scanned, the balance asked for with an account's key is
\* the account's: what it counts as spendable is unspent on the chain, and
\* what is unspent on the chain is counted, except for what a transaction
\* that was stored and can still be mined spends.  So the inputs of a
\* broadcast that failed come back when it expires, and a key resolves to the
\* right row whichever databases there were before.
BalanceIsTrue ==
    (\A a \in Imported : seen[a] = tip) =>
    \A a \in Imported \cap addrs :
        /\ \A n \in Balance(a) : Mined(n[1]) => n \in Unspent(a)
        /\ \A n \in Unspent(a) :
             \/ n \in Balance(a)
             \/ \E t \in SpentBy(n) : t \in known /\ txs[t].expiry > tip

\* A payment is never drafted from notes of an earlier one that was approved
\* and recorded on disk and is mined or can still be mined, whatever restarts,
\* truncations and rescans came in between, and however far the scan lags.
NoSelfDoubleSpend ==
    [][\A t \in 1..Len(txs) :
         /\ txs[t].kept
         /\ Mined(t) \/ txs[t].expiry > tip
         /\ Len(txs') > Len(txs)
         => txs[t].inputs \cap Last(txs').inputs = {}]_vars

\* Balance and history agree: every note of an account's balance is of a
\* transaction in the history of its row, what the account paid to others is
\* never shown as received, and what is shown as confirmed is on the chain.
HistoryExplainsBalance ==
    ~gone =>
    \A i \in DOMAIN rows :
        /\ \A n \in Balance(rows[i]) : \E e \in History(i) : e.tx = n[1]
        /\ \A e \in History(i) :
             /\ e.status = "confirmed" => Mined(e.tx)
             /\ /\ txs[e.tx].kept
                /\ txs[e.tx].from = rows[i] /\ txs[e.tx].to # rows[i]
                => e.direction = "outgoing"
=============================================================================

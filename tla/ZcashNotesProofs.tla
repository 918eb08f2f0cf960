--------------------------- MODULE ZcashNotesProofs ---------------------------
(* Proofs about ZcashNotes for every number of accounts, transactions and  *)
(* blocks.                                                                 *)
EXTENDS ZcashNotes, SequenceTheorems, TLAPS

\* A transaction that is mined was broadcast, at a height that the chain has
\* and before it expired.
Chained(t) ==
    txs[t].mined # 0 => /\ txs[t].mined <= tip /\ txs[t].mined <= txs[t].expiry
                        /\ txs[t].state = "sent"

\* What it spends is on the chain and belongs to the account that pays.
Spends(t) ==
    \A n \in txs[t].inputs : /\ n[1] \in 1..Len(txs) /\ Mined(n[1])
                             /\ Owner(n) = txs[t].from
                             /\ txs[t].from \in Accounts

\* A draft, or a record on disk, is of the database that is connected: of an
\* account in it, and no account that is ahead of its own has been scanned up
\* to where it expires.
OfThis(t) ==
    /\ txs[t].from \in Imported
    /\ txs[t].expiry > 0
    /\ \A a \in Imported :
         seen[a] > seen[txs[t].from] => txs[t].expiry > seen[a]

Recorded(t) == /\ txs[t].kept => t \in known /\ ~gone
               /\ txs[t].kept \/ txs[t].state = "draft" => OfThis(t)

\* An account in the database has no entry of a former one.
Current == \A a \in Imported : cache[a] # "stale"

\* The inductive invariant.
NotesInv == /\ TypeOK
            /\ \A t \in 1..Len(txs) : Chained(t) /\ Spends(t) /\ Recorded(t)
            /\ Current

Txn == 1..Len(txs)

\* What the types give.
LEMMA Shape ==
  ASSUME TypeOK
  PROVE  /\ Len(txs) \in Nat /\ tip \in Nat /\ MaxTx \in Nat /\ MaxHeight \in Nat
         /\ Delta \in Nat /\ Delta > 0
         /\ \A t \in Txn :
              /\ txs[t] \in Tx
              /\ txs[t].mined \in Nat /\ txs[t].expiry \in Nat
              /\ txs[t].kept \in BOOLEAN
         /\ \A a \in Accounts : seen[a] \in Nat /\ seen[a] <= tip
<1>1. /\ MaxTx \in Nat /\ MaxHeight \in Nat /\ Delta \in Nat /\ Delta > 0
      /\ Len(txs) \in Nat /\ tip \in Nat
  BY ZcashNotesAssumption DEF TypeOK, Heights
<1>2. \A t \in Txn : txs[t] \in Tx
  BY DEF TypeOK, Txn
<1>3. \A t \in Txn : /\ txs[t].mined \in Nat /\ txs[t].expiry \in Nat
                     /\ txs[t].kept \in BOOLEAN
  BY <1>1, <1>2 DEF Tx, Heights
<1>4. \A a \in Accounts : seen[a] \in Nat /\ seen[a] <= tip
  BY <1>1 DEF TypeOK
<1> QED
  BY <1>1, <1>2, <1>3, <1>4

LEMMA InDatabase ==
  ASSUME TypeOK
  PROVE  Imported \subseteq Accounts
BY DEF TypeOK, Imported, ToSet

\* One more row.
LEMMA OneMoreRow ==
  ASSUME NEW r \in Seq(Accounts), IsInjective(r),
         NEW a \in Accounts, a \notin ToSet(r)
  PROVE  /\ Append(r, a) \in Seq(Accounts) /\ IsInjective(Append(r, a))
         /\ ToSet(Append(r, a)) = ToSet(r) \cup {a}
<1> DEFINE q == Append(r, a)
<1>1. /\ q \in Seq(Accounts) /\ Len(q) = Len(r) + 1 /\ Len(r) \in Nat
      /\ DOMAIN q = 1..(Len(r) + 1) /\ DOMAIN r = 1..Len(r)
      /\ \A n \in 1..Len(r) : q[n] = r[n]
      /\ q[Len(r) + 1] = a
  BY AppendProperties
<1> HIDE DEF q
<1>2. \A n \in DOMAIN q : \/ n \in DOMAIN r /\ q[n] = r[n]
                          \/ n = Len(r) + 1 /\ q[n] = a
  BY <1>1
<1>3. \A n \in DOMAIN r : r[n] # a
  BY DEF ToSet
<1>4. IsInjective(q)
  BY <1>2, <1>3 DEF IsInjective
<1>5. ToSet(q) = ToSet(r) \cup {a}
  <2>1. ToSet(q) \subseteq ToSet(r) \cup {a}
    BY <1>2 DEF ToSet
  <2>2. ToSet(r) \cup {a} \subseteq ToSet(q)
    <3>1. \A n \in DOMAIN r : n \in DOMAIN q /\ q[n] = r[n]
      BY <1>1
    <3>2. Len(r) + 1 \in DOMAIN q
      BY <1>1
    <3> QED
      BY <1>1, <3>1, <3>2 DEF ToSet
  <2> QED
    BY <2>1, <2>2
<1> QED
  BY <1>1, <1>4, <1>5 DEF q

\* What a transaction spends stays what it is when the transactions that are
\* mined keep their parties.
LEMMA SpendsKept ==
  ASSUME NotesInv, Len(txs') \in Nat, Len(txs) <= Len(txs'),
         \A u \in Txn : Mined(u) => /\ txs'[u].mined # 0
                                    /\ txs'[u].from = txs[u].from
                                    /\ txs'[u].to = txs[u].to,
         NEW t \in Txn,
         txs'[t].inputs = {} \/ (/\ txs'[t].inputs = txs[t].inputs
                                 /\ txs'[t].from = txs[t].from)
  PROVE  Spends(t)'
<1> SUFFICES ASSUME NEW n \in txs'[t].inputs
             PROVE  /\ n[1] \in 1..Len(txs') /\ txs'[n[1]].mined # 0
                    /\ (IF n[2] = "payment" THEN txs'[n[1]].to
                                            ELSE txs'[n[1]].from) = txs'[t].from
                    /\ txs'[t].from \in Accounts
  BY DEF Spends, Mined, Owner
<1>1. txs'[t].inputs = txs[t].inputs /\ txs'[t].from = txs[t].from
  OBVIOUS
<1>2. /\ n[1] \in Txn /\ Mined(n[1]) /\ Owner(n) = txs[t].from
      /\ txs[t].from \in Accounts
  BY <1>1 DEF NotesInv, Spends, Txn
<1>3. Len(txs) \in Nat
  BY Shape DEF NotesInv
<1> QED
  BY <1>1, <1>2, <1>3 DEF Owner, Txn

\* A record stays one of this database.
LEMMA RecordedKept ==
  ASSUME NotesInv, UNCHANGED <<rows, seen>>, known \subseteq known',
         gone' = gone, NEW t \in Txn,
         txs'[t].from = txs[t].from, txs'[t].expiry = txs[t].expiry,
         txs'[t].kept = txs[t].kept,
         txs'[t].state = "draft" => txs[t].state = "draft"
  PROVE  Recorded(t)'
<1>1. Recorded(t)
  BY DEF NotesInv, Txn
<1>2. Imported' = Imported
  BY DEF Imported
<1> QED
  BY <1>1, <1>2 DEF Recorded, OfThis

\* A step that leaves the transactions alone.
LEMMA TxsSame ==
  ASSUME NotesInv, txs' = txs, tip' = tip
  PROVE  \A t \in 1..Len(txs') : Chained(t)' /\ Spends(t)'
BY DEF NotesInv, Chained, Spends, Mined, Owner

\* Nothing is left of a former database but what the network has.
LEMMA DroppedTxs ==
  ASSUME NotesInv
  PROVE  /\ Dropped \in Seq(Tx) /\ Len(Dropped) = Len(txs)
         /\ \A t \in Txn :
              /\ ~Dropped[t].kept /\ Dropped[t].state # "draft"
              /\ txs[t].state = "draft" => Dropped[t].inputs = {} /\ Dropped[t].mined = 0
              /\ txs[t].state # "draft" =>
                   /\ Dropped[t].from = txs[t].from /\ Dropped[t].to = txs[t].to
                   /\ Dropped[t].inputs = txs[t].inputs
                   /\ Dropped[t].mined = txs[t].mined
                   /\ Dropped[t].expiry = txs[t].expiry
                   /\ Dropped[t].state = txs[t].state
<1>1. /\ Len(txs) \in Nat /\ DOMAIN txs = Txn
      /\ \A t \in Txn : txs[t] \in Tx
  BY Shape, LenProperties DEF NotesInv, TypeOK, Txn
<1>2. 0 \in Heights /\ 0 \in Nat
  BY ZcashNotesAssumption DEF Heights
<1>3. /\ NoTx \in Tx /\ NoTx.inputs = {} /\ NoTx.mined = 0 /\ NoTx.kept = FALSE
      /\ NoTx.state = "dropped"
  BY <1>2 DEF NoTx, Tx, Parties
<1>4. ASSUME NEW t \in Txn, txs[t].state # "draft"
      PROVE  LET x == [txs[t] EXCEPT !.kept = FALSE] IN
             /\ x \in Tx /\ x.kept = FALSE /\ x.state = txs[t].state
             /\ x.from = txs[t].from /\ x.to = txs[t].to
             /\ x.inputs = txs[t].inputs /\ x.mined = txs[t].mined
             /\ x.expiry = txs[t].expiry
  BY <1>1 DEF Tx
<1>5. \A t \in Txn : Dropped[t] = IF txs[t].state = "draft" THEN NoTx
                                  ELSE [txs[t] EXCEPT !.kept = FALSE]
  BY <1>1 DEF Dropped
<1>6. \A t \in Txn : Dropped[t] \in Tx
  BY <1>3, <1>4, <1>5
<1>7. Dropped \in [1..Len(txs) -> Tx]
  BY <1>1, <1>6 DEF Dropped, Txn
<1>8. Dropped \in Seq(Tx) /\ Len(Dropped) = Len(txs)
  BY <1>1, <1>7, SeqDef
<1> QED
  BY <1>3, <1>4, <1>5, <1>8

\* A step that makes the database anew.
LEMMA DroppedStep ==
  ASSUME NotesInv, txs' = Dropped, tip' = tip
  PROVE  \A t \in 1..Len(txs') : Chained(t)' /\ Spends(t)' /\ Recorded(t)'
<1> SUFFICES ASSUME NEW t \in 1..Len(txs')
             PROVE  Chained(t)' /\ Spends(t)' /\ Recorded(t)'
  OBVIOUS
<1>1. Len(txs') = Len(txs) /\ Len(txs) \in Nat /\ t \in Txn
  BY DroppedTxs, Shape DEF NotesInv, Txn
<1>2. \A u \in Txn : Mined(u) => txs[u].state = "sent"
  BY DEF NotesInv, Chained, Mined, Txn
<1>3. Recorded(t)'
  BY <1>1, DroppedTxs DEF Recorded
<1>4. Chained(t)'
  <2>1. Chained(t)
    BY <1>1 DEF NotesInv, Txn
  <2> QED
    BY <1>1, <2>1, DroppedTxs DEF Chained
<1>5. \A u \in Txn : Mined(u) => /\ txs'[u].mined # 0
                                 /\ txs'[u].from = txs[u].from
                                 /\ txs'[u].to = txs[u].to
  BY <1>2, DroppedTxs DEF Mined
<1>6. Spends(t)'
  BY <1>1, <1>5, DroppedTxs, SpendsKept
<1> QED
  BY <1>3, <1>4, <1>6

-----------------------------------------------------------------------------
(* The chain                                                               *)

LEMMA OneTx ==
  ASSUME TypeOK, NEW t \in Txn, NEW r \in Tx
  PROVE  LET q == [txs EXCEPT ![t] = r] IN
         /\ q \in Seq(Tx) /\ Len(q) = Len(txs)
         /\ \A u \in Txn : q[u] = IF u = t THEN r ELSE txs[u]
<1>1. txs \in Seq(Tx) /\ t \in 1..Len(txs)
  BY DEF TypeOK, Txn
<1> QED
  BY <1>1, ExceptSeq DEF Txn

LEMMA OneMoreTx ==
  ASSUME TypeOK, NEW r \in Tx
  PROVE  LET q == Append(txs, r) IN
         /\ q \in Seq(Tx) /\ Len(q) = Len(txs) + 1
         /\ \A u \in Txn : q[u] = txs[u]
         /\ q[Len(txs) + 1] = r
BY AppendProperties DEF TypeOK, Txn

\* The chain grows under a wallet that does not see it.
LEMMA ChainGrows ==
  ASSUME NotesInv, tip' = tip + 1, tip < MaxHeight,
         UNCHANGED <<database, cache, addrs>>, Len(txs) <= Len(txs'),
         txs' \in Seq(Tx), Len(txs') <= MaxTx,
         \A t \in 1..Len(txs') : Chained(t)' /\ Spends(t)' /\ Recorded(t)'
  PROVE  NotesInv'
<1>1. TypeOK /\ Current /\ Len(txs) \in Nat /\ tip \in Nat /\ MaxHeight \in Nat
  BY Shape DEF NotesInv
<1>2. Len(txs') \in Nat
  OBVIOUS
<1>3. 0..tip \subseteq 0..tip' /\ tip' \in Heights
  BY <1>1 DEF Heights
<1>4. seen' \in [Accounts -> 0..tip']
  BY <1>1, <1>3 DEF TypeOK, database
<1>5. 1..Len(txs) \subseteq 1..Len(txs')
  BY <1>1, <1>2
<1>6. TypeOK'
  BY <1>1, <1>3, <1>4, <1>5 DEF TypeOK, database
<1> QED
  BY <1>1, <1>6 DEF NotesInv, Current, Imported, database

LEMMA MineBlockStep ==
  ASSUME NotesInv, MineBlock
  PROVE  NotesInv'
<1>1. /\ TypeOK /\ Len(txs) \in Nat /\ tip \in Nat /\ MaxHeight \in Nat
      /\ tip < MaxHeight /\ tip' = tip + 1
      /\ UNCHANGED <<database, cache, addrs>>
      /\ txs \in Seq(Tx) /\ Len(txs) <= MaxTx
  BY Shape DEF NotesInv, MineBlock, TypeOK
<1>2. CASE txs' = txs
  <2>1. \A t \in 1..Len(txs') : Spends(t)'
    BY <1>2 DEF NotesInv, Spends, Mined, Owner
  <2>2. \A t \in 1..Len(txs') : Chained(t)'
    BY <1>1, <1>2, Shape DEF NotesInv, Chained, Txn
  <2>3. \A t \in 1..Len(txs') : Recorded(t)'
    BY <1>1, <1>2, RecordedKept DEF Txn, database
  <2> QED
    BY <1>1, <1>2, <2>1, <2>2, <2>3, ChainGrows
<1>3. ASSUME NEW m \in 1..Len(txs),
             txs[m].state = "sent", ~Mined(m), txs[m].expiry > tip,
             txs' = [txs EXCEPT ![m].mined = tip + 1]
      PROVE  NotesInv'
  <2> DEFINE r == [txs[m] EXCEPT !.mined = tip + 1]
  <2>1. m \in Txn /\ txs[m] \in Tx /\ tip + 1 \in Heights
    BY <1>1, Shape DEF Txn, Heights
  <2>2. /\ r \in Tx /\ r.mined = tip + 1 /\ r.from = txs[m].from
        /\ r.to = txs[m].to /\ r.inputs = txs[m].inputs
        /\ r.expiry = txs[m].expiry /\ r.state = txs[m].state
        /\ r.kept = txs[m].kept
    BY <2>1 DEF Tx
  <2>3. txs' = [txs EXCEPT ![m] = r]
    BY <1>3
  <2> HIDE DEF r
  <2>4. /\ txs' \in Seq(Tx) /\ Len(txs') = Len(txs)
        /\ \A u \in Txn : txs'[u] = IF u = m THEN r ELSE txs[u]
    BY <1>1, <2>1, <2>2, <2>3, OneTx
  <2>5. \A u \in Txn : /\ txs'[u].from = txs[u].from /\ txs'[u].to = txs[u].to
                       /\ txs'[u].inputs = txs[u].inputs
                       /\ txs'[u].expiry = txs[u].expiry
                       /\ txs'[u].state = txs[u].state
                       /\ txs'[u].kept = txs[u].kept
                       /\ txs'[u].mined = IF u = m THEN tip + 1 ELSE txs[u].mined
    BY <2>2, <2>4
  <2>6. ASSUME NEW t \in Txn PROVE Chained(t)' /\ Spends(t)' /\ Recorded(t)'
    <3>1. Recorded(t)'
      BY <1>1, <2>5, RecordedKept DEF database
    <3>2. Spends(t)'
      BY <1>1, <2>4, <2>5, SpendsKept DEF Mined
    <3>3. Chained(t)
      BY DEF NotesInv, Txn
    <3>4. txs[t].mined \in Nat /\ txs[t].expiry \in Nat
      BY <1>1, Shape
    <3>5. Chained(t)'
      BY <1>1, <1>3, <2>5, <3>3, <3>4 DEF Chained
    <3> QED
      BY <3>1, <3>2, <3>5
  <2> QED
    BY <1>1, <2>4, <2>6, ChainGrows DEF Txn
<1> QED
  BY <1>2, <1>3 DEF MineBlock

LEMMA DepositStep ==
  ASSUME NotesInv, NEW a \in Accounts, Deposit(a)
  PROVE  NotesInv'
<1> DEFINE r == [from |-> World, to |-> a, inputs |-> {}, expiry |-> tip + 1,
                 state |-> "sent", mined |-> tip + 1, kept |-> FALSE]
<1>1. /\ TypeOK /\ Len(txs) \in Nat /\ tip \in Nat /\ MaxHeight \in Nat
      /\ MaxTx \in Nat
      /\ Len(txs) < MaxTx /\ tip < MaxHeight /\ tip' = tip + 1
      /\ UNCHANGED <<database, cache, addrs>> /\ txs' = Append(txs, r)
  BY Shape DEF NotesInv, Deposit
<1>2. r \in Tx
  BY <1>1 DEF Tx, Parties, Heights
<1>3. /\ r.inputs = {} /\ r.mined = tip + 1 /\ r.expiry = tip + 1
      /\ r.state = "sent" /\ r.kept = FALSE
  OBVIOUS
<1> HIDE DEF r
<1>4. /\ txs' \in Seq(Tx) /\ Len(txs') = Len(txs) + 1
      /\ \A u \in Txn : txs'[u] = txs[u]
      /\ txs'[Len(txs) + 1] = r
  BY <1>1, <1>2, OneMoreTx
<1>5. ASSUME NEW t \in 1..Len(txs')
      PROVE  Chained(t)' /\ Spends(t)' /\ Recorded(t)'
  <2>1. CASE t \in Txn
    <3>1. Recorded(t)'
      BY <1>1, <1>4, <2>1, RecordedKept DEF database
    <3>2. Spends(t)'
      <4>1. Len(txs') \in Nat /\ Len(txs) <= Len(txs')
        BY <1>1, <1>4
      <4> QED
        BY <1>4, <2>1, <4>1, SpendsKept DEF Mined
    <3>3. Chained(t) /\ txs[t].mined \in Nat
      BY <1>1, <2>1, Shape DEF NotesInv, Txn
    <3>4. Chained(t)'
      BY <1>1, <1>4, <2>1, <3>3 DEF Chained
    <3> QED
      BY <3>1, <3>2, <3>4
  <2>2. CASE t = Len(txs) + 1
    BY <1>1, <1>3, <1>4, <2>2 DEF Chained, Spends, Recorded
  <2>3. t \in Txn \/ t = Len(txs) + 1
    BY <1>1, <1>4 DEF Txn
  <2> QED
    BY <2>1, <2>2, <2>3
<1> QED
  BY <1>1, <1>4, <1>5, ChainGrows

-----------------------------------------------------------------------------
(* Scanning and accounts                                                   *)

\* A step of the database that is connected: rows and heights change, the
\* transactions do not.
LEMMA RowsStep ==
  ASSUME NotesInv, UNCHANGED <<txs, tip, known>>, ~gone, ~gone', gone' \in BOOLEAN,
         rows' \in Seq(Accounts), IsInjective(rows'),
         seen' \in [Accounts -> 0..tip],
         cache' \in [Accounts -> {"none", "current", "stale"}],
         addrs' \in SUBSET Accounts, Current',
         \A t \in Txn : OfThis(t) => OfThis(t)'
  PROVE  NotesInv'
<1>1. TypeOK'
  <2>1. TypeOK
    BY DEF NotesInv
  <2>2. /\ txs' \in Seq(Tx) /\ Len(txs') <= MaxTx /\ tip' \in Heights
        /\ known' \in SUBSET (1..Len(txs'))
    BY <2>1 DEF TypeOK
  <2>3. seen' \in [Accounts -> 0..tip'] /\ gone' \in BOOLEAN
    OBVIOUS
  <2> QED
    BY <2>2, <2>3 DEF TypeOK
<1>2. \A t \in 1..Len(txs') : Recorded(t)'
  BY DEF NotesInv, Recorded, Txn
<1> QED
  BY <1>1, <1>2, TxsSame DEF NotesInv

LEMMA ScanStep ==
  ASSUME NotesInv, NEW a \in Accounts, Scan(a)
  PROVE  NotesInv'
<1> DEFINE h == seen[a] + 1
<1>1. /\ TypeOK /\ Imported \subseteq Accounts
      /\ \A b \in Accounts : seen[b] \in Nat /\ seen[b] <= tip
      /\ tip \in Nat /\ h \in Nat /\ h <= tip
  BY Shape, InDatabase DEF NotesInv, Scan
<1>2. /\ ~gone /\ a \in Imported /\ \A b \in Imported : seen[a] <= seen[b]
      /\ seen' = [b \in Accounts |-> IF b \in Imported /\ seen[b] = seen[a]
                                     THEN h ELSE seen[b]]
      /\ UNCHANGED <<txs, tip, rows, known, gone, cache, addrs>>
  BY DEF Scan, chain
<1> HIDE DEF h
<1>3. \A b \in Imported : seen'[b] = IF seen[b] = seen[a] THEN h ELSE seen[b]
  BY <1>1, <1>2
<1>4. seen' \in [Accounts -> 0..tip]
  BY <1>1, <1>2
<1>5. Imported' = Imported
  BY <1>2 DEF Imported
<1>6. ASSUME NEW t \in Txn, OfThis(t) PROVE OfThis(t)'
  <2>1. txs[t].from \in Imported
    BY <1>6 DEF OfThis
  <2>2. ASSUME NEW b \in Imported, seen'[b] > seen'[txs[t].from]
        PROVE  txs[t].expiry > seen'[b]
    <3> DEFINE f == txs[t].from
    <3>1. /\ seen[a] <= seen[b] /\ seen[a] <= seen[f]
          /\ seen[a] \in Nat /\ seen[b] \in Nat /\ seen[f] \in Nat
      BY <1>1, <1>2, <2>1
    <3>2. seen'[b] = seen[b] /\ seen[b] > seen[f]
      BY <1>3, <2>1, <2>2, <3>1 DEF h
    <3> QED
      BY <1>6, <3>2 DEF OfThis
  <2> QED
    BY <1>2, <1>5, <1>6, <2>2 DEF OfThis
<1> QED
  BY <1>1, <1>2, <1>4, <1>5, <1>6, RowsStep DEF NotesInv, TypeOK, Current

\* The database is made anew, with the rows that the step imports.
LEMMA AnewStep ==
  ASSUME NotesInv, txs' = Dropped, tip' = tip, known' = {}, gone' = FALSE,
         rows' \in Seq(Accounts), IsInjective(rows'),
         seen' \in [Accounts -> 0..tip],
         cache' \in [Accounts -> {"none", "current", "stale"}],
         addrs' \in SUBSET Accounts, Current'
  PROVE  NotesInv'
<1>1. TypeOK'
  BY DroppedTxs DEF NotesInv, TypeOK
<1> QED
  BY <1>1, DroppedStep DEF NotesInv

LEMMA NewDatabase ==
  ASSUME TypeOK
  PROVE  /\ Anew.txs = Dropped /\ Anew.known = {}
         /\ Anew.rows = <<>> /\ Anew.seen = Nothing
         /\ Anew.cache \in [Accounts -> {"none", "current", "stale"}]
         /\ Nothing \in [Accounts -> 0..tip]
         /\ <<>> \in Seq(Accounts) /\ IsInjective(<<>>) /\ ToSet(<<>>) = {}
<1>1. Nothing \in [Accounts -> 0..tip]
  BY Shape DEF Nothing
<1>2. Anew.cache \in [Accounts -> {"none", "current", "stale"}]
  BY DEF Anew
<1>3. /\ Anew.txs = Dropped /\ Anew.known = {}
      /\ Anew.rows = <<>> /\ Anew.seen = Nothing
  BY DEF Anew
<1>4. <<>> \in Seq(Accounts) /\ IsInjective(<<>>) /\ ToSet(<<>>) = {}
  BY DEF IsInjective, ToSet
<1> QED
  BY <1>1, <1>2, <1>3, <1>4

LEMMA ScanAnewStep ==
  ASSUME NotesInv, ScanAnew
  PROVE  NotesInv'
<1>1. TypeOK /\ Ensured = Anew
  BY DEF NotesInv, ScanAnew, Ensured
<1>2. /\ txs' = Dropped /\ rows' = <<>> /\ seen' = Nothing /\ known' = {}
      /\ cache' = Anew.cache /\ gone' = FALSE /\ tip' = tip /\ addrs' = addrs
  BY <1>1, NewDatabase DEF ScanAnew
<1>3. rows' \in Seq(Accounts) /\ IsInjective(rows') /\ ToSet(rows') = {}
  BY <1>1, <1>2, NewDatabase
<1>4. Current'
  BY <1>3 DEF Current, Imported
<1>5. /\ seen' \in [Accounts -> 0..tip] /\ addrs' \in SUBSET Accounts
      /\ cache' \in [Accounts -> {"none", "current", "stale"}]
  BY <1>1, <1>2, NewDatabase DEF TypeOK
<1> QED
  BY <1>2, <1>3, <1>4, <1>5, AnewStep

\* The address is noted; the account is imported into a new database, into
\* the one that is there, or everything is scanned again.
LEMMA RegisterStep ==
  ASSUME NotesInv, NEW a \in Accounts, Register(a)
  PROVE  NotesInv'
<1>1. /\ TypeOK /\ tip \in Nat
      /\ \A b \in Accounts : seen[b] \in Nat /\ seen[b] <= tip
  BY Shape DEF NotesInv
<1>2. tip' = tip /\ gone' = FALSE /\ addrs' \in SUBSET Accounts
  BY <1>1 DEF Register, TypeOK
<1>3. CASE gone
  <2>1. /\ Ensured = Anew /\ a \notin ToSet(<<>>)
    BY <1>1, <1>3, NewDatabase DEF Ensured
  <2>2. /\ txs' = Dropped /\ known' = {} /\ rows' = Append(<<>>, a)
        /\ seen' = [Nothing EXCEPT ![a] = 0]
        /\ cache' = [Anew.cache EXCEPT ![a] = "current"]
    BY <1>1, <2>1, NewDatabase DEF Register
  <2>3. /\ rows' \in Seq(Accounts) /\ IsInjective(rows')
        /\ ToSet(rows') = {} \cup {a}
    BY <1>1, <2>1, <2>2, NewDatabase, OneMoreRow
  <2>4. /\ seen' \in [Accounts -> 0..tip]
        /\ cache' \in [Accounts -> {"none", "current", "stale"}]
        /\ cache'[a] = "current"
    BY <1>1, <2>2, NewDatabase
  <2>5. Current'
    BY <2>3, <2>4 DEF Current, Imported
  <2> QED
    BY <1>2, <2>2, <2>3, <2>4, <2>5, AnewStep
<1>4. CASE ~gone
  <2>1. /\ Ensured = AsItIs /\ AsItIs.txs = txs /\ AsItIs.known = known
        /\ AsItIs.rows = rows /\ AsItIs.seen = seen /\ AsItIs.cache = cache
    BY <1>4 DEF Ensured, AsItIs
  <2>2. /\ txs' = txs /\ known' = known
        /\ cache' = [cache EXCEPT ![a] = "current"]
    BY <2>1 DEF Register
  <2>3. /\ cache' \in [Accounts -> {"none", "current", "stale"}]
        /\ \A b \in Accounts : cache'[b] = IF b = a THEN "current" ELSE cache[b]
    BY <1>1, <2>2 DEF TypeOK
  <2>4. CASE a \in Imported
    <3>1. rows' = rows /\ seen' = Nothing
      BY <2>1, <2>4 DEF Register, Imported
    <3>2. /\ rows' \in Seq(Accounts) /\ IsInjective(rows') /\ Imported' = Imported
          /\ seen' \in [Accounts -> 0..tip]
          /\ \A b \in Accounts : seen'[b] = 0
      BY <1>1, <3>1, NewDatabase DEF TypeOK, Imported, Nothing
    <3>3. Current'
      BY <1>1, <2>3, <3>2, InDatabase DEF Current, NotesInv
    <3>4. \A t \in Txn : OfThis(t) => OfThis(t)'
      BY <1>1, <2>2, <3>2, InDatabase DEF OfThis
    <3> QED
      BY <1>2, <1>4, <2>2, <2>3, <3>2, <3>3, <3>4, RowsStep
  <2>5. CASE a \notin Imported
    <3>1. rows' = Append(rows, a) /\ seen' = [seen EXCEPT ![a] = 0]
      BY <2>1, <2>5 DEF Register, Imported
    <3>2. /\ rows' \in Seq(Accounts) /\ IsInjective(rows')
          /\ Imported' = Imported \cup {a}
      BY <1>1, <2>5, <3>1, OneMoreRow DEF TypeOK, Imported
    <3>3. /\ seen' \in [Accounts -> 0..tip] /\ seen'[a] = 0
          /\ \A b \in Imported : seen'[b] = seen[b]
      BY <1>1, <2>5, <3>1, InDatabase DEF TypeOK
    <3>4. Current'
      BY <1>1, <2>3, <3>2, InDatabase DEF Current, NotesInv
    <3>5. ASSUME NEW t \in Txn, OfThis(t) PROVE OfThis(t)'
      <4>1. txs[t].from \in Imported /\ seen[txs[t].from] \in Nat
        BY <1>1, <3>5, InDatabase DEF OfThis
      <4> QED
        BY <2>2, <3>2, <3>3, <3>5, <4>1 DEF OfThis
    <3> QED
      BY <1>2, <1>4, <2>2, <2>3, <3>2, <3>3, <3>4, <3>5, RowsStep
  <2> QED
    BY <2>4, <2>5
<1> QED
  BY <1>3, <1>4

LEMMA RegisterFailsStep ==
  ASSUME NotesInv, NEW a \in Accounts, RegisterFails(a)
  PROVE  NotesInv'
<1>1. TypeOK /\ tip' = tip /\ gone' = FALSE /\ addrs' \in SUBSET Accounts
  BY DEF RegisterFails, NotesInv, TypeOK
<1>2. CASE gone
  <2>1. /\ txs' = Dropped /\ rows' = <<>> /\ seen' = Nothing /\ known' = {}
        /\ cache' = Anew.cache
    BY <1>1, <1>2, NewDatabase DEF RegisterFails, Ensured
  <2>2. rows' \in Seq(Accounts) /\ IsInjective(rows') /\ ToSet(rows') = {}
    BY <1>1, <2>1, NewDatabase
  <2>3. Current'
    BY <2>2 DEF Current, Imported
  <2> QED
    BY <1>1, <2>1, <2>2, <2>3, NewDatabase, AnewStep
<1>3. CASE ~gone
  <2>1. UNCHANGED <<txs, rows, seen, known, cache, tip>>
    BY <1>1, <1>3 DEF RegisterFails, Ensured, AsItIs
  <2>2. Current' /\ \A t \in Txn : OfThis(t) => OfThis(t)'
    BY <2>1 DEF NotesInv, Current, Imported, OfThis
  <2> QED
    BY <1>1, <1>3, <2>1, <2>2, RowsStep DEF TypeOK
<1> QED
  BY <1>2, <1>3

\* paypunkd opens the file that is there, or a new one.
LEMMA RestartStep ==
  ASSUME NotesInv, Restart
  PROVE  NotesInv'
<1>1. /\ TypeOK /\ tip' = tip /\ gone' = FALSE /\ cache' = NoCache /\ addrs' = {}
  BY DEF Restart, NotesInv
<1>2. /\ cache' \in [Accounts -> {"none", "current", "stale"}]
      /\ \A b \in Accounts : cache'[b] = "none"
      /\ addrs' \in SUBSET Accounts
  BY <1>1 DEF NoCache
<1>3. PICK d \in Opened : txs' = d.txs /\ rows' = d.rows /\ seen' = d.seen
                          /\ known' = d.known
  BY DEF Restart
<1>4. CASE d = Anew
  <2>1. txs' = Dropped /\ rows' = <<>> /\ seen' = Nothing /\ known' = {}
    BY <1>1, <1>3, <1>4, NewDatabase
  <2>2. rows' \in Seq(Accounts) /\ IsInjective(rows') /\ ToSet(rows') = {}
    BY <1>1, <2>1, NewDatabase
  <2>3. Current'
    BY <2>2 DEF Current, Imported
  <2> QED
    BY <1>1, <1>2, <2>1, <2>2, <2>3, NewDatabase, AnewStep
<1>5. CASE ~gone /\ d = AsItIs
  <2>1. UNCHANGED <<txs, rows, seen, known, tip>>
    BY <1>1, <1>3, <1>5 DEF AsItIs
  <2>2. Imported' = Imported /\ Imported \subseteq Accounts
    BY <1>1, <2>1, InDatabase DEF Imported
  <2>3. Current' /\ \A t \in Txn : OfThis(t) => OfThis(t)'
    BY <1>2, <2>1, <2>2 DEF Current, OfThis
  <2> QED
    BY <1>1, <1>2, <1>5, <2>1, <2>3, RowsStep DEF TypeOK
<1> QED
  BY <1>4, <1>5 DEF Opened

-----------------------------------------------------------------------------
(* Payments, queries and the reset                                         *)

\* A step that changes transactions and leaves rows, heights and chain.
LEMMA TxStep ==
  ASSUME NotesInv, UNCHANGED <<tip, rows, seen>>, gone' \in BOOLEAN,
         txs' \in Seq(Tx), Len(txs') <= MaxTx,
         known' \in SUBSET (1..Len(txs')),
         cache' \in [Accounts -> {"none", "current", "stale"}],
         addrs' \in SUBSET Accounts, Current',
         \A t \in 1..Len(txs') : Chained(t)' /\ Spends(t)' /\ Recorded(t)'
  PROVE  NotesInv'
<1>1. TypeOK
  BY DEF NotesInv
<1>2. /\ tip' \in Heights /\ rows' \in Seq(Accounts) /\ IsInjective(rows')
      /\ seen' \in [Accounts -> 0..tip']
  BY <1>1 DEF TypeOK
<1>3. TypeOK'
  BY <1>2 DEF TypeOK
<1> QED
  BY <1>3 DEF NotesInv

\* What may be spent was made by a transaction that was scanned, and belongs
\* to the account.
LEMMA SpendableNotes ==
  ASSUME TypeOK, NEW a \in Accounts, NEW n \in Spendable(a)
  PROVE  /\ n \in Note /\ n[1] \in 1..Len(txs) /\ Owner(n) = a /\ Mined(n[1])
         /\ a \in Imported /\ ~SpentForWallet(n)
<1>1. Len(txs) \in Nat /\ MaxTx \in Nat /\ Len(txs) <= MaxTx
  BY Shape DEF TypeOK
<1>2. /\ n \in (1..Len(txs)) \X {"payment", "change"} /\ Owner(n) = a
      /\ Scanned(n[1], a) /\ ~SpentForWallet(n)
  BY DEF Spendable, Notes
<1>3. n[1] \in 1..Len(txs)
  BY <1>2
<1>4. seen[a] \in Nat
  BY Shape
<1>5. a \in Imported /\ Mined(n[1])
  BY <1>2, <1>4 DEF Scanned, Mined
<1>6. 1..Len(txs) \subseteq TxIds
  BY <1>1 DEF TxIds
<1> QED
  BY <1>2, <1>3, <1>5, <1>6 DEF Note

\* What a new draft is.
LEMMA NewDraft ==
  ASSUME NotesInv, NEW a \in Accounts, NEW to \in Parties \ {a}, Drafted(a, to)
  PROVE  \E r \in Tx :
           /\ txs' = Append(txs, r)
           /\ r.from = a /\ r.inputs \subseteq Spendable(a)
           /\ r.mined = 0 /\ r.state = "draft" /\ r.kept = FALSE
           /\ r.expiry > 0 /\ \A b \in Imported : r.expiry > seen[b]
           /\ a \in Imported
<1>1. /\ TypeOK /\ Delta \in Nat /\ Delta > 0
      /\ \A b \in Accounts : seen[b] \in Nat
  BY Shape DEF NotesInv
<1>2. PICK s \in (SUBSET Spendable(a)) \ {{}}, h \in Reached :
        /\ Top(h)
        /\ txs' = Append(txs, [from |-> a, to |-> to, inputs |-> s,
                               expiry |-> h + Delta, state |-> "draft",
                               mined |-> 0, kept |-> FALSE])
  BY DEF Drafted
<1> DEFINE r == [from |-> a, to |-> to, inputs |-> s, expiry |-> h + Delta,
                 state |-> "draft", mined |-> 0, kept |-> FALSE]
<1>3. h \in Nat /\ \A b \in Imported : seen[b] \in Nat /\ seen[b] <= h
  BY <1>1, <1>2, InDatabase DEF Reached, Top
<1>4. s \subseteq Note /\ a \in Imported
  <2>1. \A n \in Spendable(a) : n \in Note /\ a \in Imported
    BY <1>1, SpendableNotes
  <2>2. s \subseteq Spendable(a) /\ s # {}
    OBVIOUS
  <2> QED
    BY <2>1, <2>2
<1>5. 0 \in Heights /\ h + Delta \in Nat /\ a \in Parties
  BY <1>1, <1>3, ZcashNotesAssumption DEF Heights, Parties
<1>6. r \in Tx
  BY <1>4, <1>5 DEF Tx
<1>7. h + Delta > 0 /\ \A b \in Imported : h + Delta > seen[b]
  BY <1>1, <1>3
<1>8. /\ r.from = a /\ r.inputs = s /\ r.mined = 0 /\ r.state = "draft"
      /\ r.kept = FALSE /\ r.expiry = h + Delta
  OBVIOUS
<1> HIDE DEF r
<1>9. txs' = Append(txs, r)
  BY <1>2 DEF r
<1>10. r.inputs \subseteq Spendable(a)
  BY <1>8
<1> QED
  BY <1>4, <1>6, <1>7, <1>8, <1>9, <1>10

LEMMA DraftStep ==
  ASSUME NotesInv, NEW a \in Accounts, NEW to \in Parties \ {a}, Drafted(a, to),
         cache' \in [Accounts -> {"none", "current", "stale"}], Current'
  PROVE  NotesInv'
<1>1. PICK r \in Tx :
        /\ txs' = Append(txs, r)
        /\ r.from = a /\ r.inputs \subseteq Spendable(a)
        /\ r.mined = 0 /\ r.state = "draft" /\ r.kept = FALSE
        /\ r.expiry > 0 /\ \A b \in Imported : r.expiry > seen[b]
        /\ a \in Imported
  BY NewDraft
<1>2. /\ TypeOK /\ Len(txs) \in Nat /\ MaxTx \in Nat
      /\ Len(txs) < MaxTx /\ UNCHANGED <<tip, rows, seen, known, gone, addrs>>
  BY Shape DEF NotesInv, Drafted, database
<1>3. /\ txs' \in Seq(Tx) /\ Len(txs') = Len(txs) + 1
      /\ \A u \in Txn : txs'[u] = txs[u]
      /\ txs'[Len(txs) + 1] = r
  BY <1>1, <1>2, OneMoreTx
<1>4. /\ Len(txs') \in Nat /\ Len(txs) <= Len(txs') /\ Len(txs') <= MaxTx
      /\ 1..Len(txs) \subseteq 1..Len(txs')
  BY <1>2, <1>3
<1>5. Imported' = Imported
  BY <1>2 DEF Imported
<1>6. ASSUME NEW t \in 1..Len(txs')
      PROVE  Chained(t)' /\ Spends(t)' /\ Recorded(t)'
  <2>1. CASE t \in Txn
    <3>1. Recorded(t)'
      BY <1>2, <1>3, <2>1, RecordedKept
    <3>2. Spends(t)'
      BY <1>3, <1>4, <2>1, SpendsKept DEF Mined
    <3>3. Chained(t)'
      BY <1>2, <1>3, <2>1 DEF NotesInv, Chained, Txn
    <3> QED
      BY <3>1, <3>2, <3>3
  <2>2. CASE t = Len(txs) + 1
    <3>1. Chained(t)'
      BY <1>1, <1>3, <2>2 DEF Chained
    <3>2. OfThis(t)' /\ txs'[t].kept = FALSE
      BY <1>1, <1>2, <1>3, <1>5, <2>2 DEF OfThis
    <3>3. ASSUME NEW n \in r.inputs
          PROVE  /\ n[1] \in Txn /\ txs[n[1]].mined # 0 /\ Owner(n) = a
      BY <1>1, <1>2, SpendableNotes DEF Mined, Txn
    <3>4. ASSUME NEW n \in r.inputs
          PROVE  /\ n[1] \in 1..Len(txs') /\ txs'[n[1]].mined # 0
                 /\ (IF n[2] = "payment" THEN txs'[n[1]].to
                                         ELSE txs'[n[1]].from) = a
      BY <1>3, <1>4, <3>3 DEF Owner, Txn
    <3>5. txs'[t].inputs = r.inputs /\ txs'[t].from = a
      BY <1>1, <1>3, <2>2
    <3>6. Spends(t)'
      BY <3>4, <3>5 DEF Spends, Mined, Owner
    <3> QED
      BY <3>1, <3>2, <3>6 DEF Recorded
  <2>3. t \in Txn \/ t = Len(txs) + 1
    BY <1>2, <1>3 DEF Txn
  <2> QED
    BY <2>1, <2>2, <2>3
<1>7. known' \in SUBSET (1..Len(txs')) /\ gone' \in BOOLEAN /\ addrs' \in SUBSET Accounts
  BY <1>2, <1>4 DEF TypeOK
<1> QED
  BY <1>2, <1>3, <1>4, <1>6, <1>7, TxStep

\* Looking a key up leaves the map of a known account right.
LEMMA RememberedKeys ==
  ASSUME NotesInv, NEW a \in Accounts, cache' = Remembered(a), rows' = rows
  PROVE  cache' \in [Accounts -> {"none", "current", "stale"}] /\ Current'
<1>1. TypeOK /\ Current /\ Imported' = Imported /\ Imported \subseteq Accounts
  BY InDatabase DEF NotesInv, Imported
<1>2. cache \in [Accounts -> {"none", "current", "stale"}]
  BY <1>1 DEF TypeOK
<1>3. /\ cache' \in [Accounts -> {"none", "current", "stale"}]
      /\ \A b \in Accounts : cache'[b] = cache[b] \/ cache'[b] = "current"
  BY <1>2 DEF Remembered
<1> QED
  BY <1>1, <1>3 DEF Current

LEMMA BuildStep ==
  ASSUME NotesInv, NEW a \in Accounts, NEW to \in Parties \ {a},
         Build(a, to) \/ CreateTransfer(a, to)
  PROVE  NotesInv'
<1>1. Drafted(a, to) /\ rows' = rows
  BY DEF Build, CreateTransfer, Drafted, database
<1>2. CASE cache' = Remembered(a)
  BY <1>1, <1>2, RememberedKeys, DraftStep
<1>3. CASE cache' = cache
  BY <1>1, <1>3, DraftStep DEF NotesInv, TypeOK, Current, Imported
<1> QED
  BY <1>2, <1>3 DEF Build, CreateTransfer

LEMMA GetBalanceStep ==
  ASSUME NotesInv, NEW a \in Accounts, GetBalance(a)
  PROVE  NotesInv'
<1>1. /\ cache' = Remembered(a)
      /\ UNCHANGED <<txs, tip, rows, seen, known, gone, addrs>>
  BY DEF GetBalance, chain, database
<1>2. cache' \in [Accounts -> {"none", "current", "stale"}] /\ Current'
  BY <1>1, RememberedKeys
<1>3. \A t \in 1..Len(txs') : Recorded(t)'
  BY <1>1 DEF NotesInv, Recorded, OfThis, Imported
<1>4. \A t \in 1..Len(txs') : Chained(t)' /\ Spends(t)'
  BY <1>1, TxsSame
<1>5. /\ txs' \in Seq(Tx) /\ Len(txs') <= MaxTx /\ gone' \in BOOLEAN
      /\ known' \in SUBSET (1..Len(txs')) /\ addrs' \in SUBSET Accounts
  BY <1>1 DEF NotesInv, TypeOK
<1> QED
  BY <1>1, <1>2, <1>3, <1>4, <1>5, TxStep

\* One transaction goes on from the state in which it was, unmined.
LEMMA GoesOn ==
  ASSUME NotesInv, NEW m \in Txn, NEW r \in Tx, txs' = [txs EXCEPT ![m] = r],
         txs[m].state # "sent",
         r.from = txs[m].from, r.to = txs[m].to, r.inputs = txs[m].inputs,
         r.expiry = txs[m].expiry, r.mined = txs[m].mined, tip' = tip
  PROVE  /\ txs' \in Seq(Tx) /\ Len(txs') = Len(txs)
         /\ \A u \in Txn : txs'[u] = IF u = m THEN r ELSE txs[u]
         /\ \A t \in Txn : Chained(t)' /\ Spends(t)'
<1>1. TypeOK /\ Len(txs) \in Nat
  BY Shape DEF NotesInv
<1>2. /\ txs' \in Seq(Tx) /\ Len(txs') = Len(txs)
      /\ \A u \in Txn : txs'[u] = IF u = m THEN r ELSE txs[u]
  BY <1>1, OneTx
<1>3. Chained(m)
  BY DEF NotesInv, Txn
<1>4. ASSUME NEW t \in Txn PROVE Chained(t)' /\ Spends(t)'
  <2>1. Chained(t)
    BY DEF NotesInv, Txn
  <2>2. Chained(t)'
    BY <1>2, <1>3, <2>1 DEF Chained
  <2>3. Len(txs') \in Nat /\ Len(txs) <= Len(txs')
    BY <1>1, <1>2
  <2>4. \A u \in Txn : Mined(u) => /\ txs'[u].mined # 0
                                   /\ txs'[u].from = txs[u].from
                                   /\ txs'[u].to = txs[u].to
    BY <1>2 DEF Mined
  <2>5. txs'[t].inputs = txs[t].inputs /\ txs'[t].from = txs[t].from
    BY <1>2
  <2>6. Spends(t)'
    BY <2>3, <2>4, <2>5, SpendsKept
  <2> QED
    BY <2>2, <2>6
<1> QED
  BY <1>2, <1>4

LEMMA StoreStep ==
  ASSUME NotesInv, NEW m \in TxIds, Store(m)
  PROVE  NotesInv'
<1> DEFINE r == [txs[m] EXCEPT !.state = "stored", !.kept = ~gone]
<1>1. /\ TypeOK /\ m \in Txn /\ txs[m].state = "draft" /\ Len(txs) \in Nat
      /\ txs[m] \in Tx /\ known' = known \cup {m}
      /\ UNCHANGED <<tip, rows, seen, gone, cache, addrs>>
  BY Shape DEF NotesInv, Store, Txn
<1>2. txs' = [txs EXCEPT ![m] = r]
  BY <1>1 DEF Store
<1>3. /\ r \in Tx /\ r.from = txs[m].from /\ r.to = txs[m].to
      /\ r.inputs = txs[m].inputs /\ r.expiry = txs[m].expiry
      /\ r.mined = txs[m].mined /\ r.state = "stored" /\ r.kept = (~gone)
  BY <1>1 DEF Tx
<1> HIDE DEF r
<1>4. /\ txs' \in Seq(Tx) /\ Len(txs') = Len(txs)
      /\ \A u \in Txn : txs'[u] = IF u = m THEN r ELSE txs[u]
      /\ \A t \in Txn : Chained(t)' /\ Spends(t)'
  BY <1>1, <1>2, <1>3, GoesOn
<1>5. ASSUME NEW t \in Txn PROVE Recorded(t)'
  <2>1. CASE t = m
    <3>1. OfThis(t)
      BY <1>1, <2>1 DEF NotesInv, Recorded, Txn
    <3>2. txs'[t].from = txs[t].from /\ txs'[t].expiry = txs[t].expiry
      BY <1>3, <1>4, <2>1
    <3>3. OfThis(t)'
      BY <1>1, <3>1, <3>2 DEF OfThis, Imported
    <3> QED
      BY <1>1, <1>3, <1>4, <2>1, <3>3 DEF Recorded
  <2>2. CASE t # m
    BY <1>1, <1>4, <2>2, RecordedKept
  <2> QED
    BY <2>1, <2>2
<1>6. Current'
  BY <1>1 DEF NotesInv, Current, Imported
<1>7. known' \in SUBSET (1..Len(txs')) /\ Len(txs') <= MaxTx
  BY <1>1, <1>4 DEF TypeOK, Txn
<1> QED
  BY <1>1, <1>4, <1>5, <1>6, <1>7, TxStep DEF TypeOK, Txn

LEMMA BroadcastStep ==
  ASSUME NotesInv, NEW m \in TxIds, Broadcast(m)
  PROVE  NotesInv'
<1> DEFINE r == [txs[m] EXCEPT !.state = "sent"]
<1>1. /\ TypeOK /\ m \in Txn /\ txs[m].state = "stored" /\ Len(txs) \in Nat
      /\ txs[m] \in Tx
      /\ UNCHANGED <<tip, rows, seen, known, gone, cache, addrs>>
  BY Shape DEF NotesInv, Broadcast, Txn, database
<1>2. txs' = [txs EXCEPT ![m] = r]
  BY <1>1 DEF Broadcast
<1>3. /\ r \in Tx /\ r.from = txs[m].from /\ r.to = txs[m].to
      /\ r.inputs = txs[m].inputs /\ r.expiry = txs[m].expiry
      /\ r.mined = txs[m].mined /\ r.state = "sent" /\ r.kept = txs[m].kept
  BY <1>1 DEF Tx
<1> HIDE DEF r
<1>4. /\ txs' \in Seq(Tx) /\ Len(txs') = Len(txs)
      /\ \A u \in Txn : txs'[u] = IF u = m THEN r ELSE txs[u]
      /\ \A t \in Txn : Chained(t)' /\ Spends(t)'
  BY <1>1, <1>2, <1>3, GoesOn
<1>5. ASSUME NEW t \in Txn PROVE Recorded(t)'
  BY <1>1, <1>3, <1>4, RecordedKept
<1>6. Current'
  BY <1>1 DEF NotesInv, Current, Imported
<1> QED
  BY <1>1, <1>4, <1>5, <1>6, TxStep DEF TypeOK, Txn

LEMMA ResetStep ==
  ASSUME NotesInv, Reset
  PROVE  NotesInv'
<1>1. /\ TypeOK /\ Len(txs) \in Nat /\ DOMAIN txs = Txn
      /\ gone' = TRUE /\ UNCHANGED <<tip, rows, seen, known, cache, addrs>>
      /\ txs' = [t \in Txn |-> [txs[t] EXCEPT !.kept = FALSE]]
  BY Shape, LenProperties DEF NotesInv, TypeOK, Reset, Txn
<1>2. ASSUME NEW t \in Txn
      PROVE  /\ txs'[t] \in Tx /\ txs'[t].kept = FALSE
             /\ txs'[t].from = txs[t].from /\ txs'[t].to = txs[t].to
             /\ txs'[t].inputs = txs[t].inputs /\ txs'[t].mined = txs[t].mined
             /\ txs'[t].expiry = txs[t].expiry /\ txs'[t].state = txs[t].state
  <2>1. txs[t] \in Tx /\ txs'[t] = [txs[t] EXCEPT !.kept = FALSE]
    BY <1>1, Shape
  <2> QED
    BY <2>1 DEF Tx
<1>3. txs' \in [1..Len(txs) -> Tx]
  BY <1>1, <1>2 DEF Txn
<1>4. txs' \in Seq(Tx) /\ Len(txs') = Len(txs)
  BY <1>1, <1>3, SeqDef
<1>5. ASSUME NEW t \in Txn PROVE Chained(t)' /\ Spends(t)' /\ Recorded(t)'
  <2>1. Chained(t)'
    BY <1>1, <1>2 DEF NotesInv, Chained, Txn
  <2>2. Spends(t)'
    <3>1. Len(txs') \in Nat /\ Len(txs) <= Len(txs')
      BY <1>1, <1>4
    <3> QED
      BY <1>2, <3>1, SpendsKept DEF Mined
  <2>3. OfThis(t) => OfThis(t)'
    BY <1>1, <1>2 DEF OfThis, Imported
  <2>4. Recorded(t)'
    BY <1>2, <2>3 DEF NotesInv, Recorded, Txn
  <2> QED
    BY <2>1, <2>2, <2>4
<1>6. Current'
  BY <1>1 DEF NotesInv, Current, Imported
<1> QED
  BY <1>1, <1>4, <1>5, <1>6, TxStep DEF TypeOK, Txn

LEMMA NotesStart == Init => NotesInv
<1> SUFFICES ASSUME Init PROVE NotesInv
  OBVIOUS
<1>1. /\ txs = <<>> /\ Len(txs) = 0 /\ txs \in Seq(Tx)
      /\ rows = <<>> /\ rows \in Seq(Accounts) /\ IsInjective(rows)
      /\ tip = 0 /\ known = {} /\ gone = FALSE /\ addrs = {}
      /\ Imported = {}
  BY EmptySeq DEF Init, IsInjective, Imported, ToSet
<1>2. MaxTx \in Nat /\ 0 \in Heights
  BY ZcashNotesAssumption DEF Heights
<1>3. /\ seen \in [Accounts -> 0..tip]
      /\ cache \in [Accounts -> {"none", "current", "stale"}]
  BY <1>1 DEF Init, Nothing, NoCache
<1>4. TypeOK
  <2>1. /\ txs \in Seq(Tx) /\ Len(txs) <= MaxTx /\ tip \in Heights
        /\ known \in SUBSET (1..Len(txs)) /\ gone \in BOOLEAN
        /\ addrs \in SUBSET Accounts
    <3>1. Len(txs) <= MaxTx /\ tip \in Heights
      BY <1>1, <1>2
    <3> QED
      BY <1>1, <3>1, Zenon
  <2> QED
    BY <1>1, <1>3, <2>1 DEF TypeOK
<1>5. Current
  BY <1>1 DEF Current
<1> QED
  BY <1>1, <1>4, <1>5 DEF NotesInv

LEMMA NotesStep == NotesInv /\ [Next]_vars => NotesInv'
<1> SUFFICES ASSUME NotesInv, [Next]_vars PROVE NotesInv'
  OBVIOUS
<1>1. CASE MineBlock
  BY <1>1, MineBlockStep
<1>2. CASE \E a \in Accounts : Deposit(a)
  BY <1>2, DepositStep
<1>3. CASE \E a \in Accounts : Scan(a)
  BY <1>3, ScanStep
<1>4. CASE ScanAnew
  BY <1>4, ScanAnewStep
<1>5. CASE \E a \in Accounts : Register(a)
  BY <1>5, RegisterStep
<1>6. CASE \E a \in Accounts : RegisterFails(a)
  BY <1>6, RegisterFailsStep
<1>7. CASE \E a \in Accounts : \E to \in Parties \ {a} :
             Build(a, to) \/ CreateTransfer(a, to)
  BY <1>7, BuildStep
<1>8. CASE \E t \in TxIds : Store(t)
  BY <1>8, StoreStep
<1>9. CASE \E t \in TxIds : Broadcast(t)
  BY <1>9, BroadcastStep
<1>10. CASE \E a \in Accounts : GetBalance(a)
  BY <1>10, GetBalanceStep
<1>11. CASE Restart
  BY <1>11, RestartStep
<1>12. CASE Reset
  BY <1>12, ResetStep
<1>13. CASE UNCHANGED vars
  BY <1>13 DEF vars, chain, database, NotesInv, TypeOK, Chained, Spends, Recorded,
               OfThis, Current, Imported, Mined, Owner
<1> QED
  BY <1>1, <1>2, <1>3, <1>4, <1>5, <1>6, <1>7, <1>8, <1>9, <1>10, <1>11, <1>12,
     <1>13 DEF Next

LEMMA NotesInvariant == Spec => []NotesInv
<1>1. Init => NotesInv
  BY NotesStart
<1>2. NotesInv /\ [Next]_vars => NotesInv'
  BY NotesStep
<1> QED
  BY <1>1, <1>2, PTL DEF Spec

\* Every variable stays in its set, and no account has two rows, whatever is
\* registered again, into whichever database (`RegisterAccount` of
\* wallet_actor.rs looks the key up before it imports).
THEOREM NotesTypeCorrect == Spec => []TypeOK
<1>1. NotesInv => TypeOK
  BY DEF NotesInv
<1> QED
  BY <1>1, NotesInvariant, PTL

-----------------------------------------------------------------------------
(* Balance and history                                                     *)

\* Once everything is scanned, what is mined and spends a note of an account
\* spends it for the wallet.
LEMMA MinedIsSpent ==
  ASSUME NotesInv, \A b \in Imported : seen[b] = tip,
         NEW a \in Imported, NEW n \in Notes(a), NEW t \in SpentBy(n), Mined(t)
  PROVE  SpentForWallet(n)
<1>1. t \in Txn /\ n \in txs[t].inputs /\ Owner(n) = a
  BY DEF SpentBy, Txn, Notes
<1>2. txs[t].from = a /\ txs[t].mined <= tip /\ txs[t].mined # 0
  BY <1>1 DEF NotesInv, Spends, Chained, Mined, Txn
<1>3. txs[t].mined \in Nat /\ tip \in Nat
  BY <1>1, Shape DEF NotesInv
<1>4. Scanned(t, txs[t].from)
  BY <1>2, <1>3 DEF Scanned
<1> QED
  BY <1>4 DEF SpentForWallet

\* Once everything is scanned, the balance asked for with an account's key is
\* the account's (`get_balance_impl` with the map of keys and the wallet
\* summary), after whatever registrations, resets, restarts, expired and
\* failed payments.
THEOREM NotesBalanceIsTrue == Spec => []BalanceIsTrue
<1>1. NotesInv => BalanceIsTrue
  <2> SUFFICES ASSUME NotesInv, \A b \in Imported : seen[b] = tip,
                      NEW a \in Imported \cap addrs
               PROVE  /\ \A n \in Balance(a) : Mined(n[1]) => n \in Unspent(a)
                      /\ \A n \in Unspent(a) :
                           \/ n \in Balance(a)
                           \/ \E t \in SpentBy(n) : t \in known /\ txs[t].expiry > tip
    BY DEF BalanceIsTrue
  <2>1. /\ TypeOK /\ a \in Accounts /\ tip \in Nat /\ Resolves(a)
    <3>1. TypeOK /\ a \in Accounts /\ tip \in Nat
      BY Shape, InDatabase DEF NotesInv
    <3> QED
      BY <3>1 DEF NotesInv, Current, Resolves, TypeOK
  <2>2. Balance(a) = Spendable(a) \cup Pending(a)
    BY <2>1 DEF Balance
  <2>3. ASSUME NEW n \in Balance(a), Mined(n[1])
        PROVE  n \in Unspent(a)
    <3>1. n \in Notes(a) /\ ~SpentForWallet(n)
      BY <2>2 DEF Spendable, Pending
    <3>2. \A t \in SpentBy(n) : ~Mined(t)
      BY <3>1, MinedIsSpent
    <3> QED
      BY <2>3, <3>1, <3>2 DEF Unspent
  <2>4. ASSUME NEW n \in Unspent(a), n \notin Balance(a)
        PROVE  \E t \in SpentBy(n) : t \in known /\ txs[t].expiry > tip
    <3>1. /\ n \in Notes(a) /\ Mined(n[1]) /\ \A t \in SpentBy(n) : ~Mined(t)
      BY DEF Unspent
    <3>2. n[1] \in Txn
      BY <3>1 DEF Notes, Txn
    <3>3. txs[n[1]].mined \in Nat /\ txs[n[1]].mined # 0 /\ txs[n[1]].mined <= tip
      BY <2>1, <3>1, <3>2, Shape DEF NotesInv, Chained, Mined, Txn
    <3>4. Scanned(n[1], a)
      BY <2>1, <3>3 DEF Scanned
    <3>5. SpentForWallet(n)
      BY <2>2, <2>4, <3>1, <3>4 DEF Spendable
    <3>6. PICK t \in SpentBy(n) : Scanned(t, txs[t].from) \/ Live(t)
      BY <3>5 DEF SpentForWallet
    <3>7. t \in Txn /\ ~Mined(t)
      BY <3>1, <3>6 DEF SpentBy, Txn
    <3>8. ~Scanned(t, txs[t].from)
      <4>1. ASSUME Scanned(t, txs[t].from) PROVE FALSE
        <5>1. txs[t].from \in Accounts /\ txs[t].mined \in 1..seen[txs[t].from]
          BY <2>1, <4>1, InDatabase DEF Scanned
        <5>2. seen[txs[t].from] \in Nat
          BY <2>1, <5>1, Shape
        <5> QED
          BY <3>7, <5>1, <5>2 DEF Mined
      <4> QED
        BY <4>1
    <3>9. t \in known /\ txs[t].expiry > seen[a]
      BY <3>6, <3>8 DEF Live, Reached
    <3> QED
      BY <3>9
  <2> QED
    BY <2>3, <2>4
<1> QED
  BY <1>1, NotesInvariant, PTL

\* The history of a row shows every transaction that its balance counts, as
\* confirmed only what is on the chain, and never as received what the
\* account paid and the file still records (`get_history` and the status of
\* wallet_actor.rs).
THEOREM NotesHistoryExplainsBalance == Spec => []HistoryExplainsBalance
<1>1. NotesInv => HistoryExplainsBalance
  <2> SUFFICES ASSUME NotesInv, ~gone, NEW i \in DOMAIN rows
               PROVE  /\ \A n \in Balance(rows[i]) :
                           \E e \in History(i) : e.tx = n[1]
                      /\ \A e \in History(i) :
                           /\ e.status = "confirmed" => Mined(e.tx)
                           /\ /\ txs[e.tx].kept /\ txs[e.tx].from = rows[i]
                              /\ txs[e.tx].to # rows[i]
                              => e.direction = "outgoing"
    BY DEF HistoryExplainsBalance
  <2> DEFINE a == rows[i]
             entry(t) == [tx |-> t, direction |-> Direction(t, a),
                          status |-> Status(t)]
  <2>1. TypeOK
    BY DEF NotesInv
  <2>2. History(i) = {entry(t) : t \in {u \in 1..Len(txs) : Listed(u, a)}}
    BY DEF History
  <2>3. ASSUME NEW n \in Balance(a)
        PROVE  \E e \in History(i) : e.tx = n[1]
    <3>1. /\ n \in Notes(a)
          /\ Scanned(n[1], a) \/ Live(n[1])
      BY DEF Balance, Spendable, Pending
    <3>2. n[1] \in 1..Len(txs) /\ Owner(n) = a
      BY <3>1 DEF Notes
    <3>3. Listed(n[1], a)
      BY <3>1, <3>2 DEF Listed, Live, Owner
    <3>4. entry(n[1]) \in History(i)
      BY <2>2, <3>2, <3>3
    <3> QED
      BY <3>4
  <2>4. ASSUME NEW e \in History(i)
        PROVE  /\ e.status = "confirmed" => Mined(e.tx)
               /\ /\ txs[e.tx].kept /\ txs[e.tx].from = a /\ txs[e.tx].to # a
                  => e.direction = "outgoing"
    <3>1. PICK t \in 1..Len(txs) : e = entry(t)
      BY <2>2
    <3>2. e.tx = t /\ e.direction = Direction(t, a) /\ e.status = Status(t)
      BY <3>1
    <3>3. ASSUME Status(t) = "confirmed" PROVE Mined(t)
      <4>1. PICK b \in Imported : Scanned(t, b)
        BY <3>3 DEF Status
      <4>2. seen[b] \in Nat /\ txs[t].mined \in 1..seen[b]
        BY <2>1, <4>1, Shape, InDatabase DEF Scanned
      <4> QED
        BY <4>2 DEF Mined
    <3>4. txs[t].kept => t \in known
      BY DEF NotesInv, Recorded
    <3> QED
      BY <3>2, <3>3, <3>4 DEF Direction
  <2> QED
    BY <2>3, <2>4
<1> QED
  BY <1>1, NotesInvariant, PTL

-----------------------------------------------------------------------------
(* No payment spends again what an earlier one spends                      *)

\* Only a deposit or a draft adds to the transactions.
LEMMA WhatAdds ==
  ASSUME NotesInv, [Next]_vars, Len(txs') > Len(txs)
  PROVE  \/ \E a \in Accounts : Deposit(a)
         \/ \E a \in Accounts : \E to \in Parties \ {a} : Drafted(a, to)
<1>1. /\ Len(txs) \in Nat /\ txs \in Seq(Tx) /\ DOMAIN txs = 1..Len(txs)
      /\ Len(Dropped) = Len(txs)
  BY Shape, LenProperties, DroppedTxs DEF NotesInv, TypeOK
<1>2. \A t \in DOMAIN txs : \A r : Len([txs EXCEPT ![t] = r]) = Len(txs)
  BY <1>1
<1>3. Len(txs') # Len(txs)
  BY <1>1
<1>4. txs' # txs /\ txs' # Dropped
  BY <1>1, <1>3
<1>5. ~MineBlock
  <2>1. \A t \in 1..Len(txs) : Len([txs EXCEPT ![t].mined = tip + 1]) = Len(txs)
    BY <1>1
  <2> QED
    BY <1>3, <1>4, <2>1 DEF MineBlock
<1>6. ASSUME NEW a \in Accounts PROVE ~Scan(a) /\ ~GetBalance(a)
  BY <1>4 DEF Scan, GetBalance, chain
<1>7. Ensured.txs \in {txs, Dropped}
  BY DEF Ensured, Anew, AsItIs
<1>8. ~ScanAnew /\ \A a \in Accounts : ~Register(a) /\ ~RegisterFails(a)
  BY <1>4, <1>7 DEF ScanAnew, Register, RegisterFails
<1>9. ASSUME NEW t \in TxIds PROVE ~Store(t) /\ ~Broadcast(t)
  <2>1. t \in 1..Len(txs) =>
          /\ Len([txs EXCEPT ![t].state = "stored", ![t].kept = ~gone]) = Len(txs)
          /\ Len([txs EXCEPT ![t].state = "sent"]) = Len(txs)
    BY <1>1
  <2> QED
    BY <1>3, <2>1 DEF Store, Broadcast
<1>10. ~Restart
  <2>1. \A d \in Opened : d.txs \in {txs, Dropped}
    BY DEF Opened, Anew, AsItIs
  <2> QED
    BY <1>4, <2>1 DEF Restart
<1>11. ~Reset
  <2>1. Len([t \in DOMAIN txs |-> [txs[t] EXCEPT !.kept = FALSE]]) = Len(txs)
    BY <1>1
  <2> QED
    BY <1>3, <2>1 DEF Reset
<1>12. ~UNCHANGED vars
  BY <1>4 DEF vars, chain
<1> QED
  BY <1>5, <1>6, <1>8, <1>9, <1>10, <1>11, <1>12 DEF Next, Build, CreateTransfer

\* A payment is never drafted from notes of an earlier one that was recorded
\* on disk and is mined or can still be mined (`propose_and_build` chooses
\* among the notes that no stored, unexpired transaction spends).
THEOREM NotesNoSelfDoubleSpend == Spec => NoSelfDoubleSpend
<1>1. NotesInv /\ [Next]_vars =>
        [\A t \in 1..Len(txs) :
           /\ txs[t].kept
           /\ Mined(t) \/ txs[t].expiry > tip
           /\ Len(txs') > Len(txs)
           => txs[t].inputs \cap Last(txs').inputs = {}]_vars
  <2> SUFFICES ASSUME NotesInv, [Next]_vars, NEW t \in 1..Len(txs), txs[t].kept,
                      Mined(t) \/ txs[t].expiry > tip, Len(txs') > Len(txs)
               PROVE  txs[t].inputs \cap Last(txs').inputs = {}
    OBVIOUS
  <2>1. /\ TypeOK /\ Len(txs) \in Nat /\ t \in Txn /\ tip \in Nat
        /\ txs[t].mined \in Nat /\ txs[t].expiry \in Nat
    BY Shape DEF NotesInv, Txn
  <2>2. ASSUME NEW a \in Accounts, Deposit(a)
        PROVE  txs[t].inputs \cap Last(txs').inputs = {}
    <3> DEFINE r == [from |-> World, to |-> a, inputs |-> {}, expiry |-> tip + 1,
                     state |-> "sent", mined |-> tip + 1, kept |-> FALSE]
    <3>1. r \in Tx /\ txs' = Append(txs, r)
      BY <2>1, <2>2, ZcashNotesAssumption DEF Deposit, Tx, Parties, Heights
    <3>2. r.inputs = {}
      OBVIOUS
    <3> HIDE DEF r
    <3>3. Last(txs') = r
      BY <2>1, <3>1, OneMoreTx DEF Last
    <3> QED
      BY <3>2, <3>3
  <2>3. ASSUME NEW a \in Accounts, NEW to \in Parties \ {a}, Drafted(a, to)
        PROVE  txs[t].inputs \cap Last(txs').inputs = {}
    <3>1. PICK r \in Tx : /\ txs' = Append(txs, r)
                          /\ r.inputs \subseteq Spendable(a)
      BY <2>3, NewDraft
    <3>2. Last(txs') = r
      BY <2>1, <3>1, OneMoreTx DEF Last
    <3>3. ASSUME NEW n \in txs[t].inputs, n \in Spendable(a) PROVE FALSE
      <4>1. /\ Owner(n) = a /\ a \in Imported /\ ~SpentForWallet(n)
        BY <2>1, <3>3, SpendableNotes
      <4>2. ~Scanned(t, txs[t].from) /\ ~Live(t)
        BY <4>1, <3>3 DEF SpentForWallet, SpentBy
      <4>3. /\ txs[t].from = a /\ t \in known /\ OfThis(t)
        BY <3>3, <4>1 DEF NotesInv, Spends, Recorded
      <4>4. PICK h \in Reached : ~(txs[t].expiry > h)
        BY <4>2, <4>3 DEF Live
      <4>5. txs[t].expiry > 0
        BY <4>3 DEF OfThis
      <4>6. PICK b \in Imported : h = seen[b]
        BY <4>4, <4>5 DEF Reached
      <4>7. /\ seen[b] \in Nat /\ seen[b] <= tip /\ seen[a] \in Nat
        BY <2>1, <4>6, Shape, InDatabase
      <4>8. txs[t].expiry <= seen[b] /\ Mined(t)
        BY <2>1, <4>4, <4>6, <4>7
      <4>9. txs[t].mined # 0 /\ txs[t].mined <= txs[t].expiry
        BY <4>8 DEF NotesInv, Chained, Mined
      <4>10. txs[t].mined > seen[a]
        BY <2>1, <4>1, <4>2, <4>3, <4>7, <4>9 DEF Scanned
      <4>11. seen[b] > seen[a]
        BY <2>1, <4>7, <4>8, <4>9, <4>10
      <4>12. txs[t].expiry > seen[b]
        BY <4>3, <4>6, <4>11 DEF OfThis
      <4> QED
        BY <2>1, <4>7, <4>8, <4>12
    <3> QED
      BY <3>1, <3>2, <3>3
  <2> QED
    BY <2>2, <2>3, WhatAdds
<1> QED
  BY <1>1, NotesInvariant, PTL DEF Spec, NoSelfDoubleSpend
====

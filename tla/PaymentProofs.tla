---------------------------- MODULE PaymentProofs -----------------------------
(* Proofs about payments: transfers as paypunkd and its clients make them  *)
(* (Transfer), and the phone that signs them and registers the accounts    *)
(* (Signer, whose general names carry an S).                               *)
EXTENDS Transfer, Signer, TLAPS

-----------------------------------------------------------------------------
(* Transfers, for any number of notes, fees, CLI processes and transactions*)

\* The transactions, and the node's count.
NodeOK == drafts \in Seq(Draft) /\ Len(drafts) <= MaxDrafts /\ next \in Nat

\* The key of a transaction that was used is taken: the node counts past its
\* nonce, or the wallet has its note as spent.
Taken == \A d \in Known :
            /\ drafts[d].protocol = "ethereum" => drafts[d].key \in Nat
            /\ drafts[d].used > 0 => IF drafts[d].protocol = "ethereum"
                                     THEN drafts[d].key < next
                                     ELSE drafts[d].stored

NodeInv == NodeOK /\ Taken /\ KeysAreNotReused

\* The slot and the tasks of a TUI have a draft each.
Counted ==
    /\ offline => slot = 0
    /\ ~offline => /\ Len(tasks) <= Len(drafts)
                   /\ slot # 0 => Len(tasks) < Len(drafts)

\* What a task signs or broadcasts, a person has confirmed.
TasksConfirmed ==
    \A t \in 1..Len(tasks) :
        /\ tasks[t].draft <= Len(drafts)
        /\ tasks[t].phase \in {"signing", "broadcasting"} =>
              tasks[t].draft \in confirmed

TuiInv ==
    /\ offline \in BOOLEAN /\ screen \in Screen /\ connected \in BOOLEAN
    /\ slot \in 0..Len(drafts) /\ channel \in 0..Len(tasks)
    /\ tasks \in Seq(Task) /\ Len(tasks) <= MaxDrafts
    /\ Counted /\ TasksConfirmed

\* The same of the CLI.
CliInv ==
    /\ cli \in [Clis -> Cli] /\ file \in 0..Len(drafts)
    /\ \A c \in Clis :
         /\ cli[c].pc = "previewed" => cli[c].draft <= Len(drafts)
         /\ cli[c].pc \in {"loaded", "signed"} => cli[c].draft \in confirmed

AskInv == approved \subseteq Known /\ confirmed \subseteq Known

\* The inductive invariant.
TInv == NodeInv /\ TuiInv /\ CliInv /\ AskInv

\* A step of Payments, or none.
Pays == Payment!PNext \/ UNCHANGED <<Known, confirmed, Paid>>

LEMMA Types == TInv => TypeOK
BY DEF TInv, NodeInv, NodeOK, TuiInv, CliInv, AskInv, TypeOK

\* The records that the clients start with.
LEMMA Records ==
  /\ MaxDrafts \in Nat /\ 0 \in 0..MaxDrafts
  /\ Away \in Screen /\ NoCli \in Cli
<1>1. MaxDrafts \in Nat /\ 0 \in 0..MaxDrafts
  BY TransferAssumption
<1>2. Away \in Screen
  BY <1>1 DEF Away, Screen
<1>3. NoCli \in Cli
  BY <1>1 DEF NoCli, Cli
<1> QED
  BY <1>1, <1>2, <1>3

LEMMA TInit == Init => TInv /\ Payment!PInit
<1> SUFFICES ASSUME Init PROVE TInv /\ Payment!PInit
  OBVIOUS
<1>1. drafts = <<>> /\ Len(drafts) = 0 /\ Known = {}
  BY DEF Init, Known
<1>2. NodeInv
  BY <1>1, Records DEF Init, NodeInv, NodeOK, Taken, KeysAreNotReused
<1>3. TuiInv
  <2>1. tasks = <<>> /\ Len(tasks) = 0 /\ slot = 0 /\ channel = 0
    BY DEF Init
  <2>2. offline \in BOOLEAN
    BY DEF Init
  <2>3. connected \in BOOLEAN
    BY DEF Init
  <2>4. screen \in Screen
    BY Records DEF Init
  <2>5. Counted /\ TasksConfirmed
    BY <1>1, <2>1 DEF Counted, TasksConfirmed
  <2> QED
    BY <1>1, <2>1, <2>2, <2>3, <2>4, <2>5, Records DEF TuiInv
<1>4. CliInv
  BY <1>1, Records DEF Init, CliInv, NoCli
<1>5. AskInv
  BY DEF Init, AskInv
<1>6. Payment!PInit
  BY <1>1 DEF Init, Payment!PInit, Paid
<1> QED
  BY <1>2, <1>3, <1>4, <1>5, <1>6 DEF TInv

-----------------------------------------------------------------------------
(* The transactions                                                        *)

\* A new draft, with a key that no used one has.
LEMMA SubmitStep ==
  ASSUME NodeInv, AskInv, SubmitIntent, UNCHANGED next
  PROVE  /\ NodeInv' /\ approved' \subseteq Known' /\ Known \subseteq Known'
         /\ Len(drafts') = Len(drafts) + 1 /\ Len(drafts) \in Nat
         /\ confirmed' = confirmed => Payment!Show /\ AskInv'
<1> DEFINE n == Len(drafts) + 1
<1>1. PICK p \in {"ethereum", "zcash"} :
        \E k \in FreshKey(p), f \in IF p = "ethereum" THEN Fees ELSE {0} :
          drafts' = Append(drafts, [protocol |-> p, key |-> k, fee |-> f,
                                    stored |-> FALSE, used |-> 0,
                                    state |-> "draft"])
  BY DEF SubmitIntent
<1>2. PICK k \in FreshKey(p), f \in IF p = "ethereum" THEN Fees ELSE {0} :
        drafts' = Append(drafts, [protocol |-> p, key |-> k, fee |-> f,
                                  stored |-> FALSE, used |-> 0,
                                  state |-> "draft"])
  BY <1>1
<1>3. k \in Nat \cup Notes /\ f \in Nat
  BY TransferAssumption DEF FreshKey, NodeInv, NodeOK
<1> DEFINE new == [protocol |-> p, key |-> k, fee |-> f, stored |-> FALSE,
                   used |-> 0, state |-> "draft"]
<1>4. new \in Draft /\ new.used = 0 /\ new.state = "draft"
      /\ new.protocol = p /\ new.key = k
  BY <1>3 DEF Draft
<1> HIDE DEF new
<1>5. /\ Len(drafts) \in Nat /\ Len(drafts) < MaxDrafts /\ MaxDrafts \in Nat
      /\ drafts' \in Seq(Draft) /\ Len(drafts') = n
      /\ drafts'[n] = new /\ \A d \in Known : drafts'[d] = drafts[d]
  BY <1>2, <1>4, Records DEF SubmitIntent, NodeInv, NodeOK, Known, new
<1>6. /\ Known' = Known \cup {n} /\ n \notin Known /\ n \in Ids
      /\ Known = 1..Len(drafts)
  BY <1>5 DEF Known, Ids
<1>7. NodeOK'
  BY <1>5 DEF NodeInv, NodeOK
<1>8. Taken'
  <2>1. p = "ethereum" => k \in Nat
    BY DEF FreshKey, NodeInv, NodeOK
  <2> QED
    BY <2>1, <1>4, <1>5, <1>6 DEF NodeInv, Taken
<1>9. KeysAreNotReused'
  <2> SUFFICES ASSUME NEW d \in Known', NEW e \in Known', Clash(d, e)',
                      drafts'[d].used > 0
               PROVE  e <= drafts'[d].used
    BY DEF KeysAreNotReused
  <2>1. d # n /\ d \in Known /\ drafts'[d] = drafts[d]
    BY <1>4, <1>5, <1>6
  <2>2. CASE e = n
    <3>1. drafts[d].protocol = p /\ drafts[d].key = k
      BY <1>4, <1>5, <2>1, <2>2 DEF Clash
    <3>2. IF p = "ethereum" THEN k < next ELSE drafts[d].stored
      BY <2>1, <3>1 DEF NodeInv, Taken
    <3>3. CASE p = "ethereum"
      BY <3>2, <3>3 DEF FreshKey, NodeInv, NodeOK
    <3>4. CASE p # "ethereum"
      BY <2>1, <3>1, <3>2, <3>4 DEF FreshKey
    <3> QED
      BY <3>3, <3>4
  <2>3. CASE e # n
    <3>1. e \in Known /\ drafts'[e] = drafts[e]
      BY <1>5, <1>6, <2>3
    <3> QED
      BY <2>1, <3>1 DEF Clash, NodeInv, KeysAreNotReused
  <2> QED
    BY <2>2, <2>3
<1>10. approved' \subseteq Known'
  BY <1>5, <1>6 DEF AskInv, SubmitIntent
<1>11. Paid' = Paid
  BY <1>4, <1>5, <1>6 DEF Paid
<1>12. ASSUME confirmed' = confirmed PROVE Payment!Show /\ AskInv'
  BY <1>6, <1>10, <1>11, <1>12 DEF Payment!Show, AskInv
<1> QED
  BY <1>5, <1>6, <1>7, <1>8, <1>9, <1>10, <1>12 DEF NodeInv

\* Transactions that keep what they are, except that some are used now and
\* their keys taken.
LEMMA KeysStay ==
  ASSUME NodeInv, drafts' \in Seq(Draft), Len(drafts') = Len(drafts),
         next' \in Nat, next <= next',
         \A d \in Known :
            /\ drafts'[d].protocol = drafts[d].protocol
            /\ drafts'[d].key = drafts[d].key
            /\ drafts[d].stored => drafts'[d].stored
            /\ \/ drafts'[d].used = drafts[d].used
               \/ /\ drafts'[d].used = Len(drafts)
                  /\ IF drafts[d].protocol = "ethereum"
                     THEN drafts[d].key < next'
                     ELSE drafts'[d].stored
  PROVE  NodeInv' /\ Known' = Known
<1>1. Known' = Known /\ Len(drafts) \in Nat
  BY DEF Known, NodeInv, NodeOK
<1>2. NodeOK'
  BY DEF NodeInv, NodeOK
<1>3. Taken'
  <2> SUFFICES ASSUME NEW d \in Known, drafts'[d].used > 0
               PROVE  IF drafts'[d].protocol = "ethereum"
                      THEN drafts'[d].key < next' ELSE drafts'[d].stored
    BY <1>1 DEF Taken, NodeInv
  <2>1. CASE drafts'[d].used = drafts[d].used
    <3>1. IF drafts[d].protocol = "ethereum" THEN drafts[d].key < next
          ELSE drafts[d].stored
      BY <2>1 DEF NodeInv, Taken
    <3>2. drafts[d].protocol = "ethereum" => drafts[d].key \in Nat
      BY DEF NodeInv, Taken
    <3>3. CASE drafts[d].protocol = "ethereum"
      BY <3>1, <3>2, <3>3 DEF NodeInv, NodeOK
    <3>4. CASE drafts[d].protocol # "ethereum"
      BY <3>1, <3>4
    <3> QED
      BY <3>3, <3>4
  <2>2. CASE drafts'[d].used # drafts[d].used
    BY <2>2
  <2> QED
    BY <2>1, <2>2
<1>4. KeysAreNotReused'
  <2> SUFFICES ASSUME NEW d \in Known, NEW e \in Known, Clash(d, e)',
                      drafts'[d].used > 0
               PROVE  e <= drafts'[d].used
    BY <1>1 DEF KeysAreNotReused
  <2>1. Clash(d, e)
    BY DEF Clash
  <2>2. e <= Len(drafts)
    BY <1>1 DEF Known
  <2> QED
    BY <2>1, <2>2 DEF NodeInv, KeysAreNotReused
<1> QED
  BY <1>1, <1>2, <1>3, <1>4 DEF NodeInv

\* The wallet stores a transaction: its note is spent from now on.
LEMMA StoredStep ==
  ASSUME NodeInv, NEW d \in Known
  PROVE  /\ Stored(d) \in Seq(Draft) /\ Len(Stored(d)) = Len(drafts)
         /\ \A e \in Known \ {d} : Stored(d)[e] = drafts[e]
         /\ Stored(d)[d] \in Draft
         /\ Stored(d)[d].protocol = drafts[d].protocol
         /\ Stored(d)[d].key = drafts[d].key
         /\ Stored(d)[d].state = drafts[d].state
         /\ drafts[d].stored => Stored(d)[d].stored
         /\ drafts[d].protocol = "zcash" => Stored(d)[d].stored
         /\ \/ Stored(d)[d].used = drafts[d].used
            \/ /\ Stored(d)[d].used = Len(drafts)
               /\ drafts[d].protocol = "zcash"
<1>1. /\ drafts \in Seq(Draft) /\ Len(drafts) \in Nat /\ drafts[d] \in Draft
      /\ d \in 1..Len(drafts) /\ Known = 1..Len(drafts)
  BY DEF NodeInv, NodeOK, Known
<1>2. CASE drafts[d].protocol = "zcash" /\ ~drafts[d].stored
  <2> DEFINE u == IF drafts[d].used = 0 THEN Len(drafts) ELSE drafts[d].used
             x == [drafts[d] EXCEPT !.stored = TRUE, !.used = u]
  <2>1. Stored(d) = [drafts EXCEPT ![d] = x]
    BY <1>2 DEF Stored
  <2>2. u \in Nat /\ (u = drafts[d].used \/ u = Len(drafts))
    BY <1>1 DEF Draft
  <2> HIDE DEF u
  <2>3. /\ x \in Draft /\ x.used = u /\ x.stored
        /\ x.protocol = drafts[d].protocol /\ x.key = drafts[d].key
        /\ x.state = drafts[d].state
    BY <1>1, <2>2 DEF Draft
  <2> HIDE DEF x
  <2>4. /\ [drafts EXCEPT ![d] = x] \in Seq(Draft)
        /\ Len([drafts EXCEPT ![d] = x]) = Len(drafts)
        /\ [drafts EXCEPT ![d] = x][d] = x
        /\ \A e \in Known \ {d} : [drafts EXCEPT ![d] = x][e] = drafts[e]
    BY <1>1, <2>3
  <2> QED
    BY <1>2, <2>1, <2>2, <2>3, <2>4
<1>3. CASE ~(drafts[d].protocol = "zcash" /\ ~drafts[d].stored)
  BY <1>1, <1>3 DEF Stored
<1> QED
  BY <1>2, <1>3

\* The node has a transaction, perhaps in place of others.
LEMMA AcceptedStep ==
  ASSUME NodeInv, NEW d \in Known, Accepts(d), drafts' = Accepted(d),
         next' = IF drafts[d].protocol = "ethereum" /\ drafts[d].key = next
                 THEN next + 1 ELSE next
  PROVE  /\ NodeInv' /\ Known' = Known /\ Len(drafts') = Len(drafts)
         /\ Paid' = Paid \cup {d} /\ d \notin Paid
<1>1. /\ drafts \in Seq(Draft) /\ Len(drafts) \in Nat /\ next \in Nat
      /\ Known = 1..Len(drafts) /\ \A e \in Known : drafts[e] \in Draft
      /\ Len(drafts) \in 1..MaxDrafts
  BY Records DEF NodeInv, NodeOK, Known
<1> DEFINE s == Stored(d)[d]
           u == IF s.used = 0 THEN Len(drafts) ELSE s.used
           x == [s EXCEPT !.state = "pooled", !.used = u]
           y(e) == [drafts[e] EXCEPT !.state = "replaced"]
<1>2. /\ s \in Draft /\ s.protocol = drafts[d].protocol /\ s.key = drafts[d].key
      /\ drafts[d].stored => s.stored
      /\ drafts[d].protocol = "zcash" => s.stored
      /\ s.used = drafts[d].used \/ s.used = Len(drafts)
  BY StoredStep
<1>3. u \in Nat /\ (u = drafts[d].used \/ u = Len(drafts))
  BY <1>1, <1>2 DEF Draft
<1>4. \A e \in Known : drafts'[e] =
        IF e = d THEN x
        ELSE IF Clash(d, e) /\ drafts[e].state = "pooled" THEN y(e)
             ELSE drafts[e]
  BY DEF Accepted
<1> HIDE DEF u, s
<1>5. /\ x \in Draft /\ x.protocol = drafts[d].protocol
      /\ x.key = drafts[d].key /\ x.state = "pooled" /\ x.used = u
      /\ x.stored = s.stored
  BY <1>2, <1>3 DEF Draft
<1>6. \A e \in Known :
        /\ y(e) \in Draft /\ y(e).protocol = drafts[e].protocol
        /\ y(e).key = drafts[e].key /\ y(e).state = "replaced"
        /\ y(e).used = drafts[e].used /\ y(e).stored = drafts[e].stored
  BY <1>1 DEF Draft
<1> HIDE DEF x, y
<1>7. drafts' \in Seq(Draft) /\ Len(drafts') = Len(drafts)
  <2>1. drafts' \in [1..Len(drafts) -> Draft]
    BY <1>1, <1>4, <1>5, <1>6 DEF Accepted
  <2> QED
    BY <1>1, <2>1
<1>8. next' \in Nat /\ next <= next'
  BY <1>1
<1>9. drafts[d].protocol = "ethereum" => drafts[d].key < next'
  <2>1. drafts[d].protocol = "ethereum" =>
           drafts[d].key <= next /\ drafts[d].key \in Nat
    BY DEF Accepts, NodeInv, Taken
  <2> QED
    BY <1>1, <2>1
<1>10. drafts[d].protocol # "ethereum" => s.stored
  BY <1>1, <1>2 DEF Draft
<1>11. ASSUME NEW e \in Known
       PROVE  /\ drafts'[e].protocol = drafts[e].protocol
              /\ drafts'[e].key = drafts[e].key
              /\ drafts[e].stored => drafts'[e].stored
              /\ \/ drafts'[e].used = drafts[e].used
                 \/ /\ drafts'[e].used = Len(drafts)
                    /\ IF drafts[e].protocol = "ethereum"
                       THEN drafts[e].key < next'
                       ELSE drafts'[e].stored
  <2>1. CASE e = d
    BY <2>1, <1>2, <1>3, <1>4, <1>5, <1>9, <1>10
  <2>2. CASE e # d
    BY <2>2, <1>4, <1>6
  <2> QED
    BY <2>1, <2>2
<1>12. NodeInv' /\ Known' = Known
  BY <1>7, <1>8, <1>11, KeysStay
<1>13. Paid' = Paid \cup {d}
  BY <1>4, <1>5, <1>6, <1>12 DEF Paid
<1>14. d \notin Paid
  BY DEF Paid, Accepts
<1> QED
  BY <1>7, <1>12, <1>13, <1>14

\* A broadcast makes one payment, or none.
LEMMA BroadcastStep ==
  ASSUME NodeInv, NEW d \in Known, NEW ok \in BOOLEAN,
         BroadcastTransaction(d, ok)
  PROVE  /\ NodeInv' /\ Known' = Known /\ Len(drafts') = Len(drafts)
         /\ d \in confirmed /\ UNCHANGED confirmed => Pays
<1>1. CASE drafts' = drafts /\ UNCHANGED next
  BY <1>1 DEF NodeInv, NodeOK, Taken, KeysAreNotReused, Clash, Known, Paid, Pays
<1>2. CASE drafts' = Stored(d) /\ UNCHANGED next
  <2>1. /\ drafts' \in Seq(Draft) /\ Len(drafts') = Len(drafts)
        /\ next' \in Nat /\ next <= next'
    BY <1>2, StoredStep DEF NodeInv, NodeOK
  <2>2. /\ \A e \in Known \ {d} : drafts'[e] = drafts[e]
        /\ drafts'[d].protocol = drafts[d].protocol
        /\ drafts'[d].key = drafts[d].key
        /\ drafts'[d].state = drafts[d].state
        /\ drafts[d].stored => drafts'[d].stored
        /\ \/ drafts'[d].used = drafts[d].used
           \/ /\ drafts'[d].used = Len(drafts)
              /\ drafts[d].protocol # "ethereum" /\ drafts'[d].stored
    BY <1>2, StoredStep
  <2>3. NodeInv' /\ Known' = Known
    BY <2>1, <2>2, KeysStay
  <2>4. Paid' = Paid
    BY <2>2, <2>3 DEF Paid
  <2> QED
    BY <2>1, <2>3, <2>4 DEF Pays
<1>3. CASE /\ Accepts(d) /\ drafts' = Accepted(d)
           /\ next' = IF drafts[d].protocol = "ethereum" /\ drafts[d].key = next
                      THEN next + 1 ELSE next
  <2>1. /\ NodeInv' /\ Known' = Known /\ Len(drafts') = Len(drafts)
        /\ Paid' = Paid \cup {d} /\ d \notin Paid
    BY <1>3, AcceptedStep
  <2>2. ASSUME d \in confirmed, UNCHANGED confirmed PROVE Payment!Make
    BY <2>1, <2>2 DEF Payment!Make
  <2> QED
    BY <2>1, <2>2 DEF Pays, Payment!PNext
<1> QED
  BY <1>1, <1>2, <1>3 DEF BroadcastTransaction

\* Mining makes no payment.
LEMMA MineStep ==
  ASSUME TInv, NEW d \in Known, Mine(d)
  PROVE  TInv' /\ Pays
<1>1. /\ drafts \in Seq(Draft) /\ Len(drafts) \in Nat /\ drafts[d] \in Draft
      /\ Known = 1..Len(drafts) /\ next \in Nat
  BY DEF TInv, NodeInv, NodeOK, Known
<1> DEFINE x == [drafts[d] EXCEPT !.state = "mined"]
<1>2. /\ drafts' = [drafts EXCEPT ![d] = x] /\ drafts[d].state = "pooled"
      /\ UNCHANGED <<next, approved, offline, tui, cliVars, confirmed>>
  BY DEF Mine
<1>3. /\ x \in Draft /\ x.protocol = drafts[d].protocol /\ x.key = drafts[d].key
      /\ x.state = "mined" /\ x.used = drafts[d].used
      /\ x.stored = drafts[d].stored
  BY <1>1 DEF Draft
<1> HIDE DEF x
<1>4. /\ drafts' \in Seq(Draft) /\ Len(drafts') = Len(drafts)
      /\ drafts'[d] = x /\ \A e \in Known \ {d} : drafts'[e] = drafts[e]
  BY <1>1, <1>2, <1>3
<1>5. NodeInv' /\ Known' = Known
  <2>1. next' \in Nat /\ next <= next'
    BY <1>1, <1>2
  <2>2. \A e \in Known :
           /\ drafts'[e].protocol = drafts[e].protocol
           /\ drafts'[e].key = drafts[e].key
           /\ drafts[e].stored => drafts'[e].stored
           /\ drafts'[e].used = drafts[e].used
    BY <1>3, <1>4
  <2> QED
    BY <1>4, <2>1, <2>2, KeysStay DEF TInv
<1>6. Paid' = Paid
  BY <1>2, <1>3, <1>4, <1>5 DEF Paid
<1>7. TuiInv' /\ CliInv' /\ AskInv'
  BY <1>2, <1>4, <1>5 DEF TInv, TuiInv, CliInv, AskInv, Counted,
                          TasksConfirmed, tui, cliVars
<1> QED
  BY <1>2, <1>5, <1>6, <1>7 DEF TInv, Pays

-----------------------------------------------------------------------------
(* The clients                                                             *)

\* What is in a task.
LEMMA TaskIs ==
  ASSUME tasks \in Seq(Task), NEW t \in 1..Len(tasks)
  PROVE  /\ tasks[t] \in Task /\ tasks[t].draft \in Nat
         /\ tasks[t].outcome \in {"none", "broadcasted", "failed"}
<1>1. tasks[t] \in Task
  OBVIOUS
<1> QED
  BY <1>1, Records DEF Task

\* Neither more drafts nor more confirmations disturb a client.
LEMMA TuiSame ==
  ASSUME TuiInv, UNCHANGED <<offline, tui>>,
         Len(drafts) \in Nat, Len(drafts') \in Nat,
         Len(drafts) <= Len(drafts'), confirmed \subseteq confirmed'
  PROVE  TuiInv'
<1>1. tasks \in Seq(Task) /\ Len(tasks) \in Nat /\ slot \in 0..Len(drafts')
  BY DEF TuiInv
<1>2. \A t \in 1..Len(tasks) : tasks[t].draft \in Nat
  BY <1>1, TaskIs
<1>3. Counted'
  BY <1>1 DEF TuiInv, Counted, tui
<1>4. TasksConfirmed'
  BY <1>1, <1>2 DEF TuiInv, TasksConfirmed, tui
<1> QED
  BY <1>1, <1>3, <1>4 DEF TuiInv, tui

LEMMA CliSame ==
  ASSUME CliInv, UNCHANGED cliVars,
         Len(drafts) \in Nat, Len(drafts') \in Nat,
         Len(drafts) <= Len(drafts'), confirmed \subseteq confirmed'
  PROVE  CliInv'
<1>1. file \in 0..Len(drafts') /\ \A c \in Clis : cli[c].draft \in Nat
  BY Records DEF CliInv, Cli
<1> QED
  BY <1>1 DEF CliInv, cliVars

\* One task is at another point now.
LEMMA TaskSet ==
  ASSUME TuiInv, NEW t \in 1..Len(tasks), NEW x \in Task,
         tasks' = [tasks EXCEPT ![t] = x],
         UNCHANGED <<offline, screen, slot, channel, connected>>,
         Len(drafts) \in Nat, Len(drafts') \in Nat,
         Len(drafts) <= Len(drafts'), confirmed \subseteq confirmed',
         x.draft <= Len(drafts'),
         x.phase \in {"signing", "broadcasting"} => x.draft \in confirmed'
  PROVE  TuiInv'
<1>1. /\ tasks \in Seq(Task) /\ Len(tasks) \in Nat /\ slot \in 0..Len(drafts')
      /\ tasks' \in Seq(Task) /\ Len(tasks') = Len(tasks)
      /\ tasks'[t] = x /\ \A u \in 1..Len(tasks) \ {t} : tasks'[u] = tasks[u]
  BY DEF TuiInv
<1>2. \A u \in 1..Len(tasks) : tasks[u].draft \in Nat
  BY <1>1, TaskIs
<1>3. Counted'
  BY <1>1 DEF TuiInv, Counted
<1>4. TasksConfirmed'
  BY <1>1, <1>2 DEF TuiInv, TasksConfirmed
<1> QED
  BY <1>1, <1>3, <1>4 DEF TuiInv

\* One CLI process is at another point now.
LEMMA CliSet ==
  ASSUME CliInv, NEW c \in Clis, NEW x \in Cli,
         cli' = [cli EXCEPT ![c] = x], file' \in 0..Len(drafts'),
         Len(drafts) \in Nat, Len(drafts') \in Nat,
         Len(drafts) <= Len(drafts'), confirmed \subseteq confirmed',
         x.pc = "previewed" => x.draft <= Len(drafts'),
         x.pc \in {"loaded", "signed"} => x.draft \in confirmed'
  PROVE  CliInv'
<1>1. /\ cli' \in [Clis -> Cli] /\ cli'[c] = x
      /\ \A o \in Clis \ {c} : cli'[o] = cli[o]
  BY DEF CliInv
<1>2. \A o \in Clis : cli[o].draft \in Nat
  BY Records DEF CliInv, Cli
<1> QED
  BY <1>1, <1>2 DEF CliInv

\* The node, and the transactions, are left alone.
LEMMA NodeSame ==
  ASSUME TInv, UNCHANGED <<node, approved>>
  PROVE  /\ NodeInv' /\ Known' = Known /\ Paid' = Paid
         /\ drafts' = drafts /\ Len(drafts) \in Nat
         /\ confirmed' = confirmed => AskInv' /\ Pays
<1>1. drafts' = drafts /\ next' = next /\ Len(drafts) \in Nat
  BY DEF node, TInv, NodeInv, NodeOK
<1>2. Known' = Known /\ Paid' = Paid
  BY <1>1 DEF Known, Paid
<1>3. NodeInv'
  BY <1>1, <1>2 DEF TInv, NodeInv, NodeOK, Taken, KeysAreNotReused, Clash
<1> QED
  BY <1>1, <1>2, <1>3 DEF TInv, AskInv, Pays

\* The TUI moves by itself.
LEMMA TuiOnly ==
  ASSUME TInv, UNCHANGED <<node, approved, cliVars, confirmed>>, TuiInv'
  PROVE  TInv' /\ Pays
<1>1. /\ NodeInv' /\ drafts' = drafts /\ Len(drafts) \in Nat
      /\ AskInv' /\ Pays
  BY NodeSame
<1>2. CliInv'
  BY <1>1, CliSame DEF TInv
<1> QED
  BY <1>1, <1>2 DEF TInv

\* The CLI moves by itself.
LEMMA CliOnly ==
  ASSUME TInv, UNCHANGED <<node, approved, offline, tui, confirmed>>, CliInv'
  PROVE  TInv' /\ Pays
<1>1. /\ NodeInv' /\ drafts' = drafts /\ Len(drafts) \in Nat
      /\ AskInv' /\ Pays
  BY NodeSame
<1>2. TuiInv'
  BY <1>1, TuiSame DEF TInv
<1> QED
  BY <1>1, <1>2 DEF TInv

\* Another screen, or another step of it.
LEMMA ScreenSteps ==
  ASSUME TInv, OpenSend \/ ToggleHelp \/ Back \/ Poll
  PROVE  TInv' /\ Pays
<1>1. TuiInv /\ screen \in Screen /\ tasks \in Seq(Task) /\ 0 \in 0..MaxDrafts
  BY Records DEF TInv, TuiInv
<1>2. /\ UNCHANGED <<node, approved, offline, slot, tasks, connected, cliVars,
                     confirmed>>
      /\ channel' \in {channel, 0}
  BY DEF OpenSend, ToggleHelp, Back, Poll
<1>3. screen' \in Screen
  <2>1. CASE OpenSend
    BY <2>1, Records DEF OpenSend, Screen
  <2>2. CASE ToggleHelp
    <3>1. (~screen.help) \in BOOLEAN
      OBVIOUS
    <3>2. screen' = [screen EXCEPT !.help = ~screen.help]
      BY <2>2 DEF ToggleHelp
    <3> QED
      BY <1>1, <3>1, <3>2 DEF Screen
  <2>3. CASE Back
    <3>1. screen' = [screen EXCEPT !.step = "form"] \/ screen' = Away
      BY <2>3 DEF Back
    <3> QED
      BY <1>1, <3>1, Records DEF Screen
  <2>4. CASE Poll
    <3>1. channel \in 1..Len(tasks)
      BY <2>4, <1>1 DEF Poll, TuiInv
    <3>2. tasks[channel].outcome \in {"none", "broadcasted", "failed"}
      BY <1>1, <3>1, TaskIs
    <3>3. screen' = [screen EXCEPT !.step = "confirm",
                                   !.result = tasks[channel].outcome]
      BY <2>4 DEF Poll
    <3> QED
      BY <1>1, <3>2, <3>3 DEF Screen
  <2> QED
    BY <2>1, <2>2, <2>3, <2>4
<1>4. TuiInv'
  <2>1. drafts' = drafts
    BY <1>2 DEF node
  <2>2. channel' \in 0..Len(tasks)
    BY <1>1, <1>2 DEF TuiInv
  <2> QED
    BY <1>1, <1>2, <1>3, <2>1, <2>2 DEF TuiInv, Counted, TasksConfirmed
<1> QED
  BY <1>2, <1>4, TuiOnly

\* Enter on the form.
LEMMA ReviewStep ==
  ASSUME TInv, Review
  PROVE  TInv' /\ Pays
<1>1. /\ TuiInv /\ CliInv /\ NodeInv /\ AskInv /\ screen \in Screen
      /\ MaxDrafts \in Nat /\ 0 \in 0..MaxDrafts
  BY Records DEF TInv, TuiInv
<1>2. /\ ~offline /\ SubmitSendReview
      /\ UNCHANGED <<next, offline, channel, tasks, connected, cliVars,
                     confirmed>>
  BY DEF Review
<1>3. CASE /\ SubmitIntent /\ slot' = Len(drafts')
           /\ screen' = [screen EXCEPT !.step = "review", !.review = slot']
  <2>1. /\ NodeInv' /\ Len(drafts') = Len(drafts) + 1 /\ Len(drafts) \in Nat
        /\ Payment!Show /\ AskInv'
    BY <1>1, <1>2, <1>3, SubmitStep
  <2>2. slot' \in 0..MaxDrafts /\ slot' \in 0..Len(drafts')
    BY <1>1, <1>3, <2>1 DEF NodeInv, NodeOK
  <2>3. screen' \in Screen
    BY <1>1, <1>3, <2>2 DEF Screen
  <2>4. tasks \in Seq(Task) /\ Len(tasks) \in Nat
        /\ \A t \in 1..Len(tasks) : tasks[t].draft \in Nat
    BY <1>1, TaskIs DEF TuiInv
  <2>5. Counted' /\ TasksConfirmed'
    BY <1>1, <1>2, <1>3, <2>1, <2>4 DEF TuiInv, Counted, TasksConfirmed
  <2>6. TuiInv'
    BY <1>1, <1>2, <2>2, <2>3, <2>5 DEF TuiInv
  <2>7. CliInv'
    BY <1>1, <1>2, <2>1, CliSame
  <2> QED
    BY <2>1, <2>6, <2>7 DEF TInv, Pays, Payment!PNext
<1>4. CASE /\ screen' = [screen EXCEPT !.step = "review", !.review = 0]
           /\ UNCHANGED <<drafts, approved, slot>>
  <2>1. screen' \in Screen
    BY <1>1, <1>4 DEF Screen
  <2>2. TuiInv'
    BY <1>1, <1>2, <1>4, <2>1 DEF TuiInv, Counted, TasksConfirmed
  <2> QED
    BY <1>2, <1>4, <2>2, TuiOnly DEF node
<1> QED
  BY <1>2, <1>3, <1>4 DEF SubmitSendReview

\* A task is spawned for a draft that is confirmed, or for none yet.
LEMMA SpawnStep ==
  ASSUME TInv, NEW d \in 0..Len(drafts), NEW seen \in 0..MaxDrafts,
         NEW ph \in {"asking", "signing"}, Spawn(d, seen, ph),
         slot' = 0, UNCHANGED <<drafts, offline, connected>>,
         confirmed \subseteq confirmed', Len(tasks) < MaxDrafts,
         ph = "signing" => d \in confirmed',
         ~offline => Len(tasks) < Len(drafts)
  PROVE  TuiInv'
<1>1. /\ screen \in Screen /\ tasks \in Seq(Task) /\ Len(tasks) \in Nat
      /\ MaxDrafts \in Nat /\ Len(drafts) \in Nat /\ d \in 0..MaxDrafts
      /\ TuiInv
  BY Records DEF TInv, TuiInv, NodeInv, NodeOK
<1> DEFINE x == [draft |-> d, seen |-> seen, phase |-> ph, outcome |-> "none"]
<1>2. x \in Task /\ x.draft = d /\ x.phase = ph
  BY <1>1 DEF Task
<1>3. /\ tasks' = Append(tasks, x) /\ channel' = Len(tasks')
      /\ screen' = [screen EXCEPT !.step = "sending"]
  BY DEF Spawn
<1> HIDE DEF x
<1>4. /\ tasks' \in Seq(Task) /\ Len(tasks') = Len(tasks) + 1
      /\ tasks'[Len(tasks) + 1] = x
      /\ \A t \in 1..Len(tasks) : tasks'[t] = tasks[t]
  BY <1>1, <1>2, <1>3
<1>5. screen' \in Screen
  BY <1>1, <1>3 DEF Screen
<1>6. Counted'
  BY <1>1, <1>4 DEF Counted
<1>7. TasksConfirmed'
  <2> SUFFICES ASSUME NEW t \in 1..Len(tasks')
               PROVE  /\ tasks'[t].draft <= Len(drafts)
                      /\ tasks'[t].phase \in {"signing", "broadcasting"} =>
                            tasks'[t].draft \in confirmed'
    BY DEF TasksConfirmed
  <2>1. CASE t = Len(tasks) + 1
    BY <2>1, <1>1, <1>2, <1>4
  <2>2. CASE t # Len(tasks) + 1
    <3>1. t \in 1..Len(tasks) /\ tasks'[t] = tasks[t]
      BY <2>2, <1>1, <1>4
    <3> QED
      BY <3>1, <1>1 DEF TuiInv, TasksConfirmed
  <2> QED
    BY <2>1, <2>2
<1>8. slot' \in 0..Len(drafts') /\ channel' \in 0..Len(tasks')
      /\ Len(tasks') <= MaxDrafts
  BY <1>1, <1>3, <1>4
<1> QED
  BY <1>1, <1>4, <1>5, <1>6, <1>7, <1>8 DEF TuiInv

\* With --signer the task asks for the preview itself.
LEMMA ReviewSkippedStep ==
  ASSUME TInv, ReviewSkipped
  PROVE  TInv' /\ Pays
<1>1. /\ offline /\ Len(tasks) < MaxDrafts /\ Spawn(0, 0, "asking")
      /\ UNCHANGED <<node, approved, offline, slot, connected, cliVars,
                     confirmed>>
  BY DEF ReviewSkipped
<1>2. slot = 0 /\ drafts' = drafts /\ 0 \in 0..Len(drafts) /\ 0 \in 0..MaxDrafts
  BY <1>1, Records DEF TInv, TuiInv, Counted, NodeInv, NodeOK, node
<1>3. TuiInv'
  BY <1>1, <1>2, SpawnStep
<1> QED
  BY <1>1, <1>3, TuiOnly

\* Enter on the review: what is in the slot is confirmed.
LEMMA ConfirmStep ==
  ASSUME TInv, Confirm
  PROVE  TInv' /\ Pays
<1>1. /\ SubmitSendConfirm /\ slot' = 0
      /\ UNCHANGED <<node, approved, offline, connected, cliVars>>
  BY DEF Confirm, SubmitSendConfirm
<1>2. /\ TuiInv /\ CliInv /\ AskInv /\ screen \in Screen
      /\ NodeInv' /\ Known' = Known /\ Paid' = Paid
      /\ drafts' = drafts /\ Len(drafts) \in Nat
      /\ Len(drafts) <= MaxDrafts /\ MaxDrafts \in Nat
      /\ tasks \in Seq(Task) /\ Len(tasks) \in Nat
  BY <1>1, NodeSame, Records DEF TInv, TuiInv, NodeInv, NodeOK
<1>3. CASE slot = 0
  <2>1. /\ screen' = [screen EXCEPT !.step = "confirm", !.result = "failed"]
        /\ UNCHANGED <<tasks, channel, confirmed>>
    BY <1>1, <1>3 DEF SubmitSendConfirm
  <2>2. screen' \in Screen
    BY <1>2, <2>1 DEF Screen
  <2>3. TuiInv'
    BY <1>1, <1>2, <1>3, <2>1, <2>2 DEF TuiInv, Counted, TasksConfirmed
  <2> QED
    BY <1>1, <2>1, <2>3, TuiOnly
<1>4. CASE slot # 0
  <2>1. /\ Spawn(slot, screen.review, "signing")
        /\ confirmed' = confirmed \cup {slot}
    BY <1>1, <1>4 DEF SubmitSendConfirm
  <2>2. /\ slot \in Known /\ slot \in 0..Len(drafts)
        /\ screen.review \in 0..MaxDrafts
    BY <1>2, <1>4 DEF TuiInv, Known, Screen
  <2>3. ~offline /\ Len(tasks) < Len(drafts) /\ Len(tasks) < MaxDrafts
    BY <1>2, <1>4 DEF TuiInv, Counted
  <2>4. TuiInv'
    BY <1>1, <1>2, <2>1, <2>2, <2>3, SpawnStep
  <2>5. CliInv'
    BY <1>1, <1>2, <2>1, CliSame
  <2>6. AskInv' /\ Payment!Confirm
    BY <1>1, <1>2, <2>1, <2>2 DEF AskInv, Payment!Confirm
  <2> QED
    BY <1>2, <2>4, <2>5, <2>6 DEF TInv, Pays, Payment!PNext
<1> QED
  BY <1>3, <1>4

\* A task moves by itself.
LEMMA TaskOnly ==
  ASSUME TInv, NEW t \in 1..Len(tasks), NEW x \in Task,
         tasks' = [tasks EXCEPT ![t] = x],
         UNCHANGED <<node, approved, offline, screen, slot, channel, connected,
                     cliVars, confirmed>>,
         x.draft = tasks[t].draft,
         x.phase \in {"signing", "broadcasting"} => x.draft \in confirmed
  PROVE  TInv' /\ Pays
<1>1. /\ TuiInv /\ drafts' = drafts /\ Len(drafts) \in Nat
      /\ tasks[t].draft <= Len(drafts)
  BY DEF TInv, TuiInv, TasksConfirmed, NodeInv, NodeOK, node
<1>2. /\ Len(drafts') \in Nat /\ Len(drafts) <= Len(drafts')
      /\ confirmed \subseteq confirmed' /\ x.draft <= Len(drafts')
      /\ x.phase \in {"signing", "broadcasting"} => x.draft \in confirmed'
      /\ UNCHANGED <<offline, screen, slot, channel, connected>>
  BY <1>1
<1>3. TuiInv'
  BY <1>1, <1>2, TaskSet
<1> QED
  BY <1>3, TuiOnly

\* The task of the offline mode: the request, and the answer of the phone.
LEMMA TaskAskStep ==
  ASSUME TInv, NEW t \in 1..Len(tasks), TaskAsk(t)
  PROVE  TInv' /\ Pays
<1>1. /\ TuiInv /\ NodeInv /\ AskInv /\ CliInv /\ tasks[t] \in Task
      /\ tasks[t].phase = "asking" /\ MaxDrafts \in Nat
      /\ UNCHANGED <<next, offline, screen, slot, channel, connected, cliVars,
                     confirmed>>
  BY TaskIs, Records DEF TInv, TuiInv, TaskAsk
<1>2. CASE /\ SubmitIntent
           /\ tasks' = [tasks EXCEPT ![t].draft = Len(drafts'),
                                     ![t].seen = Len(drafts')]
  <2>1. /\ NodeInv' /\ Len(drafts') = Len(drafts) + 1 /\ Len(drafts) \in Nat
        /\ Payment!Show /\ AskInv'
    BY <1>1, <1>2, SubmitStep
  <2> DEFINE n == Len(drafts) + 1
             x == [tasks[t] EXCEPT !.draft = n, !.seen = n]
  <2>2. n \in 0..MaxDrafts
    BY <1>1, <2>1 DEF NodeInv, NodeOK
  <2>3. tasks' = [tasks EXCEPT ![t] = x]
    BY <1>2, <2>1
  <2>4. x \in Task /\ x.draft = n /\ x.phase = "asking"
    BY <1>1, <2>2 DEF Task
  <2> HIDE DEF x
  <2>5. TuiInv'
    <3>1. /\ Len(drafts') \in Nat /\ Len(drafts) <= Len(drafts')
          /\ Len(drafts) \in Nat /\ confirmed \subseteq confirmed'
          /\ UNCHANGED <<offline, screen, slot, channel, connected>>
      BY <1>1, <2>1
    <3>2. /\ x.draft <= Len(drafts')
          /\ x.phase \in {"signing", "broadcasting"} => x.draft \in confirmed'
      BY <2>1, <2>4
    <3> QED
      BY <1>1, <2>3, <2>4, <3>1, <3>2, TaskSet
  <2>6. CliInv'
    BY <1>1, <2>1, CliSame
  <2> QED
    BY <2>1, <2>5, <2>6 DEF TInv, Pays, Payment!PNext
<1>3. CASE Finish(t, "failed") /\ UNCHANGED <<drafts, approved>>
  <2> DEFINE x == [tasks[t] EXCEPT !.phase = "done", !.outcome = "failed"]
  <2>1. tasks' = [tasks EXCEPT ![t] = x]
    BY <1>3 DEF Finish
  <2>2. x \in Task /\ x.draft = tasks[t].draft /\ x.phase = "done"
    BY <1>1 DEF Task
  <2> HIDE DEF x
  <2> QED
    BY <1>1, <1>3, <2>1, <2>2, TaskOnly DEF node
<1> QED
  BY <1>2, <1>3 DEF TaskAsk

LEMMA PhoneAnswersStep ==
  ASSUME TInv, NEW t \in 1..Len(tasks), PhoneAnswers(t)
  PROVE  TInv' /\ Pays
<1>1. /\ TuiInv /\ CliInv /\ tasks[t] \in Task /\ tasks[t].draft \in Nat
      /\ tasks[t].draft # 0 /\ tasks[t].draft <= Len(drafts)
      /\ UNCHANGED <<node, approved, offline, screen, slot, channel, connected,
                     cliVars>>
  BY TaskIs DEF TInv, TuiInv, TasksConfirmed, PhoneAnswers
<1>2. CASE /\ tasks' = [tasks EXCEPT ![t].phase = "broadcasting"]
           /\ confirmed' = confirmed \cup {tasks[t].draft}
  <2> DEFINE x == [tasks[t] EXCEPT !.phase = "broadcasting"]
  <2>1. tasks' = [tasks EXCEPT ![t] = x]
    BY <1>2
  <2>2. x \in Task /\ x.draft = tasks[t].draft /\ x.phase = "broadcasting"
    BY <1>1 DEF Task
  <2> HIDE DEF x
  <2>3. /\ NodeInv' /\ Known' = Known /\ Paid' = Paid
        /\ drafts' = drafts /\ Len(drafts) \in Nat
    BY <1>1, NodeSame
  <2>4. TuiInv'
    <3>1. /\ Len(drafts') \in Nat /\ Len(drafts) <= Len(drafts')
          /\ Len(drafts) \in Nat /\ confirmed \subseteq confirmed'
          /\ UNCHANGED <<offline, screen, slot, channel, connected>>
      BY <1>1, <1>2, <2>3
    <3>2. /\ x.draft <= Len(drafts')
          /\ x.phase \in {"signing", "broadcasting"} => x.draft \in confirmed'
      BY <1>1, <1>2, <2>2, <2>3
    <3> QED
      BY <1>1, <2>1, <2>2, <3>1, <3>2, TaskSet
  <2>5. CliInv'
    BY <1>1, <1>2, <2>3, CliSame
  <2>6. tasks[t].draft \in Known
    BY <1>1, <2>3 DEF Known
  <2>7. AskInv' /\ Payment!Confirm
    BY <1>1, <1>2, <2>3, <2>6 DEF TInv, AskInv, Payment!Confirm
  <2> QED
    BY <2>3, <2>4, <2>5, <2>7 DEF TInv, Pays, Payment!PNext
<1>3. CASE Finish(t, "failed") /\ UNCHANGED confirmed
  <2> DEFINE x == [tasks[t] EXCEPT !.phase = "done", !.outcome = "failed"]
  <2>1. tasks' = [tasks EXCEPT ![t] = x]
    BY <1>3 DEF Finish
  <2>2. x \in Task /\ x.draft = tasks[t].draft /\ x.phase = "done"
    BY <1>1 DEF Task
  <2> HIDE DEF x
  <2> QED
    BY <1>1, <1>3, <2>1, <2>2, TaskOnly
<1> QED
  BY <1>2, <1>3 DEF PhoneAnswers

\* What is signed was confirmed, so what is broadcast was.
LEMMA TaskSignStep ==
  ASSUME TInv, NEW t \in 1..Len(tasks), TaskSign(t)
  PROVE  TInv' /\ Pays
<1>1. /\ tasks[t] \in Task /\ tasks[t].draft \in confirmed
      /\ UNCHANGED <<node, approved, offline, screen, slot, channel, connected,
                     cliVars, confirmed>>
  BY TaskIs DEF TInv, TuiInv, TasksConfirmed, TaskSign
<1>2. CASE tasks' = [tasks EXCEPT ![t].phase = "broadcasting"]
  <2> DEFINE x == [tasks[t] EXCEPT !.phase = "broadcasting"]
  <2>1. tasks' = [tasks EXCEPT ![t] = x]
    BY <1>2
  <2>2. x \in Task /\ x.draft = tasks[t].draft
    BY <1>1 DEF Task
  <2> HIDE DEF x
  <2> QED
    BY <1>1, <2>1, <2>2, TaskOnly
<1>3. CASE Finish(t, "failed")
  <2> DEFINE x == [tasks[t] EXCEPT !.phase = "done", !.outcome = "failed"]
  <2>1. tasks' = [tasks EXCEPT ![t] = x]
    BY <1>3 DEF Finish
  <2>2. x \in Task /\ x.draft = tasks[t].draft
    BY <1>1 DEF Task
  <2> HIDE DEF x
  <2> QED
    BY <1>1, <2>1, <2>2, TaskOnly
<1> QED
  BY <1>2, <1>3 DEF TaskSign

LEMMA TaskBroadcastStep ==
  ASSUME TInv, NEW t \in 1..Len(tasks), TaskBroadcast(t)
  PROVE  TInv' /\ Pays
<1> DEFINE d == tasks[t].draft
           x(o) == [tasks[t] EXCEPT !.phase = "done", !.outcome = o]
<1>1. /\ TuiInv /\ CliInv /\ AskInv /\ NodeInv /\ tasks[t] \in Task
      /\ d \in confirmed /\ d \in Known /\ d \in Nat /\ d <= Len(drafts)
      /\ UNCHANGED <<approved, offline, screen, slot, channel, connected,
                     cliVars, confirmed>>
  BY TaskIs DEF TInv, TuiInv, TasksConfirmed, TaskBroadcast, AskInv
<1>2. \A o \in {"broadcasted", "failed"} :
        x(o) \in Task /\ x(o).draft = d /\ x(o).phase = "done"
  BY <1>1 DEF Task
<1>3. \A o \in {"broadcasted", "failed"} :
        Finish(t, o) => tasks' = [tasks EXCEPT ![t] = x(o)]
  BY DEF Finish
<1> HIDE DEF x
<1>4. CASE ~connected /\ Finish(t, "failed") /\ UNCHANGED node
  BY <1>1, <1>2, <1>3, <1>4, TaskOnly
<1>5. ASSUME NEW ok \in BOOLEAN, BroadcastTransaction(d, ok),
             Finish(t, IF ok THEN "broadcasted" ELSE "failed")
      PROVE  TInv' /\ Pays
  <2>1. /\ NodeInv' /\ Known' = Known /\ Len(drafts') = Len(drafts) /\ Pays
    BY <1>1, <1>5, BroadcastStep
  <2>2. PICK o \in {"broadcasted", "failed"} : Finish(t, o)
    BY <1>5
  <2>3. Len(drafts) \in Nat
    BY <1>1 DEF NodeInv, NodeOK
  <2>4. TuiInv'
    BY <1>1, <1>2, <1>3, <2>1, <2>2, <2>3, TaskSet
  <2>5. CliInv' /\ AskInv'
    BY <1>1, <2>1, <2>3, CliSame DEF AskInv
  <2> QED
    BY <2>1, <2>4, <2>5 DEF TInv
<1> QED
  BY <1>4, <1>5 DEF TaskBroadcast

\* The tasks end with the TUI.
LEMMA RestartTuiStep ==
  ASSUME TInv, RestartTui
  PROVE  TInv' /\ Pays
<1>1. /\ TuiInv /\ tasks \in Seq(Task) /\ Len(tasks) \in Nat
      /\ Len(drafts) \in Nat /\ 0 \in 0..Len(drafts)
  BY DEF TInv, TuiInv, NodeInv, NodeOK
<1>2. /\ UNCHANGED <<node, approved, offline, cliVars, confirmed>>
      /\ drafts' = drafts /\ slot' = 0 /\ channel' = 0 /\ connected' = TRUE
  BY DEF RestartTui, node
<1>3. screen' \in Screen
  BY Records DEF RestartTui
<1> DEFINE x(t) == [tasks[t] EXCEPT !.phase = "gone"]
<1>4. \A t \in 1..Len(tasks) :
        /\ tasks[t] \in Task /\ x(t) \in Task
        /\ x(t).draft = tasks[t].draft /\ x(t).phase = "gone"
  <2>1. \A t \in 1..Len(tasks) : tasks[t] \in Task
    BY <1>1
  <2> QED
    BY <2>1 DEF Task
<1>5. tasks' = [t \in 1..Len(tasks) |->
                  IF tasks[t].phase = "done" THEN tasks[t] ELSE x(t)]
  BY DEF RestartTui
<1> HIDE DEF x
<1>6. tasks' \in [1..Len(tasks) -> Task]
  BY <1>4, <1>5
<1>7. tasks' \in Seq(Task) /\ Len(tasks') = Len(tasks)
  BY <1>1, <1>6
<1>8. \A t \in 1..Len(tasks) : tasks'[t].draft = tasks[t].draft
                               /\ tasks'[t].phase \in {"done", "gone"}
  BY <1>4, <1>5
<1>9. Counted' /\ TasksConfirmed'
  BY <1>1, <1>2, <1>7, <1>8 DEF TuiInv, Counted, TasksConfirmed
<1>10. TuiInv'
  BY <1>1, <1>2, <1>3, <1>7, <1>9 DEF TuiInv
<1> QED
  BY <1>2, <1>10, TuiOnly

\* The CLI.
LEMMA CliSteps ==
  ASSUME TInv, NEW c \in Clis,
         \/ SubmitTransfer(c) \/ SavePending(c) \/ LoadPending(c) \/ CliSign(c)
         \/ CliBroadcast(c) \/ RemovePending(c) \/ CliStops(c)
  PROVE  TInv' /\ Pays
<1>1. /\ TuiInv /\ CliInv /\ AskInv /\ NodeInv /\ cli[c] \in Cli
      /\ Len(drafts) \in Nat /\ Len(drafts) <= MaxDrafts /\ MaxDrafts \in Nat
      /\ file \in 0..Len(drafts) /\ NoCli \in Cli /\ NoCli.pc = "idle"
  BY Records DEF TInv, CliInv, NodeInv, NodeOK, NoCli
<1>2. CASE SubmitTransfer(c)
  <2>1. /\ SubmitIntent
        /\ cli' = [cli EXCEPT ![c] = [pc |-> "previewed", draft |-> Len(drafts')]]
        /\ UNCHANGED <<next, offline, tui, file, confirmed>>
    BY <1>2 DEF SubmitTransfer
  <2>2. /\ NodeInv' /\ Len(drafts') = Len(drafts) + 1
        /\ Payment!Show /\ AskInv'
    BY <1>1, <2>1, SubmitStep
  <2> DEFINE x == [pc |-> "previewed", draft |-> Len(drafts) + 1]
  <2>3. x \in Cli /\ x.pc = "previewed" /\ x.draft = Len(drafts')
    BY <1>1, <2>2 DEF Cli, NodeInv, NodeOK
  <2>4. cli' = [cli EXCEPT ![c] = x]
    BY <2>1, <2>2
  <2> HIDE DEF x
  <2>5. file' \in 0..Len(drafts')
    BY <1>1, <2>1, <2>2
  <2>6. CliInv'
    <3>1. /\ Len(drafts') \in Nat /\ Len(drafts) <= Len(drafts')
          /\ confirmed \subseteq confirmed' /\ file' \in 0..Len(drafts')
      BY <1>1, <2>1, <2>2, <2>5
    <3>2. /\ x.pc = "previewed" => x.draft <= Len(drafts')
          /\ x.pc \in {"loaded", "signed"} => x.draft \in confirmed'
      BY <1>1, <2>2, <2>3, <2>4
    <3>3. x \in Cli /\ cli' = [cli EXCEPT ![c] = x]
      BY <1>1, <2>2, <2>3, <2>4
    <3> QED
      BY <1>1, <3>1, <3>2, <3>3, CliSet
  <2>7. TuiInv'
    BY <1>1, <2>1, <2>2, TuiSame
  <2> QED
    BY <2>2, <2>6, <2>7 DEF TInv, Pays, Payment!PNext
<1>3. CASE SavePending(c)
  <2>1. /\ cli[c].pc = "previewed" /\ file' = cli[c].draft
        /\ cli' = [cli EXCEPT ![c] = NoCli]
        /\ UNCHANGED <<node, approved, offline, tui, confirmed>>
        /\ drafts' = drafts
    BY <1>3 DEF SavePending, Save, node
  <2>2. file' \in 0..Len(drafts')
    BY <1>1, <2>1 DEF CliInv, Cli
  <2>3. CliInv'
    <3>1. /\ Len(drafts') \in Nat /\ Len(drafts) <= Len(drafts')
          /\ confirmed \subseteq confirmed' /\ file' \in 0..Len(drafts')
      BY <1>1, <2>1, <2>2
    <3>2. /\ NoCli.pc = "previewed" => NoCli.draft <= Len(drafts')
          /\ NoCli.pc \in {"loaded", "signed"} => NoCli.draft \in confirmed'
      BY <1>1, <2>1
    <3>3. NoCli \in Cli /\ cli' = [cli EXCEPT ![c] = NoCli]
      BY <1>1, <2>1
    <3> QED
      BY <1>1, <3>1, <3>2, <3>3, CliSet
  <2> QED
    BY <2>1, <2>3, CliOnly
<1>4. CASE LoadPending(c)
  <2>1. /\ file # 0 /\ cli' = [cli EXCEPT ![c] = [pc |-> "loaded", draft |-> file]]
        /\ confirmed' = confirmed \cup {file}
        /\ UNCHANGED <<node, approved, offline, tui, file>>
    BY <1>4 DEF LoadPending
  <2>2. /\ NodeInv' /\ Known' = Known /\ Paid' = Paid /\ drafts' = drafts
    BY <2>1, NodeSame
  <2> DEFINE x == [pc |-> "loaded", draft |-> file]
  <2>3. x \in Cli /\ x.pc = "loaded" /\ x.draft = file
    BY <1>1 DEF Cli
  <2>4. cli' = [cli EXCEPT ![c] = x]
    BY <2>1
  <2> HIDE DEF x
  <2>5. CliInv'
    <3>1. /\ Len(drafts') \in Nat /\ Len(drafts) <= Len(drafts')
          /\ confirmed \subseteq confirmed' /\ file' \in 0..Len(drafts')
      BY <1>1, <2>1, <2>2
    <3>2. /\ x.pc = "previewed" => x.draft <= Len(drafts')
          /\ x.pc \in {"loaded", "signed"} => x.draft \in confirmed'
      BY <1>1, <2>1, <2>2, <2>3, <2>4
    <3>3. x \in Cli /\ cli' = [cli EXCEPT ![c] = x]
      BY <1>1, <2>1, <2>2, <2>3, <2>4
    <3> QED
      BY <1>1, <3>1, <3>2, <3>3, CliSet
  <2>6. TuiInv'
    BY <1>1, <2>1, <2>2, TuiSame
  <2>7. AskInv' /\ Payment!Confirm
    <3>1. file \in Known
      BY <1>1, <2>1 DEF Known
    <3> QED
      BY <1>1, <2>1, <2>2, <3>1 DEF AskInv, Payment!Confirm
  <2> QED
    BY <2>2, <2>5, <2>6, <2>7 DEF TInv, Pays, Payment!PNext
<1>5. CASE CliSign(c)
  <2>1. /\ cli[c].pc = "loaded" /\ cli' = [cli EXCEPT ![c].pc = "signed"]
        /\ UNCHANGED <<node, approved, offline, tui, file, confirmed>>
        /\ drafts' = drafts
    BY <1>5 DEF CliSign, node
  <2> DEFINE x == [cli[c] EXCEPT !.pc = "signed"]
  <2>2. x \in Cli /\ x.pc = "signed" /\ x.draft = cli[c].draft
    BY <1>1 DEF Cli
  <2>3. cli' = [cli EXCEPT ![c] = x]
    BY <2>1
  <2> HIDE DEF x
  <2>4. x.draft \in confirmed
    BY <1>1, <2>1, <2>2 DEF CliInv
  <2>5. CliInv'
    <3>1. /\ Len(drafts') \in Nat /\ Len(drafts) <= Len(drafts')
          /\ confirmed \subseteq confirmed' /\ file' \in 0..Len(drafts')
      BY <1>1, <2>1
    <3>2. /\ x.pc = "previewed" => x.draft <= Len(drafts')
          /\ x.pc \in {"loaded", "signed"} => x.draft \in confirmed'
      BY <2>1, <2>2, <2>3, <2>4
    <3>3. x \in Cli /\ cli' = [cli EXCEPT ![c] = x]
      BY <2>1, <2>2, <2>3, <2>4
    <3> QED
      BY <1>1, <3>1, <3>2, <3>3, CliSet
  <2> QED
    BY <2>1, <2>5, CliOnly
<1>6. CASE CliBroadcast(c)
  <2>1. PICK ok \in BOOLEAN :
          /\ BroadcastTransaction(cli[c].draft, ok)
          /\ cli' = [cli EXCEPT ![c] = IF ok THEN [cli[c] EXCEPT !.pc = "sent"]
                                       ELSE NoCli]
    BY <1>6 DEF CliBroadcast
  <2>2. /\ cli[c].pc = "signed"
        /\ UNCHANGED <<approved, offline, tui, file, confirmed>>
    BY <1>6 DEF CliBroadcast
  <2>3. cli[c].draft \in confirmed /\ cli[c].draft \in Known
    BY <1>1, <2>2 DEF CliInv, AskInv
  <2>4. /\ NodeInv' /\ Known' = Known /\ Len(drafts') = Len(drafts) /\ Pays
    BY <1>1, <2>1, <2>2, <2>3, BroadcastStep
  <2> DEFINE y == [cli[c] EXCEPT !.pc = "sent"]
  <2>5. y \in Cli /\ y.pc = "sent"
    BY <1>1 DEF Cli
  <2>6. PICK x \in Cli : /\ cli' = [cli EXCEPT ![c] = x]
                         /\ x.pc \in {"sent", "idle"}
    BY <1>1, <2>1, <2>5
  <2>7. CliInv'
    <3>1. /\ Len(drafts') \in Nat /\ Len(drafts) <= Len(drafts')
          /\ confirmed \subseteq confirmed' /\ file' \in 0..Len(drafts')
      BY <1>1, <2>2, <2>4
    <3>2. /\ x.pc = "previewed" => x.draft <= Len(drafts')
          /\ x.pc \in {"loaded", "signed"} => x.draft \in confirmed'
      BY <2>6
    <3>3. x \in Cli /\ cli' = [cli EXCEPT ![c] = x]
      BY <2>6
    <3> QED
      BY <1>1, <3>1, <3>2, <3>3, CliSet
  <2>8. TuiInv' /\ AskInv'
    BY <1>1, <2>2, <2>4, TuiSame DEF AskInv
  <2> QED
    BY <2>4, <2>7, <2>8 DEF TInv
<1>7. CASE RemovePending(c) \/ CliStops(c)
  <2>1. /\ cli' = [cli EXCEPT ![c] = NoCli] /\ file' \in {0, file}
        /\ UNCHANGED <<node, approved, offline, tui, confirmed>>
        /\ drafts' = drafts
    BY <1>7 DEF RemovePending, CliStops, node
  <2>2. file' \in 0..Len(drafts')
    BY <1>1, <2>1
  <2>3. CliInv'
    <3>1. /\ Len(drafts') \in Nat /\ Len(drafts) <= Len(drafts')
          /\ confirmed \subseteq confirmed' /\ file' \in 0..Len(drafts')
      BY <1>1, <2>1, <2>2
    <3>2. /\ NoCli.pc = "previewed" => NoCli.draft <= Len(drafts')
          /\ NoCli.pc \in {"loaded", "signed"} => NoCli.draft \in confirmed'
      BY <1>1, <2>1
    <3>3. NoCli \in Cli /\ cli' = [cli EXCEPT ![c] = NoCli]
      BY <1>1, <2>1
    <3> QED
      BY <1>1, <3>1, <3>2, <3>3, CliSet
  <2> QED
    BY <2>1, <2>3, CliOnly
<1> QED
  BY <1>2, <1>3, <1>4, <1>5, <1>6, <1>7

\* A restart of the daemons takes confirmations from nobody.
LEMMA RestartDaemonsStep ==
  ASSUME TInv, RestartDaemons
  PROVE  TInv' /\ Pays
<1>1. /\ TuiInv /\ CliInv /\ AskInv /\ NodeInv
      /\ UNCHANGED <<node, offline, screen, slot, channel, tasks, file,
                     confirmed>>
      /\ approved' = {} /\ connected' = FALSE /\ drafts' = drafts
  BY DEF TInv, RestartDaemons, node
<1>2. NodeInv' /\ Known' = Known /\ Paid' = Paid
  BY <1>1 DEF node, NodeInv, NodeOK, Taken, KeysAreNotReused, Clash, Known, Paid
<1>3. TuiInv'
  BY <1>1 DEF TuiInv, Counted, TasksConfirmed
<1>4. \A c \in Clis : cli'[c] \in {cli[c], NoCli}
  BY DEF RestartDaemons
<1>5. cli' \in [Clis -> Cli]
  BY <1>1, Records DEF RestartDaemons, CliInv
<1>6. CliInv'
  BY <1>1, <1>4, <1>5 DEF CliInv, NoCli
<1>7. AskInv' /\ Pays
  BY <1>1, <1>2 DEF AskInv, Pays
<1> QED
  BY <1>2, <1>3, <1>6, <1>7 DEF TInv

\* Every step preserves the invariant, and is a step of Payments or none.
LEMMA TStep == TInv /\ [Next]_vars => TInv' /\ [Payment!PNext]_(Payment!pvars)
<1> SUFFICES ASSUME TInv, [Next]_vars PROVE TInv' /\ Pays
  BY DEF Pays, Payment!pvars
<1>1. CASE UNCHANGED vars
  <2>1. /\ UNCHANGED <<node, approved, cliVars, confirmed>>
        /\ UNCHANGED <<offline, tui>>
    BY <1>1 DEF vars
  <2>2. Len(drafts) \in Nat /\ drafts' = drafts /\ TuiInv
    BY <2>1 DEF TInv, NodeInv, NodeOK, node
  <2>3. TuiInv'
    BY <2>1, <2>2, TuiSame
  <2> QED
    BY <2>1, <2>3, TuiOnly
<1>2. ASSUME NEW d \in Known, Mine(d) PROVE TInv' /\ Pays
  BY <1>2, MineStep
<1>3. CASE OpenSend \/ ToggleHelp \/ Back \/ Poll
  BY <1>3, ScreenSteps
<1>4. CASE Review \/ ReviewSkipped \/ Confirm
  BY <1>4, ReviewStep, ReviewSkippedStep, ConfirmStep
<1>5. ASSUME NEW t \in 1..Len(tasks),
             TaskAsk(t) \/ PhoneAnswers(t) \/ TaskSign(t) \/ TaskBroadcast(t)
      PROVE  TInv' /\ Pays
  BY <1>5, TaskAskStep, PhoneAnswersStep, TaskSignStep, TaskBroadcastStep
<1>6. ASSUME NEW c \in Clis,
             \/ SubmitTransfer(c) \/ SavePending(c) \/ LoadPending(c)
             \/ CliSign(c) \/ CliBroadcast(c) \/ RemovePending(c) \/ CliStops(c)
      PROVE  TInv' /\ Pays
  BY <1>6, CliSteps
<1>7. CASE RestartTui \/ RestartDaemons
  BY <1>7, RestartTuiStep, RestartDaemonsStep
<1> QED
  BY <1>1, <1>2, <1>3, <1>4, <1>5, <1>6, <1>7 DEF Next

LEMMA TInvariant == Spec => []TInv
<1>1. Init => TInv
  BY TInit
<1>2. TInv /\ [Next]_vars => TInv'
  BY TStep
<1> QED
  BY <1>1, <1>2, PTL DEF Spec

-----------------------------------------------------------------------------
(* Theorems                                                                *)

\* Every variable stays in its set; above all, the slot, the file and the
\* tasks name drafts that there are.
THEOREM TransferTypeCorrect == Spec => []TypeOK
<1>1. TInv => TypeOK
  BY Types
<1> QED
  BY TInvariant, <1>1, PTL

\* The nonce, or the note, of a transaction that was sent is not given to one
\* prepared later, whichever client asks and whatever restarts.
THEOREM TransferKeysAreNotReused == Spec => []KeysAreNotReused
<1>1. TInv => KeysAreNotReused
  BY DEF TInv, NodeInv
<1> QED
  BY TInvariant, <1>1, PTL

\* The send screen, the CLI and the phone together implement Payments: a
\* payment is shown, confirmed and only then made, once.
THEOREM TransferImplementsPayments == Spec => ImplementsPayments
<1>1. Init => Payment!PInit
  BY TInit
<1>2. TInv /\ [Next]_vars => [Payment!PNext]_(Payment!pvars)
  BY TStep
<1> QED
  BY <1>1, <1>2, TInvariant, PTL DEF Spec, ImplementsPayments, Payment!PSpec

-----------------------------------------------------------------------------
(* The phone, for any number of seeds, paths, requests and registrations   *)

\* A preview is of the scan result that the page keeps, and if anything is
\* displayed while it waits, it is that.
Previewing ==
    status.is = "previewing" => /\ scanned = status.of
                                /\ shown \in {0, status.of}

\* Every page but the first one needs a seed.
Seeded == page # "onboarding" => seed # None

\* What the phone's theorems rest on.
PhoneInv == /\ Previewing
            /\ Seeded
            /\ PhoneSignsWhatItShows
            /\ RegistrationCanComplete

\* Path p has its key, and its account.
HasKey(p) == keys[p] # 0
HasRow(p) == \E n \in 1..Len(rows) : rows[n].path = p

\* A registration that is being stored is fresh, and what its statements so
\* far were to write is there.
Storing ==
    job # NoJob =>
        /\ job.of # 0 /\ job.of = job.request
        /\ \A p \in Paths : /\ 2 * p < job.next => HasKey(p)
                            /\ 2 * p + 1 < job.next => HasRow(p)

\* What paypunkd's theorems rest on.
StoreInv == /\ Storing
            /\ RegisteredIsFresh
            /\ MarkerMeansComplete

\* The inductive invariant.
SInv == STypeOK /\ PhoneInv /\ StoreInv

\* The types of what the phone has, and of the rest.
PhoneType ==
    /\ seed \in OptSeed /\ session \in BOOLEAN /\ page \in Pages
    /\ status \in Status /\ scanned \in 0..Len(kind) /\ shown \in 0..Len(kind)
    /\ last \in Answer /\ signed \subseteq Number \X Number

StoreType ==
    /\ job \in Job /\ stored \in Number /\ keys \in [Paths -> Number]
    /\ rows \in Seq(Row) /\ marker \in BOOLEAN

AskType ==
    /\ kind \in Seq(Kinds) /\ Len(kind) <= MaxRequests
    /\ waiting \in 0..Len(kind) /\ qr \in 0..Len(kind)

LEMMA STypes == STypeOK <=> PhoneType /\ StoreType /\ AskType
BY DEF STypeOK, PhoneType, StoreType, AskType

\* The constants are natural numbers, and the records are of their kind.
LEMMA SRecords ==
  /\ MaxRequests \in Nat /\ PathCount \in Nat /\ 0 \in Number
  /\ Idle \in Status /\ NoAnswer \in Answer /\ NoJob \in Job
<1>1. MaxRequests \in Nat /\ PathCount \in Nat /\ 0 \in Number
  BY SignerAssumption DEF Number
<1>2. Idle \in Status
  BY <1>1 DEF Idle, Status
<1>3. NoAnswer \in Answer
  BY <1>1 DEF NoAnswer, Answer
<1>4. NoJob \in Job
  BY <1>1 DEF NoJob, Job
<1> QED
  BY <1>1, <1>2, <1>3, <1>4

LEMMA SInvInit == SInit => SInv
<1> SUFFICES ASSUME SInit PROVE SInv
  OBVIOUS
<1>1. PhoneType
  <2>1. seed \in OptSeed /\ session \in BOOLEAN /\ page \in Pages
    BY DEF SInit, OptSeed, Pages
  <2>2. status \in Status /\ last \in Answer
    BY SRecords DEF SInit
  <2>3. kind = <<>> /\ scanned = 0 /\ shown = 0 /\ signed = {}
    BY DEF SInit
  <2> QED
    BY <2>1, <2>2, <2>3 DEF PhoneType
<1>2. StoreType
  <2>1. job \in Job /\ stored \in Number
    BY SRecords DEF SInit
  <2>2. keys \in [Paths -> Number]
    BY SRecords DEF SInit
  <2>3. rows \in Seq(Row)
    BY DEF SInit
  <2>4. marker \in BOOLEAN
    BY DEF SInit
  <2> QED
    BY <2>1, <2>2, <2>3, <2>4 DEF StoreType
<1>3. AskType
  BY SRecords DEF SInit, AskType
<1>4. PhoneInv
  BY DEF SInit, PhoneInv, Previewing, Seeded, PhoneSignsWhatItShows,
         RegistrationCanComplete, Idle
<1>5. StoreInv
  BY DEF SInit, StoreInv, Storing, RegisteredIsFresh, MarkerMeansComplete
<1> QED
  BY <1>1, <1>2, <1>3, <1>4, <1>5, STypes DEF SInv

\* A step that leaves the phone alone and asks no less than before.
LEMMA PhoneSame ==
  ASSUME SInv, UNCHANGED phone, Len(kind) <= Len(kind'),
         kind \in Seq(Kinds), kind' \in Seq(Kinds)
  PROVE  PhoneType' /\ PhoneInv'
<1>1. PhoneType
  BY STypes DEF SInv
<1>2. 0..Len(kind) \subseteq 0..Len(kind')
  OBVIOUS
<1>3. PhoneType'
  BY <1>1, <1>2 DEF PhoneType, phone
<1>4. PhoneInv'
  BY DEF SInv, PhoneInv, Previewing, Seeded, PhoneSignsWhatItShows,
         RegistrationCanComplete, phone
<1> QED
  BY <1>3, <1>4

\* A step that leaves the database alone, and a registration if there is one.
LEMMA StoreSame ==
  ASSUME SInv, UNCHANGED db, job' = job \/ job' = NoJob
  PROVE  StoreType' /\ StoreInv'
<1>1. StoreType
  BY STypes DEF SInv
<1>2. StoreType'
  BY <1>1, SRecords DEF StoreType, db
<1>3. StoreInv'
  BY DEF SInv, StoreInv, Storing, RegisteredIsFresh, MarkerMeansComplete,
         HasKey, HasRow, db
<1> QED
  BY <1>2, <1>3

\* A step of the phone on its own.
LEMMA PhoneOnly ==
  ASSUME SInv, UNCHANGED <<kind, waiting, qr, job, db>>, PhoneType', PhoneInv'
  PROVE  SInv'
<1>1. AskType'
  BY STypes DEF SInv, AskType
<1>2. StoreType' /\ StoreInv'
  BY StoreSame
<1> QED
  BY <1>1, <1>2, STypes DEF SInv, STypeOK, PhoneType, StoreType, AskType

\* What paypunkd and the bridge page do while it asks.
LEMMA AskSteps ==
  ASSUME SInv,
         (\E k \in Kinds : Ask(k)) \/ AskFails \/ RestartPaypunkd \/ ReloadPage
  PROVE  SInv'
<1>1. AskType /\ MaxRequests \in Nat
  BY STypes, SRecords DEF SInv
<1>2. UNCHANGED <<phone, db>> /\ job' \in {job, NoJob}
  BY DEF Ask, AskFails, RestartPaypunkd, ReloadPage
<1>3. AskType' /\ Len(kind) <= Len(kind')
  <2>1. ASSUME NEW k \in Kinds, Ask(k) PROVE AskType' /\ Len(kind) <= Len(kind')
    <3>1. /\ Len(kind) < MaxRequests /\ kind' = Append(kind, k)
          /\ waiting' = Len(kind') /\ qr' = waiting'
      BY <2>1 DEF Ask
    <3>2. kind' \in Seq(Kinds) /\ Len(kind') = Len(kind) + 1 /\ Len(kind) \in Nat
      BY <1>1, <3>1 DEF AskType
    <3> QED
      BY <1>1, <3>1, <3>2 DEF AskType
  <2>2. CASE AskFails \/ RestartPaypunkd \/ ReloadPage
    BY <1>1, <2>2 DEF AskType, AskFails, RestartPaypunkd, ReloadPage
  <2> QED
    BY <2>1, <2>2
<1>4. kind \in Seq(Kinds) /\ kind' \in Seq(Kinds)
  BY <1>1, <1>3 DEF AskType
<1>5. PhoneType' /\ PhoneInv'
  BY <1>2, <1>3, <1>4, PhoneSame
<1>6. StoreType' /\ StoreInv'
  BY <1>2, StoreSame
<1> QED
  BY <1>3, <1>5, <1>6 DEF SInv, STypeOK, PhoneType, StoreType, AskType

\* Half of a number, as StoreRegistration counts.
LEMMA Halves ==
  \A n \in Nat : /\ n \div 2 \in Nat
                 /\ n % 2 \in {0, 1}
                 /\ n = 2 * (n \div 2) + (n % 2)
BY SMT

\* What the app does, page by page.
LEMMA PhoneSteps ==
  ASSUME SInv,
         \/ \E s \in Seeds : GenerateSeed(s)
         \/ ContinueToScan \/ DeleteSeed \/ Scan \/ Reject \/ Approve
         \/ CompleteRegistration \/ Done \/ RestartApp
  PROVE  SInv'
<1>t. PhoneType /\ AskType /\ PhoneInv /\ None \notin Seeds
  BY STypes, SignerAssumption DEF SInv
<1>n. \A n \in 0..Len(kind) : n \in Number
  BY <1>t, SRecords DEF AskType, Number
<1>p. \A s \in {"onboarding", "scan", "register", "registered", "preview",
                "result"} : s \in Pages
  BY DEF Pages
<1>1. ASSUME NEW s \in Seeds, GenerateSeed(s) PROVE SInv'
  <2>1. PhoneType'
    BY <1>1, <1>t, <1>p DEF GenerateSeed, PhoneType, OptSeed
  <2>2. PhoneInv'
    BY <1>1, <1>t DEF GenerateSeed, PhoneInv, Previewing, Seeded,
                      PhoneSignsWhatItShows, RegistrationCanComplete
  <2> QED
    BY <1>1, <2>1, <2>2, PhoneOnly DEF GenerateSeed
<1>2. ASSUME ContinueToScan PROVE SInv'
  <2>1. PhoneType'
    BY <1>2, <1>t, <1>p DEF ContinueToScan, PhoneType
  <2>2. PhoneInv'
    BY <1>2, <1>t DEF ContinueToScan, PhoneInv, Previewing, Seeded,
                      PhoneSignsWhatItShows, RegistrationCanComplete
  <2> QED
    BY <1>2, <2>1, <2>2, PhoneOnly DEF ContinueToScan
<1>3. ASSUME DeleteSeed PROVE SInv'
  <2>1. PhoneType'
    BY <1>3, <1>t, <1>p, SRecords DEF DeleteSeed, PhoneType, OptSeed
  <2>2. PhoneInv'
    BY <1>3, <1>t DEF DeleteSeed, PhoneInv, Previewing, Seeded, Idle,
                      PhoneSignsWhatItShows, RegistrationCanComplete
  <2> QED
    BY <1>3, <2>1, <2>2, PhoneOnly DEF DeleteSeed
<1>4. ASSUME Scan PROVE SInv'
  <2>1. /\ page = "scan" /\ qr # 0 /\ seed # None
        /\ UNCHANGED <<kind, waiting, qr, seed, session, signed, job, db>>
        /\ qr \in 0..Len(kind) /\ qr \in Number
    BY <1>4, <1>t, <1>n DEF Scan, PhoneInv, Seeded, AskType
  <2>2. CASE /\ status' = [is |-> "awaiting", of |-> qr]
             /\ page' = "register" /\ last' = NoAnswer
             /\ UNCHANGED <<scanned, shown>>
    <3>1. status' \in Status /\ status'.is = "awaiting"
      BY <2>1, <2>2 DEF Status
    <3>2. PhoneType'
      BY <2>1, <2>2, <3>1, <1>t, <1>p, SRecords DEF PhoneType
    <3>3. PhoneInv'
      BY <2>1, <2>2, <3>1, <1>t DEF PhoneInv, Previewing, Seeded,
                      PhoneSignsWhatItShows, RegistrationCanComplete
    <3> QED
      BY <2>1, <3>2, <3>3, PhoneOnly
  <2>3. CASE /\ status' = [is |-> "previewing", of |-> qr]
             /\ scanned' = NewResult /\ page' = "preview"
             /\ shown' = Displayed(status') /\ last' = NoAnswer
    <3>1. /\ status' \in Status /\ status'.of = qr
          /\ scanned' = qr /\ shown' \in {0, qr}
      BY <2>1, <2>3 DEF Status, NewResult, Displayed
    <3>2. scanned' \in 0..Len(kind) /\ shown' \in 0..Len(kind)
      BY <2>1, <3>1, <1>t DEF AskType
    <3>3. PhoneType'
      BY <2>1, <2>3, <3>1, <3>2, <1>t, <1>p, SRecords DEF PhoneType
    <3>4. PhoneInv'
      BY <2>1, <2>3, <3>1, <1>t DEF PhoneInv, Previewing, Seeded,
                      PhoneSignsWhatItShows, RegistrationCanComplete
    <3> QED
      BY <2>1, <3>3, <3>4, PhoneOnly
  <2>4. CASE /\ page' = "preview" /\ shown' = Displayed(status)
             /\ last' = NoAnswer /\ UNCHANGED <<status, scanned>>
    <3>1. status.is # "previewing" \/ scanned = status.of
      BY <1>t DEF PhoneInv, Previewing
    <3>2. shown' = 0 \/ (shown' = scanned /\ status.is = "previewing")
      BY <2>4, <3>1 DEF Displayed
    <3>3. shown' \in 0..Len(kind)
      BY <3>2, <1>t DEF PhoneType, AskType
    <3>4. PhoneType'
      BY <2>1, <2>4, <3>3, <1>t, <1>p, SRecords DEF PhoneType
    <3>5. PhoneInv'
      BY <2>1, <2>4, <3>1, <3>2, <1>t DEF PhoneInv, Previewing, Seeded,
                      PhoneSignsWhatItShows, RegistrationCanComplete
    <3> QED
      BY <2>1, <3>4, <3>5, PhoneOnly
  <2> QED
    BY <1>4, <2>2, <2>3, <2>4 DEF Scan
<1>5. ASSUME Reject PROVE SInv'
  <2>1. 0 \in 0..Len(kind)
    BY <1>t DEF AskType
  <2>2. PhoneType'
    BY <1>5, <2>1, <1>t, <1>p DEF Reject, PhoneType
  <2>3. PhoneInv'
    BY <1>5, <1>t DEF Reject, PhoneInv, Previewing, Seeded,
                      PhoneSignsWhatItShows, RegistrationCanComplete
  <2> QED
    BY <1>5, <2>2, <2>3, PhoneOnly DEF Reject
<1>6. ASSUME Approve PROVE SInv'
  <2>1. /\ page = "preview" /\ shown # 0 /\ status.is = "previewing"
        /\ UNCHANGED <<kind, waiting, qr, seed, session, scanned, job, db>>
    BY <1>6 DEF Approve, Approvable
  <2>2. scanned = shown /\ scanned \in Number
    BY <2>1, <1>t, <1>n DEF PhoneInv, Previewing, PhoneType
  <2>3. CASE /\ seed # None
             /\ status' = [is |-> "signed", of |-> scanned]
             /\ last' = [is |-> "signed", of |-> scanned]
             /\ signed' = signed \cup {<<scanned, shown>>}
             /\ page' = "result" /\ shown' = 0
    <3>1. status' \in Status /\ status'.is # "previewing" /\ last' \in Answer
      BY <2>2, <2>3 DEF Status, Answer
    <3>2. 0 \in 0..Len(kind) /\ signed' \subseteq Number \X Number
      BY <2>2, <2>3, <1>t DEF AskType, PhoneType
    <3>3. PhoneType'
      BY <2>1, <2>3, <3>1, <3>2, <1>t, <1>p DEF PhoneType
    <3>4. PhoneSignsWhatItShows'
      BY <2>2, <2>3, <1>t DEF PhoneInv, PhoneSignsWhatItShows
    <3>5. PhoneInv'
      BY <2>1, <2>3, <3>1, <3>4 DEF PhoneInv, Previewing, Seeded,
                                    RegistrationCanComplete
    <3> QED
      BY <2>1, <3>3, <3>5, PhoneOnly
  <2>4. CASE /\ status' = [is |-> "error", of |-> 0]
             /\ UNCHANGED <<last, signed, page, shown>>
    <3>1. status' \in Status /\ status'.is # "previewing"
      BY <2>4, SRecords DEF Status
    <3>2. PhoneType'
      BY <2>1, <2>4, <3>1, <1>t DEF PhoneType
    <3>3. PhoneInv'
      BY <2>1, <2>4, <3>1, <1>t DEF PhoneInv, Previewing, Seeded,
                      PhoneSignsWhatItShows, RegistrationCanComplete
    <3> QED
      BY <2>1, <3>2, <3>3, PhoneOnly
  <2> QED
    BY <1>6, <2>3, <2>4 DEF Approve
<1>7. ASSUME CompleteRegistration PROVE SInv'
  <2>1. [is |-> "registered", of |-> status.of] \in Answer
    BY <1>t DEF PhoneType, Status, Answer
  <2>2. PhoneType'
    BY <1>7, <2>1, <1>t, <1>p, SRecords DEF CompleteRegistration, PhoneType
  <2>3. PhoneInv'
    BY <1>7, <1>t DEF CompleteRegistration, PhoneInv, Previewing, Seeded, Idle,
                      PhoneSignsWhatItShows, RegistrationCanComplete
  <2> QED
    BY <1>7, <2>2, <2>3, PhoneOnly DEF CompleteRegistration
<1>8. ASSUME Done PROVE SInv'
  <2>1. PhoneType'
    BY <1>8, <1>t, <1>p DEF Done, PhoneType
  <2>2. PhoneInv'
    BY <1>8, <1>t DEF Done, AnswerPages, PhoneInv, Previewing, Seeded,
                      PhoneSignsWhatItShows, RegistrationCanComplete
  <2> QED
    BY <1>8, <2>1, <2>2, PhoneOnly DEF Done
<1>9. ASSUME RestartApp PROVE SInv'
  <2>1. 0 \in 0..Len(kind)
    BY <1>t DEF AskType
  <2>t. session' \in BOOLEAN
    BY <1>9 DEF RestartApp, RestoredSession
  <2>2. PhoneType'
    BY <1>9, <2>1, <2>t, <1>t, <1>p, SRecords DEF RestartApp, PhoneType
  <2>3. PhoneInv'
    BY <1>9, <1>t DEF RestartApp, PhoneInv, Previewing, Seeded, Idle,
                      PhoneSignsWhatItShows, RegistrationCanComplete
  <2> QED
    BY <1>9, <2>2, <2>3, PhoneOnly DEF RestartApp
<1> QED
  BY <1>1, <1>2, <1>3, <1>4, <1>5, <1>6, <1>7, <1>8, <1>9

\* An answer starts a registration only if it is of the request that waits.
LEMMA ScanAnswerStep ==
  ASSUME SInv, ScanAnswer
  PROVE  SInv'
<1>t. PhoneType /\ StoreType /\ AskType
  BY STypes DEF SInv
<1>1. UNCHANGED <<kind, phone, db>> /\ qr' = 0 /\ waiting' = 0
  BY DEF ScanAnswer
<1>2. AskType'
  BY <1>1, <1>t DEF AskType
<1>3. PhoneType' /\ PhoneInv'
  BY <1>1, <1>t, PhoneSame DEF AskType
<1>4. CASE job' = job
  BY <1>1, <1>2, <1>3, <1>4, StoreSame
     DEF SInv, STypeOK, PhoneType, StoreType, AskType
<1>5. CASE /\ waiting # 0 /\ FreshAnswer(last)
           /\ job' = [of |-> last.of, request |-> waiting, next |-> 0]
  <2>1. last.of = waiting /\ waiting \in Number
    BY <1>5, <1>t, SRecords DEF FreshAnswer, AskType, Number
  <2>2. job' \in Job
    BY <1>5, <2>1, SRecords DEF Job
  <2>3. StoreType'
    BY <1>1, <1>t, <2>2 DEF StoreType, db
  <2>4. Storing'
    <3>1. job'.of # 0 /\ job'.of = job'.request /\ job'.next = 0
      BY <1>5, <2>1
    <3>2. \A p \in Paths : ~(2 * p < 0) /\ ~(2 * p + 1 < 0)
      BY DEF Paths
    <3> QED
      BY <3>1, <3>2 DEF Storing
  <2>5. StoreInv'
    BY <1>1, <2>4 DEF SInv, StoreInv, RegisteredIsFresh, MarkerMeansComplete, db
  <2> QED
    BY <1>2, <1>3, <2>3, <2>5 DEF SInv, STypeOK, PhoneType, StoreType, AskType
<1> QED
  BY <1>4, <1>5 DEF ScanAnswer

\* One statement of a registration.
LEMMA StoreRegistrationStep ==
  ASSUME SInv, StoreRegistration
  PROVE  SInv'
<1>t. /\ PhoneType /\ StoreType /\ AskType /\ StoreInv /\ PathCount \in Nat
  BY STypes, SRecords DEF SInv
<1> DEFINE n == job.next
<1>1. /\ job # NoJob /\ n < Writes /\ n \in Nat
      /\ job' = [job EXCEPT !.next = n + 1]
      /\ UNCHANGED <<kind, waiting, qr, phone, marker>>
      /\ job \in Job /\ job.of # 0 /\ job.of = job.request
  BY <1>t DEF StoreRegistration, StoreType, StoreInv, Storing, Job
<1>2. AskType'
  BY <1>1, <1>t DEF AskType
<1>3. PhoneType' /\ PhoneInv'
  BY <1>1, <1>t, PhoneSame DEF AskType
<1>4. /\ job' \in Job /\ job'.of = job.of /\ job'.request = job.request
      /\ job'.next = n + 1 /\ job.of \in Number /\ job.request \in Number
  BY <1>1, <1>t DEF Job, Writes
<1>5. PICK h \in Nat : /\ h = n \div 2
                       /\ \/ n % 2 = 0 /\ n = 2 * h
                          \/ n % 2 = 1 /\ n = 2 * h + 1
  BY <1>1, Halves
<1>6. n > 1 => h \in Paths
  BY <1>1, <1>5, <1>t DEF Paths, Writes
<1>7. \A p \in Paths : /\ 2 * p < n => HasKey(p)
                       /\ 2 * p + 1 < n => HasRow(p)
  BY <1>1, <1>t DEF StoreInv, Storing
<1>8. CASE n \in {0, 1}
  <2>1. UNCHANGED <<keys, rows, marker>> /\ stored' \in {0, job.of}
    BY <1>1, <1>8 DEF StoreRegistration
  <2>2. StoreType'
    BY <2>1, <1>4, <1>t, SRecords DEF StoreType
  <2>3. \A p \in Paths : ~(2 * p < n + 1) /\ ~(2 * p + 1 < n + 1)
    BY <1>8 DEF Paths
  <2>4. StoreInv'
    BY <2>1, <2>3, <1>1, <1>4, <1>t
       DEF StoreInv, Storing, RegisteredIsFresh, MarkerMeansComplete
  <2> QED
    BY <1>2, <1>3, <2>2, <2>4 DEF SInv, STypeOK, PhoneType, StoreType, AskType
<1>9. CASE n > 1 /\ n = 2 * h
  <2>1. /\ keys' = [keys EXCEPT ![h] = job.of]
        /\ UNCHANGED <<stored, rows, marker>>
    BY <1>1, <1>5, <1>9 DEF StoreRegistration
  <2>2. StoreType'
    BY <2>1, <1>4, <1>t DEF StoreType
  <2>3. \A p \in Paths : keys'[p] = IF p = h THEN job.of ELSE keys[p]
    BY <2>1, <1>t DEF StoreType
  <2>4. \A p \in Paths : /\ 2 * p < n + 1 => keys'[p] # 0
                         /\ 2 * p + 1 < n + 1 => HasRow(p)
    BY <1>1, <1>7, <1>9, <2>3 DEF HasKey, Paths
  <2>5. Storing'
    BY <1>1, <1>4, <2>1, <2>4 DEF Storing, HasKey, HasRow
  <2>6. StoreInv'
    BY <2>1, <2>3, <2>5, <1>1, <1>t
       DEF StoreInv, RegisteredIsFresh, MarkerMeansComplete
  <2> QED
    BY <1>2, <1>3, <2>2, <2>6 DEF SInv, STypeOK, PhoneType, StoreType, AskType
<1>10. CASE n > 1 /\ n = 2 * h + 1
  <2> DEFINE row == [path |-> h, of |-> job.of, request |-> job.request]
  <2>p. n % 2 = 1 /\ n % 2 # 0 /\ n # 0 /\ n # 1 /\ n \div 2 = h
    BY <1>1, <1>5, <1>10
  <2>1. /\ rows' = Append(rows, row)
        /\ UNCHANGED <<stored, keys, marker>>
    <3>1. /\ rows' = Append(rows, [path |-> n \div 2, of |-> job.of,
                                   request |-> job.request])
          /\ UNCHANGED <<stored, keys, marker>>
      BY <2>p, <1>1 DEF StoreRegistration
    <3> QED
      BY <2>p, <3>1
  <2>2. row \in Row /\ row.path = h /\ row.of = row.request
    BY <1>1, <1>4, <1>6, <1>10 DEF Row
  <2> HIDE DEF row
  <2>3. /\ rows' \in Seq(Row) /\ Len(rows') = Len(rows) + 1 /\ Len(rows) \in Nat
        /\ rows'[Len(rows) + 1] = row
        /\ \A m \in 1..Len(rows) : rows'[m] = rows[m]
    BY <2>1, <2>2, <1>t DEF StoreType
  <2>4. StoreType'
    BY <2>1, <2>3, <1>4, <1>t DEF StoreType
  <2>5. ASSUME NEW p \in Paths
        PROVE  HasRow(p) \/ p = h => HasRow(p)'
    <3>1. CASE p = h
      BY <2>2, <2>3, <3>1 DEF HasRow
    <3>2. CASE HasRow(p)
      BY <2>3, <3>2 DEF HasRow
    <3> QED
      BY <3>1, <3>2
  <2>6. \A p \in Paths : /\ 2 * p < n + 1 => HasKey(p)
                         /\ 2 * p + 1 < n + 1 => HasRow(p)'
    BY <1>1, <1>7, <1>10, <2>5 DEF Paths
  <2>7. Storing'
    BY <1>1, <1>4, <2>1, <2>6 DEF Storing, HasKey
  <2>8. RegisteredIsFresh'
    BY <2>2, <2>3, <1>t DEF StoreInv, RegisteredIsFresh
  <2>9. MarkerMeansComplete'
    BY <2>1, <2>5, <1>t DEF StoreInv, MarkerMeansComplete, HasRow
  <2> QED
    BY <1>2, <1>3, <2>4, <2>7, <2>8, <2>9
       DEF SInv, StoreInv, STypeOK, PhoneType, StoreType, AskType
<1> QED
  BY <1>1, <1>5, <1>8, <1>9, <1>10

\* The registration is complete when the marker is written.
LEMMA MarkSteps ==
  ASSUME SInv, Mark \/ StoreFails
  PROVE  SInv'
<1>t. /\ PhoneType /\ StoreType /\ AskType /\ StoreInv /\ PathCount \in Nat
  BY STypes, SRecords DEF SInv
<1>1. UNCHANGED <<kind, waiting, qr, phone, stored, keys, rows>> /\ job' = NoJob
  BY DEF Mark, StoreFails, db
<1>2. AskType'
  BY <1>1, <1>t DEF AskType
<1>3. PhoneType' /\ PhoneInv'
  BY <1>1, <1>t, PhoneSame DEF AskType
<1>4. CASE Mark
  <2>1. StoreType'
    BY <1>1, <1>4, <1>t, SRecords DEF Mark, StoreType
  <2>2. ASSUME NEW p \in Paths PROVE HasKey(p) /\ HasRow(p)
    <3>1. job # NoJob /\ job.next = 2 * PathCount + 2
      BY <1>4 DEF Mark, Writes
    <3>2. p \in Nat /\ p <= PathCount
      BY <1>t DEF Paths
    <3>3. 2 * p < 2 * PathCount + 2 /\ 2 * p + 1 < 2 * PathCount + 2
      BY <3>2, <1>t
    <3> QED
      BY <3>1, <3>3, <1>t DEF StoreInv, Storing
  <2>3. StoreInv'
    BY <1>1, <2>2, <1>t DEF StoreInv, Storing, RegisteredIsFresh,
                            MarkerMeansComplete, HasKey, HasRow
  <2> QED
    BY <1>2, <1>3, <2>1, <2>3 DEF SInv, STypeOK, PhoneType, StoreType, AskType
<1>5. CASE StoreFails
  BY <1>1, <1>2, <1>3, <1>5, StoreSame
     DEF StoreFails, SInv, STypeOK, PhoneType, StoreType, AskType
<1> QED
  BY <1>4, <1>5

\* Every step preserves the invariant.
LEMMA SStep == SInv /\ [SNext]_svars => SInv'
<1> SUFFICES ASSUME SInv, [SNext]_svars PROVE SInv'
  OBVIOUS
<1>1. CASE UNCHANGED svars
  <2>1. UNCHANGED <<kind, waiting, qr, job, db, phone>>
    BY <1>1 DEF svars
  <2>2. kind \in Seq(Kinds) /\ Len(kind) <= Len(kind)
    BY STypes DEF SInv, AskType
  <2>3. PhoneType' /\ PhoneInv'
    BY <2>1, <2>2, PhoneSame
  <2> QED
    BY <2>1, <2>3, PhoneOnly
<1> QED
  BY <1>1, AskSteps, PhoneSteps, ScanAnswerStep, StoreRegistrationStep,
     MarkSteps DEF SNext

-----------------------------------------------------------------------------
(* Theorems                                                                *)

\* Every variable stays in its set.
THEOREM SignerTypeCorrect == SSpec => []STypeOK
<1>1. SInv => STypeOK
  BY DEF SInv
<1> QED
  BY SInvInit, SStep, <1>1, PTL DEF SSpec

\* approve_and_sign signs the transaction that the preview page displayed.
THEOREM SignerSignsWhatItShows == SSpec => []PhoneSignsWhatItShows
<1>1. SInv => PhoneSignsWhatItShows
  BY DEF SInv, PhoneInv
<1> QED
  BY SInvInit, SStep, <1>1, PTL DEF SSpec

\* complete_registration never lacks a registration or a seed.
THEOREM SignerRegistrationCanComplete == SSpec => []RegistrationCanComplete
<1>1. SInv => RegistrationCanComplete
  BY DEF SInv, PhoneInv
<1> QED
  BY SInvInit, SStep, <1>1, PTL DEF SSpec

\* register_signer stores nothing of an earlier request's answer.
THEOREM SignerRegisteredIsFresh == SSpec => []RegisteredIsFresh
<1>1. SInv => RegisteredIsFresh
  BY DEF SInv, StoreInv
<1> QED
  BY SInvInit, SStep, <1>1, PTL DEF SSpec

\* mark_initialized comes after every key and every account.
THEOREM SignerMarkerMeansComplete == SSpec => []MarkerMeansComplete
<1>1. SInv => MarkerMeansComplete
  BY DEF SInv, StoreInv
<1> QED
  BY SInvInit, SStep, <1>1, PTL DEF SSpec
=============================================================================

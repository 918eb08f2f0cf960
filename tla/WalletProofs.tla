---------------------------- MODULE WalletProofs ----------------------------
(***************************************************************************)
(* Proofs about Wallet: type correctness, that no account is stored twice, *)
(* and that accounts keep their keys, for any protocols, number of         *)
(* indexes, seeds, birthdays and clients.  The inductive invariant adds    *)
(* that an unlock only stores keys while there are no accounts; it is what *)
(* makes an interrupted unlock harmless to the accounts of a later one.    *)
(***************************************************************************)
EXTENDS Wallet, FiniteSetTheorems, TLAPS

\* An unlock that still has keys to store found no accounts.
KeysBeforeAccounts ==
    job.kind = "unlock" /\ job.next # End => accounts = <<>>

\* The birthday of a request that stores a seed is one a user gave.
GivenBirthday == job.kind = "store" => job.birthday \in Heights \cup {None}

IInv == /\ TypeOK
        /\ NoDuplicateAccounts
        /\ AccountsHaveKeys
        /\ KeysBeforeAccounts
        /\ GivenBirthday

-----------------------------------------------------------------------------
(* Facts about the values the actions compute                              *)

LEMMA JobTypes == /\ Idle \in Job
                  /\ Start \in [Protocols -> 0..(MaxIndex + 1)]
                  /\ End \in [Protocols -> 0..(MaxIndex + 1)]
                  /\ NoKeys \in [Protocols -> [Indexes -> OptSeed]]
  BY WalletAssumption DEF Idle, Job, Start, End, NoKeys, OptSeed, Birthdays

LEMMA ResolvedType == TypeOK => Resolved \subseteq Birthdays
  BY DEF TypeOK, Resolved, Birthdays

LEMMA CountType == ASSUME TypeOK, NEW p \in Protocols
                   PROVE  Count(p) \in Nat
<1>1. IsFiniteSet(1..Len(accounts))
  BY FS_Interval DEF TypeOK
<1>2. IsFiniteSet({n \in 1..Len(accounts) : accounts[n].protocol = p})
  BY <1>1, FS_Subset
<1> QED BY <1>2, FS_CardinalityType DEF Count, Rows

LEMMA PlansType == ASSUME TypeOK
                   PROVE  /\ Plans \subseteq Plan
                          /\ ZcashPlan \in Plan
<1>1. Plans \subseteq Plan
  <2>1. \A p \in Protocols, i \in Nat :
            [protocol |-> p, index |-> i, asks |-> TRUE] \in Plan
    BY DEF Plan
  <2> QED BY <2>1, CountType, WalletAssumption DEF Plans
<1>2. Count(Zcash) \in Nat
  BY CountType, WalletAssumption
<1>3. ZcashPlan \in Plan
  BY <1>2, WalletAssumption DEF ZcashPlan, Plan
<1> QED BY <1>1, <1>3

\* Create keeps the table of accounts typed, without duplicates and with keys.
LEMMA CreateKeeps ==
    ASSUME IInv, NEW p \in Protocols, NEW i \in Nat, NEW b \in Birthdays,
           Create(p, i, b), keys' = keys
    PROVE  /\ accounts' \in Seq(Account)
           /\ NoDuplicateAccounts'
           /\ AccountsHaveKeys'
<1>1. CASE accounts' = accounts
  BY <1>1 DEF IInv, TypeOK, NoDuplicateAccounts, AccountsHaveKeys
<1>2. CASE accounts' # accounts
  <2> DEFINE row == [protocol |-> p, index |-> i, seed |-> keys[p][i],
                     birthday |-> b]
  <2>1. Creatable(p, i) /\ accounts' = Append(accounts, row)
    BY <1>2 DEF Create
  <2>2. row \in Account
    <3>1. keys[p][i] \in Seeds
      BY <2>1 DEF Creatable, IInv, TypeOK, OptSeed
    <3> QED BY <2>1, <3>1 DEF Creatable, Account
  <2>3. accounts \in Seq(Account)
    BY DEF IInv, TypeOK
  <2>4. /\ accounts' \in Seq(Account)
        /\ Len(accounts') = Len(accounts) + 1
        /\ \A n \in 1..Len(accounts) : accounts'[n] = accounts[n]
        /\ accounts'[Len(accounts) + 1] = row
    BY <2>1, <2>2, <2>3
  <2>5. \A n \in 1..Len(accounts) :
           ~(accounts[n].protocol = p /\ accounts[n].index = i)
    BY <2>1 DEF Creatable, Has, Rows
  <2>6. NoDuplicateAccounts'
    <3> SUFFICES ASSUME NEW m \in 1..Len(accounts'),
                        NEW n \in 1..Len(accounts'),
                        accounts'[m].protocol = accounts'[n].protocol,
                        accounts'[m].index = accounts'[n].index
                 PROVE  m = n
      BY DEF NoDuplicateAccounts
    <3>0. Len(accounts) \in Nat
      BY <2>3
    <3>1. CASE m \in 1..Len(accounts) /\ n \in 1..Len(accounts)
      BY <3>1, <2>4 DEF IInv, NoDuplicateAccounts
    <3>2. CASE m = Len(accounts) + 1 /\ n \in 1..Len(accounts)
      BY <3>2, <2>4, <2>5
    <3>3. CASE n = Len(accounts) + 1 /\ m \in 1..Len(accounts)
      BY <3>3, <2>4, <2>5
    <3> QED BY <3>0, <3>1, <3>2, <3>3, <2>4
  <2>7. AccountsHaveKeys'
    BY <2>3, <2>4 DEF IInv, AccountsHaveKeys
  <2> QED BY <2>4, <2>6, <2>7
<1> QED BY <1>1, <1>2

\* A database created anew has nothing to keep.
LEMMA ReopenKeeps ==
    ASSUME IInv, accounts' = Reopened(accounts, <<>>),
           keys' = Reopened(keys, NoKeys), bday' = Reopened(bday, None)
    PROVE  /\ accounts' \in Seq(Account)
           /\ keys' \in [Protocols -> [Indexes -> OptSeed]]
           /\ bday' \in Heights \cup {None}
           /\ NoDuplicateAccounts'
           /\ AccountsHaveKeys'
<1>1. CASE gone
  BY <1>1, JobTypes DEF Reopened, NoDuplicateAccounts, AccountsHaveKeys
<1>2. CASE ~gone
  BY <1>2 DEF Reopened, IInv, TypeOK, NoDuplicateAccounts, AccountsHaveKeys
<1> QED BY <1>1, <1>2

-----------------------------------------------------------------------------
(* The inductive invariant                                                 *)

LEMMA InitIInv == Init => IInv
<1> SUFFICES ASSUME Init PROVE IInv
  OBVIOUS
<1>1. accounts = <<>> /\ job = Idle /\ accounts \in Seq(Account)
  BY DEF Init
<1>2. TypeOK
  BY <1>1, JobTypes DEF Init, TypeOK, OptSeed
<1>3. NoDuplicateAccounts /\ AccountsHaveKeys
  BY <1>1 DEF NoDuplicateAccounts, AccountsHaveKeys
<1>4. KeysBeforeAccounts /\ GivenBirthday
  BY <1>1 DEF KeysBeforeAccounts, GivenBirthday, Idle
<1> QED BY <1>2, <1>3, <1>4 DEF IInv

LEMMA NextIInv == IInv /\ [Next]_vars => IInv'
<1> SUFFICES ASSUME IInv, [Next]_vars
             PROVE  IInv'
  OBVIOUS
<1> USE WalletAssumption DEF db
<1>t. TypeOK
  BY DEF IInv
<1>1. ASSUME NEW s \in Seeds, NEW h \in Heights \cup {None}, StoreSeed(s, h)
      PROVE  IInv'
  <2>1. TypeOK'
    BY <1>1, <1>t, JobTypes
    DEF StoreSeed, TypeOK, OptSeed, Job, Idle, Birthdays
  <2>2. (NoDuplicateAccounts /\ AccountsHaveKeys)'
    BY <1>1 DEF StoreSeed, IInv, NoDuplicateAccounts, AccountsHaveKeys
  <2>3. \/ job' = Idle
        \/ job'.kind = "store" /\ job'.birthday = h
    BY <1>1 DEF StoreSeed, Idle
  <2>4. (KeysBeforeAccounts /\ GivenBirthday)'
    BY <2>3 DEF KeysBeforeAccounts, GivenBirthday, Idle
  <2> QED BY <2>1, <2>2, <2>4 DEF IInv
<1>2. CASE SaveBirthday
  <2>1. TypeOK'
    BY <1>2, <1>t DEF SaveBirthday, IInv, GivenBirthday, TypeOK, Job, Birthdays
  <2>2. (NoDuplicateAccounts /\ AccountsHaveKeys)'
    BY <1>2 DEF SaveBirthday, IInv, NoDuplicateAccounts, AccountsHaveKeys
  <2>3. (KeysBeforeAccounts /\ GivenBirthday)'
    BY <1>2, <1>t DEF SaveBirthday, KeysBeforeAccounts, GivenBirthday, TypeOK,
                      Job
  <2> QED BY <2>1, <2>2, <2>3 DEF IInv
<1>3. ASSUME NEW p \in Protocols, NEW i \in Picked,
             NEW h \in Heights \cup {None}, CreateAccount(p, i, h)
      PROVE  IInv'
  <2>1. PICK b \in Birthdays : Create(p, i, b)
    BY <1>3, <1>t, ResolvedType DEF CreateAccount, HandleCreate, Birthdays
  <2>2. /\ accounts' \in Seq(Account)
        /\ NoDuplicateAccounts'
        /\ AccountsHaveKeys'
    BY <1>3, <2>1, CreateKeeps DEF CreateAccount, HandleCreate
  <2>3. TypeOK'
    BY <1>3, <2>2, <1>t DEF CreateAccount, HandleCreate, TypeOK
  <2>4. (KeysBeforeAccounts /\ GivenBirthday)'
    BY <1>3 DEF CreateAccount, HandleCreate, KeysBeforeAccounts, GivenBirthday, Idle
  <2> QED BY <2>2, <2>3, <2>4 DEF IInv
<1>4. ASSUME NEW t \in Tuis, AddAccountList(t)
      PROVE  IInv'
  <2>1. TypeOK'
    BY <1>4, <1>t, PlansType DEF AddAccountList, TypeOK
  <2>2. (NoDuplicateAccounts /\ AccountsHaveKeys)'
    BY <1>4 DEF AddAccountList, IInv, NoDuplicateAccounts, AccountsHaveKeys
  <2>3. (KeysBeforeAccounts /\ GivenBirthday)'
    BY <1>4 DEF AddAccountList, KeysBeforeAccounts, GivenBirthday, Idle
  <2> QED BY <2>1, <2>2, <2>3 DEF IInv
<1>5. ASSUME NEW t \in Tuis, AddZcashAccountList(t)
      PROVE  IInv'
  <2>1. TypeOK'
    BY <1>5, <1>t, PlansType DEF AddZcashAccountList, TypeOK
  <2>2. (NoDuplicateAccounts /\ AccountsHaveKeys)'
    BY <1>5 DEF AddZcashAccountList, IInv, NoDuplicateAccounts,
                 AccountsHaveKeys
  <2>3. (KeysBeforeAccounts /\ GivenBirthday)'
    BY <1>5 DEF AddZcashAccountList, KeysBeforeAccounts, GivenBirthday, Idle
  <2> QED BY <2>1, <2>2, <2>3 DEF IInv
<1>6. ASSUME NEW t \in Tuis, AddAccountCreate(t)
      PROVE  IInv'
  <2>1. plan[t].protocol \in Protocols /\ plan[t].index \in Nat
    BY <1>6, <1>t DEF AddAccountCreate, HandleCreate, TypeOK, Plan
  <2>2. PICK b \in Birthdays : Create(plan[t].protocol, plan[t].index, b)
    BY <1>6, <1>t, ResolvedType DEF AddAccountCreate, HandleCreate, Birthdays
  <2>3. /\ accounts' \in Seq(Account)
        /\ NoDuplicateAccounts'
        /\ AccountsHaveKeys'
    BY <1>6, <2>1, <2>2, CreateKeeps DEF AddAccountCreate, HandleCreate
  <2>4. TypeOK'
    BY <1>6, <2>3, <1>t DEF AddAccountCreate, HandleCreate, TypeOK
  <2>5. (KeysBeforeAccounts /\ GivenBirthday)'
    BY <1>6 DEF AddAccountCreate, HandleCreate, KeysBeforeAccounts, GivenBirthday, Idle
  <2> QED BY <2>3, <2>4, <2>5 DEF IInv
<1>7. CASE Unlock
  <2>1. /\ accounts' \in Seq(Account)
        /\ keys' \in [Protocols -> [Indexes -> OptSeed]]
        /\ bday' \in Heights \cup {None}
        /\ NoDuplicateAccounts'
        /\ AccountsHaveKeys'
    BY <1>7, ReopenKeeps DEF Unlock
  <2>2. job' \in Job /\ (KeysBeforeAccounts /\ GivenBirthday)'
    <3>1. CASE /\ accounts' = <<>>
               /\ \E b \in IF gone THEN {Tip, None} ELSE Resolved :
                    job' = [kind |-> "unlock", seed |-> seed, birthday |-> b,
                            next |-> Start, todo |-> Protocols]
      <4>1. PICK b \in Birthdays :
                job' = [kind |-> "unlock", seed |-> seed, birthday |-> b,
                        next |-> Start, todo |-> Protocols]
        BY <3>1, <1>t, ResolvedType DEF Birthdays
      <4>2. job' \in Job
        BY <4>1, <1>t, JobTypes DEF Job, TypeOK
      <4> QED BY <3>1, <4>1, <4>2 DEF KeysBeforeAccounts, GivenBirthday
    <3>2. CASE job' = Idle
      BY <3>2, JobTypes DEF KeysBeforeAccounts, GivenBirthday, Idle
    <3>3. CASE job' = [Idle EXCEPT !.kind = "unlock"]
      BY <3>3, JobTypes DEF KeysBeforeAccounts, GivenBirthday, Idle, Job
    <3> QED BY <1>7, <3>1, <3>2, <3>3 DEF Unlock
  <2>3. TypeOK'
    BY <1>7, <1>t, <2>1, <2>2 DEF Unlock, TypeOK
  <2> QED BY <2>1, <2>2, <2>3 DEF IInv
<1>8. ASSUME NEW p \in Protocols, SaveKey(p)
      PROVE  IInv'
  <2>1. accounts = <<>>
    BY <1>8 DEF SaveKey, IInv, KeysBeforeAccounts, End, Indexes
  <2>2. job.next[p] + 1 \in 0..(MaxIndex + 1)
    BY <1>8 DEF SaveKey, Indexes
  <2>3. job' \in Job /\ job'.kind = "unlock"
    BY <1>8, <1>t, <2>2 DEF SaveKey, TypeOK, Job
  <2>4. job.seed \in OptSeed
    BY <1>t DEF TypeOK, Job
  <2>5. keys' \in [Protocols -> [Indexes -> OptSeed]]
    BY <1>8, <1>t, <2>4 DEF SaveKey, TypeOK
  <2>6. TypeOK'
    BY <1>8, <1>t, <2>3, <2>5 DEF SaveKey, TypeOK
  <2>7. accounts' = <<>>
    BY <1>8, <2>1 DEF SaveKey
  <2> QED BY <2>3, <2>6, <2>7
          DEF IInv, NoDuplicateAccounts, AccountsHaveKeys, KeysBeforeAccounts,
              GivenBirthday
<1>9. ASSUME NEW p \in Protocols, FirstAccount(p)
      PROVE  IInv'
  <2>1. job.birthday \in Birthdays
    BY <1>t DEF TypeOK, Job
  <2>2. /\ accounts' \in Seq(Account)
        /\ NoDuplicateAccounts'
        /\ AccountsHaveKeys'
    BY <1>9, <2>1, CreateKeeps DEF FirstAccount
  <2>3. job' \in Job /\ job'.kind = "unlock" /\ job'.next = End
    BY <1>9, <1>t DEF FirstAccount, TypeOK, Job
  <2>4. TypeOK'
    BY <1>9, <1>t, <2>2, <2>3 DEF FirstAccount, TypeOK
  <2> QED BY <2>2, <2>3, <2>4 DEF IInv, KeysBeforeAccounts, GivenBirthday
<1>10. CASE Mark
  <2>1. TypeOK'
    BY <1>10, <1>t, JobTypes DEF Mark, TypeOK, Job
  <2>2. (NoDuplicateAccounts /\ AccountsHaveKeys)'
    BY <1>10 DEF Mark, IInv, NoDuplicateAccounts, AccountsHaveKeys
  <2>3. (KeysBeforeAccounts /\ GivenBirthday)'
    BY <1>10 DEF Mark, KeysBeforeAccounts, GivenBirthday, Idle
  <2> QED BY <2>1, <2>2, <2>3 DEF IInv
<1>11. CASE Restart
  <2>1. /\ accounts' \in Seq(Account)
        /\ keys' \in [Protocols -> [Indexes -> OptSeed]]
        /\ bday' \in Heights \cup {None}
        /\ NoDuplicateAccounts'
        /\ AccountsHaveKeys'
    BY <1>11, ReopenKeeps DEF Restart
  <2>2. TypeOK'
    BY <1>11, <1>t, <2>1, JobTypes DEF Restart, TypeOK
  <2>3. (KeysBeforeAccounts /\ GivenBirthday)'
    BY <1>11 DEF Restart, KeysBeforeAccounts, GivenBirthday, Idle
  <2> QED BY <2>1, <2>2, <2>3 DEF IInv
<1>12. CASE Reset
  <2>1. TypeOK'
    BY <1>12, <1>t DEF Reset, TypeOK, OptSeed
  <2> QED BY <1>12, <2>1
          DEF Reset, IInv, NoDuplicateAccounts, AccountsHaveKeys,
              KeysBeforeAccounts, GivenBirthday
<1>13. CASE UNCHANGED vars
  BY <1>13 DEF vars, IInv, TypeOK, NoDuplicateAccounts, AccountsHaveKeys,
               KeysBeforeAccounts, GivenBirthday
<1> QED
  BY <1>1, <1>2, <1>3, <1>4, <1>5, <1>6, <1>7, <1>8, <1>9, <1>10, <1>11, <1>12,
     <1>13
  DEF Next, GenerateSeed, RestoreSeed

LEMMA WalletIInv == Spec => []IInv
  BY InitIInv, NextIInv, PTL DEF Spec

-----------------------------------------------------------------------------
(* The numbering of accounts, when TUIs are the only clients               *)

\* The rows of a protocol are counted, and one more row adds one to its own.
LEMMA RowsFinite == ASSUME TypeOK, NEW p \in Protocols
                    PROVE  IsFiniteSet(Rows(p)) /\ Count(p) = Cardinality(Rows(p))
<1>1. IsFiniteSet(1..Len(accounts))
  BY FS_Interval DEF TypeOK
<1> QED BY <1>1, FS_Subset DEF Rows, Count

LEMMA CountAppended ==
    ASSUME TypeOK, NEW row \in Account, accounts' = Append(accounts, row),
           NEW q \in Protocols
    PROVE  /\ Count(q)' = IF q = row.protocol THEN Count(q) + 1 ELSE Count(q)
           /\ \A j \in Nat : Has(q, j)' <=> \/ Has(q, j)
                                            \/ q = row.protocol /\ j = row.index
<1> DEFINE l == Len(accounts)
<1>1. /\ accounts \in Seq(Account) /\ l \in Nat
      /\ Len(accounts') = l + 1 /\ accounts'[l + 1] = row
      /\ \A n \in 1..l : accounts'[n] = accounts[n]
  BY DEF TypeOK
<1>2. Rows(q)' = IF q = row.protocol THEN Rows(q) \cup {l + 1} ELSE Rows(q)
  BY <1>1 DEF Rows
<1>3. l + 1 \notin Rows(q)
  BY <1>1 DEF Rows
<1>4. Count(q)' = Cardinality(Rows(q)')
  BY DEF Count, Rows
<1>5. Count(q)' = IF q = row.protocol THEN Count(q) + 1 ELSE Count(q)
  <2>1. IsFiniteSet(Rows(q)) /\ Count(q) = Cardinality(Rows(q))
    BY RowsFinite
  <2>2. Cardinality(Rows(q) \cup {l + 1}) = Cardinality(Rows(q)) + 1
    BY <2>1, <1>3, FS_AddElement
  <2> QED BY <1>2, <1>4, <2>1, <2>2
<1>6. \A j \in Nat : Has(q, j)' <=> \/ Has(q, j)
                                    \/ q = row.protocol /\ j = row.index
  BY <1>1 DEF Has, Rows
<1> QED BY <1>5, <1>6

\* The accounts of a protocol are numbered from 0 to their count.
Numbered == \A p \in Protocols : \A i \in Nat : Has(p, i) <=> i < Count(p)

\* No TUI has planned an account beyond the next one.
PlansNotAhead ==
    \A t \in Tuis :
        plan[t] # NoPlan => plan[t].index <= Count(plan[t].protocol)

NInv == IInv /\ ~gone /\ Numbered /\ PlansNotAhead

\* How the proofs below conclude that no plan is ahead after a step.
LEMMA PlansStayBehind ==
    ASSUME \A u \in Tuis : plan'[u] # NoPlan =>
              \E p \in Protocols : /\ plan'[u].protocol = p
                                   /\ plan'[u].index <= Count(p)'
    PROVE  PlansNotAhead'
  BY DEF PlansNotAhead, Count, Rows

\* A row at an index that is not beyond the next one is the next one.
LEMMA CreateNumbers ==
    ASSUME NInv, NEW p \in Protocols, NEW i \in Nat, NEW b \in Birthdays,
           Create(p, i, b), i <= Count(p)
    PROVE  /\ Numbered'
           /\ \A q \in Protocols : Count(q) <= Count(q)' /\ Count(q)' \in Nat
<1>t. TypeOK
  BY DEF NInv, IInv
<1>0. \A q \in Protocols : Count(q) \in Nat
  BY <1>t, CountType
<1>1. CASE accounts' = accounts
  <2>1. \A q \in Protocols : /\ Count(q)' = Count(q)
                             /\ \A j \in Nat : Has(q, j)' <=> Has(q, j)
    BY <1>1 DEF Count, Has, Rows
  <2> QED BY <1>0, <2>1 DEF NInv, Numbered
<1>2. CASE accounts' # accounts
  <2> DEFINE row == [protocol |-> p, index |-> i, seed |-> keys[p][i],
                     birthday |-> b]
  <2>1. Creatable(p, i) /\ accounts' = Append(accounts, row)
    BY <1>2 DEF Create
  <2>2. row \in Account
    <3>1. keys[p][i] \in Seeds
      BY <1>t, <2>1 DEF Creatable, TypeOK, OptSeed
    <3> QED BY <2>1, <3>1 DEF Creatable, Account
  <2>3. i = Count(p)
    BY <1>0, <2>1 DEF Creatable, NInv, Numbered
  <2>4. \A q \in Protocols :
          /\ Count(q)' = IF q = p THEN Count(q) + 1 ELSE Count(q)
          /\ \A j \in Nat : Has(q, j)' <=> Has(q, j) \/ (q = p /\ j = i)
    BY <1>t, <2>1, <2>2, CountAppended
  <2>5. Numbered'
    <3> SUFFICES ASSUME NEW q \in Protocols, NEW j \in Nat
                 PROVE  Has(q, j)' <=> j < Count(q)'
      BY DEF Numbered
    <3>1. Has(q, j) <=> j < Count(q)
      BY DEF NInv, Numbered
    <3> QED BY <1>0, <2>3, <2>4, <3>1
  <2> QED BY <1>0, <2>4, <2>5
<1> QED BY <1>1, <1>2

\* What leaves the accounts alone leaves their numbering alone.
LEMMA SameAccountsNumber ==
    ASSUME NInv, accounts' = accounts
    PROVE  /\ Numbered'
           /\ \A q \in Protocols : Count(q)' = Count(q) /\ Count(q) \in Nat
<1>1. \A q \in Protocols : /\ Count(q)' = Count(q)
                           /\ \A j \in Nat : Has(q, j)' <=> Has(q, j)
  BY DEF Count, Has, Rows
<1> QED BY <1>1, CountType DEF NInv, IInv, Numbered

\* A TUI plans the next account.
LEMMA PlansAreNext ==
    ASSUME NInv
    PROVE  \A x \in Plans \cup {ZcashPlan} :
              x.protocol \in Protocols /\ x.index = Count(x.protocol)
<1>1. \A p \in Protocols : Count(p) \in Nat
  BY CountType DEF NInv, IInv
<1>2. ZcashPlan.protocol = Zcash /\ ZcashPlan.index = Count(Zcash)
  BY DEF ZcashPlan
<1>3. ASSUME NEW x \in Plans
      PROVE  x.protocol \in Protocols /\ x.index = Count(x.protocol)
  <2> DEFINE used == {p \in Protocols : Count(p) > 0}
  <2>1. CASE used = {}
    <3>1. x = [protocol |-> Ethereum, index |-> 0, asks |-> TRUE]
      BY <2>1, <1>3 DEF Plans
    <3>2. Count(Ethereum) = 0
      BY <1>1, <2>1, WalletAssumption
    <3> QED BY <3>1, <3>2, WalletAssumption
  <2>2. CASE used # {}
    BY <2>2, <1>3 DEF Plans
  <2> QED BY <2>1, <2>2
<1> QED BY <1>2, <1>3, WalletAssumption

LEMMA InitNInv == Init => NInv
<1> SUFFICES ASSUME Init PROVE NInv
  OBVIOUS
<1>1. IInv /\ ~gone
  BY InitIInv DEF Init
<1>2. ASSUME NEW p \in Protocols
      PROVE  Count(p) = 0 /\ \A i \in Nat : ~Has(p, i)
  <2>1. \A n : n \notin 1..Len(accounts)
    BY DEF Init
  <2>2. Rows(p) = {}
    BY <2>1 DEF Rows
  <2>3. Count(p) = 0
    BY <1>1, <2>2, RowsFinite, FS_EmptySet DEF IInv
  <2> QED BY <2>1, <2>3 DEF Has, Rows
<1>3. Numbered
  BY <1>2 DEF Numbered
<1>4. PlansNotAhead
  BY DEF Init, PlansNotAhead
<1> QED BY <1>1, <1>3, <1>4 DEF NInv

LEMMA NextNInv ==
    ASSUME Picked = {}, ~Resettable, NInv, [Next]_vars
    PROVE  NInv'
<1> USE WalletAssumption DEF db
<1>i. IInv'
  BY NextIInv DEF NInv
<1>t. TypeOK
  BY DEF NInv, IInv
<1>g. ~gone
  BY DEF NInv
<1>p. PlansNotAhead
  BY DEF NInv
\* The actions that touch neither the accounts nor a plan.
<1>s. ASSUME accounts' = accounts, plan' = plan, gone' = gone
      PROVE  NInv'
  <2>1. Numbered' /\ \A q \in Protocols : Count(q)' = Count(q)
    BY <1>s, SameAccountsNumber
  <2>2. PlansNotAhead'
    <3> SUFFICES ASSUME NEW t \in Tuis, plan[t] # NoPlan
                 PROVE  \E p \in Protocols : /\ plan[t].protocol = p
                                             /\ plan[t].index <= Count(p)'
      BY <1>s, PlansStayBehind
    <3>1. plan[t].protocol \in Protocols
      BY <1>t DEF TypeOK, Plan
    <3> QED BY <1>p, <2>1, <3>1 DEF PlansNotAhead
  <2> QED BY <1>i, <1>s, <1>g, <2>1, <2>2 DEF NInv
<1>1. ASSUME NEW s \in Seeds, NEW h \in Heights \cup {None}, StoreSeed(s, h)
      PROVE  NInv'
  BY <1>1, <1>s DEF StoreSeed
<1>2. CASE SaveBirthday
  BY <1>2, <1>s DEF SaveBirthday
<1>4. ASSUME NEW t \in Tuis, NEW x \in Plans \cup {ZcashPlan},
             plan' = [plan EXCEPT ![t] = x], accounts' = accounts, gone' = gone
      PROVE  NInv'
  <2>1. /\ Numbered'
        /\ \A q \in Protocols : Count(q)' = Count(q) /\ Count(q) \in Nat
    BY <1>4, SameAccountsNumber
  <2>2. x.protocol \in Protocols /\ x.index = Count(x.protocol)
    BY PlansAreNext
  <2>3. PlansNotAhead'
    <3> SUFFICES ASSUME NEW u \in Tuis, plan'[u] # NoPlan
                 PROVE  \E p \in Protocols : /\ plan'[u].protocol = p
                                             /\ plan'[u].index <= Count(p)'
      BY PlansStayBehind
    <3>1. CASE u = t
      <4>1. plan'[u] = x
        BY <3>1, <1>4, <1>t DEF TypeOK
      <4> QED BY <4>1, <2>1, <2>2
    <3>2. CASE u # t
      <4>1. plan'[u] = plan[u]
        BY <3>2, <1>4, <1>t DEF TypeOK
      <4>2. plan[u].protocol \in Protocols
        BY <4>1, <1>t DEF TypeOK, Plan
      <4> QED BY <4>1, <4>2, <1>p, <2>1 DEF PlansNotAhead
    <3> QED BY <3>1, <3>2
  <2> QED BY <1>i, <1>4, <1>g, <2>1, <2>3 DEF NInv
<1>6. ASSUME NEW t \in Tuis, AddAccountCreate(t)
      PROVE  NInv'
  <2>1. plan[t].protocol \in Protocols /\ plan[t].index \in Nat
    BY <1>6, <1>t DEF AddAccountCreate, HandleCreate, TypeOK, Plan
  <2>2. PICK b \in Birthdays : Create(plan[t].protocol, plan[t].index, b)
    BY <1>6, <1>t, ResolvedType DEF AddAccountCreate, HandleCreate, Birthdays
  <2>3. plan[t].index <= Count(plan[t].protocol)
    BY <1>6, <1>p DEF AddAccountCreate, HandleCreate, PlansNotAhead
  <2>4. /\ Numbered'
        /\ \A q \in Protocols : Count(q) <= Count(q)' /\ Count(q)' \in Nat
    BY <2>1, <2>2, <2>3, CreateNumbers
  <2>5. PlansNotAhead'
    <3> SUFFICES ASSUME NEW u \in Tuis, plan'[u] # NoPlan
                 PROVE  \E p \in Protocols : /\ plan'[u].protocol = p
                                             /\ plan'[u].index <= Count(p)'
      BY PlansStayBehind
    <3>1. plan'[u] = plan[u]
      BY <1>6, <1>t DEF AddAccountCreate, HandleCreate, TypeOK
    <3>2. plan[u].protocol \in Protocols /\ plan[u].index \in Nat
      BY <3>1, <1>t DEF TypeOK, Plan
    <3>3. plan[u].index <= Count(plan[u].protocol)
      BY <3>1, <1>p DEF PlansNotAhead
    <3>4. Count(plan[u].protocol) \in Nat
      BY <3>2, <1>t, CountType
    <3> QED BY <3>1, <3>2, <3>3, <3>4, <2>4
  <2>6. gone' = gone
    BY <1>6 DEF AddAccountCreate, HandleCreate
  <2> QED BY <1>i, <1>g, <2>4, <2>5, <2>6 DEF NInv
<1>7. CASE Unlock
  <2>1. accounts' = accounts /\ plan' = plan /\ gone' = gone
    BY <1>7, <1>g, <1>t DEF Unlock, Reopened, TypeOK
  <2> QED BY <2>1, <1>s
<1>8. ASSUME NEW p \in Protocols, SaveKey(p)
      PROVE  NInv'
  BY <1>8, <1>s DEF SaveKey
<1>9. ASSUME NEW p \in Protocols, FirstAccount(p)
      PROVE  NInv'
  <2>1. job.birthday \in Birthdays /\ Create(p, 0, job.birthday)
    BY <1>9, <1>t DEF FirstAccount, TypeOK, Job
  <2>2. \A q \in Protocols : Count(q) \in Nat
    BY <1>t, CountType
  <2>3. /\ Numbered'
        /\ \A q \in Protocols : Count(q) <= Count(q)' /\ Count(q)' \in Nat
    BY <1>9, <2>1, <2>2, CreateNumbers
  <2>4. PlansNotAhead'
    <3> SUFFICES ASSUME NEW u \in Tuis, plan[u] # NoPlan
                 PROVE  \E q \in Protocols : /\ plan[u].protocol = q
                                             /\ plan[u].index <= Count(q)'
      BY <1>9, PlansStayBehind DEF FirstAccount
    <3>1. plan[u].protocol \in Protocols /\ plan[u].index \in Nat
      BY <1>t DEF TypeOK, Plan
    <3>2. plan[u].index <= Count(plan[u].protocol)
      BY <1>p DEF PlansNotAhead
    <3> QED BY <3>1, <3>2, <2>2, <2>3
  <2>5. gone' = gone
    BY <1>9 DEF FirstAccount
  <2> QED BY <1>i, <1>g, <2>3, <2>4, <2>5 DEF NInv
<1>10. CASE Mark
  BY <1>10, <1>s DEF Mark
<1>11. CASE Restart
  <2>1. /\ accounts' = accounts /\ gone' = FALSE
        /\ \A t \in Tuis : plan'[t] = NoPlan
    BY <1>11, <1>g DEF Restart, Reopened
  <2>2. Numbered'
    BY <2>1, SameAccountsNumber
  <2>3. PlansNotAhead'
    BY <2>1 DEF PlansNotAhead
  <2> QED BY <1>i, <2>1, <2>2, <2>3 DEF NInv
<1>12. CASE UNCHANGED vars
  BY <1>12, <1>s DEF vars
<1>13. ASSUME NEW t \in Tuis, AddAccountList(t) \/ AddZcashAccountList(t)
      PROVE  NInv'
  BY <1>13, <1>4 DEF AddAccountList, AddZcashAccountList
<1> QED
  BY <1>1, <1>2, <1>6, <1>7, <1>8, <1>9, <1>10, <1>11, <1>12, <1>13
  DEF Next, GenerateSeed, RestoreSeed, Reset

-----------------------------------------------------------------------------
(* Theorems                                                                *)

\* The variables of paypunkd's accounts database stay in their sets.
THEOREM WalletTypeCorrect == Spec => []TypeOK
  BY WalletIInv, PTL DEF IInv

\* Creating accounts, unlocking, restarts and resets never store one account
\* twice.
THEOREM WalletNoDuplicateAccounts == Spec => []NoDuplicateAccounts
  BY WalletIInv, PTL DEF IInv

\* Every account's viewing key stays the one in pre_derived_keys, whatever
\* seed replaces the stored one and wherever an unlock was interrupted.
THEOREM WalletAccountsHaveKeys == Spec => []AccountsHaveKeys
  BY WalletIInv, PTL DEF IInv

\* When all accounts come from unlocks and from TUIs, and nobody resets the
\* wallet under a running paypunkd, the index that a TUI computes is free:
\* however TUIs interleave and wherever an unlock or a write failed.
THEOREM WalletNextIndexIsFree ==
    ASSUME Picked = {}, ~Resettable
    PROVE  Spec => []NextIndexIsFree
<1>1. NInv => NextIndexIsFree
  <2> SUFFICES ASSUME NInv, NEW x \in Plans \cup {ZcashPlan}
               PROVE  ~Has(x.protocol, x.index)
    BY DEF NextIndexIsFree
  <2>1. x.protocol \in Protocols /\ x.index = Count(x.protocol)
    BY PlansAreNext
  <2>2. Count(x.protocol) \in Nat
    BY <2>1, CountType DEF NInv, IInv
  <2> QED BY <2>1, <2>2 DEF NInv, Numbered
<1>2. NInv /\ [Next]_vars => NInv'
  BY NextNInv
<1> QED BY <1>1, <1>2, InitNInv, PTL DEF Spec
=============================================================================

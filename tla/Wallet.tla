------------------------------- MODULE Wallet -------------------------------
(***************************************************************************)
(* The accounts database of paypunkd together with the two things it must  *)
(* agree with: the seed that keypunkd stores and the marker file that      *)
(* HasSeed reads.                                                          *)
(*                                                                         *)
(* paypunkd is one actor, so requests do not interleave; but a request is  *)
(* a series of durable writes, each committed by itself, and the process   *)
(* can die after any of them.  `job` is what the request in progress still *)
(* has to write.  A write can fail, and does when `paypunk reset` removed  *)
(* the files under the open connection; most failures are only logged.     *)
(*                                                                         *)
(* A viewing key is known by the seed it was derived from.  The height     *)
(* that auto_birthday fetches is Tip, and a birthday of 0 is None.  Left   *)
(* out: passwords (a wrong one changes nothing), addresses and names, the  *)
(* registration with the scanner (ZcashSync.tla), and the offline signer's *)
(* RegisterSigner, which keypunkd refuses (Signer.tla).                    *)
(***************************************************************************)
EXTENDS Naturals, Sequences, FiniteSets

CONSTANTS Protocols, Ethereum, Zcash,
          MaxIndex,   \* last account index that unlock derives (29)
          Picked,     \* account indexes that CLI users ask for
          Tuis,       \* TUI processes
          Seeds,
          Heights,    \* birthdays that users give
          Tip,        \* the height auto_birthday fetches
          WritesFail, \* TRUE if a write can fail with its file in place
          Resettable, \* TRUE if `paypunk reset` can be run
          None

Indexes == 0..MaxIndex
OptSeed == Seeds \cup {None}
Birthdays == Heights \cup {Tip, None}
Account == [protocol : Protocols, index : Indexes, seed : Seeds,
            birthday : Birthdays]

ASSUME WalletAssumption == /\ {Ethereum, Zcash} \subseteq Protocols
                           /\ MaxIndex \in Nat
                           /\ Picked \subseteq Nat
                           /\ {WritesFail, Resettable} \subseteq BOOLEAN
                           /\ None \notin Seeds \cup Heights \cup {Tip}
                           /\ Tip \notin Heights

VARIABLES seed,     \* the seed in keypunkd's store, or None
          marker,   \* .wallet_initialized exists
          bday,     \* birthday_height of the settings table, or None
          keys,     \* pre_derived_keys: the seed of each key, or None
          accounts, \* rows of the accounts table
          gone,     \* the database file was deleted under the connection
          job,      \* what the request in progress still has to do
          plan      \* the account that a TUI decided to create, if any

db == <<bday, keys, accounts, gone>>
vars == <<seed, marker, db, job, plan>>

Start == [p \in Protocols |-> 0]

\* The client of unlock asks for the first paths of every protocol there is.
End == [p \in Protocols |-> MaxIndex + 1]
Job == [kind : {"idle", "store", "unlock"}, seed : OptSeed,
        birthday : Birthdays, next : [Protocols -> 0..(MaxIndex + 1)],
        todo : SUBSET Protocols]
Idle == [kind |-> "idle", seed |-> None, birthday |-> None, next |-> End,
         todo |-> {}]
NoKeys == [p \in Protocols |-> [i \in Indexes |-> None]]
Plan == [protocol : Protocols, index : Nat, asks : BOOLEAN]
NoPlan == [protocol |-> None, index |-> 0, asks |-> FALSE]

Init == /\ seed = None
        /\ marker = FALSE
        /\ bday = None
        /\ keys = NoKeys
        /\ accounts = <<>>
        /\ gone = FALSE
        /\ job = Idle
        /\ plan = [t \in Tuis |-> NoPlan]

\* What Database::open and ensure_file_exists make of a deleted file.
Reopened(d, fresh) == IF gone THEN fresh ELSE d

MayFail == WritesFail \/ gone

-----------------------------------------------------------------------------
(* GenerateSeed and RestoreSeed                                            *)

\* keypunkd has replaced the seed, and answers, or an error comes back.
StoreSeed(s, h) ==
    /\ job = Idle
    /\ seed' = s
    /\ \/ job' = [Idle EXCEPT !.kind = "store", !.birthday = h]
       \/ WritesFail /\ job' = Idle
    /\ UNCHANGED <<marker, db, plan>>

GenerateSeed == \E s \in Seeds \ {seed} : StoreSeed(s, None)
RestoreSeed(h) == \E s \in Seeds : StoreSeed(s, h)

\* save_birthday_height; a failure is a warning.
SaveBirthday ==
    /\ job.kind = "store" /\ job.birthday # None
    /\ \/ ~gone /\ bday' = job.birthday
       \/ MayFail /\ bday' = bday
    /\ job' = [job EXCEPT !.birthday = None]
    /\ UNCHANGED <<seed, marker, keys, accounts, gone, plan>>

-----------------------------------------------------------------------------
(* Accounts                                                                *)

\* The birthday a request does not name: the stored one, else the tip, or
\* none when that cannot be fetched.
Resolved == IF bday # None THEN {bday} ELSE {Tip, None}

\* The rows of a protocol, find_by_protocol.
Rows(p) == {n \in 1..Len(accounts) : accounts[n].protocol = p}

Has(p, i) == \E n \in Rows(p) : accounts[n].index = i

\* Mutant: the path is not looked up first.
CreatableTwice(p, i) == i \in Indexes /\ keys[p][i] # None

\* create_account: a new path, in range, with a pre-derived key.
Creatable(p, i) == ~Has(p, i) /\ i \in Indexes /\ keys[p][i] # None

\* The row is inserted, or the request fails.
Create(p, i, b) ==
    \/ /\ Creatable(p, i) /\ ~gone
       /\ accounts' = Append(accounts, [protocol |-> p, index |-> i,
                                        seed |-> keys[p][i], birthday |-> b])
    \/ (Creatable(p, i) => MayFail) /\ accounts' = accounts

\* The request between other requests, with one of these birthdays.
HandleCreate(p, i, birthdays) ==
    /\ job = Idle
    /\ \E b \in birthdays : Create(p, i, b)
    /\ UNCHANGED <<seed, marker, bday, keys, gone, job>>

\* `paypunk create-account`, with any index and possibly a birthday.
CreateAccount(p, i, h) ==
    /\ HandleCreate(p, i, IF h # None THEN {h} ELSE Resolved)
    /\ UNCHANGED plan

Count(p) == Cardinality(Rows(p))

\* The TUI adds to a protocol with the fewest accounts among those that have
\* one, or to Ethereum, and takes their number for the next index.
Plans ==
    LET used == {p \in Protocols : Count(p) > 0} IN
    IF used = {} THEN {[protocol |-> Ethereum, index |-> 0, asks |-> TRUE]}
    ELSE {[protocol |-> p, index |-> Count(p), asks |-> TRUE] :
            p \in {q \in used : \A r \in used : Count(q) <= Count(r)}}

\* On the Zcash tab: the number of Zcash accounts, and 0 for the birthday.
ZcashPlan == [protocol |-> Zcash, index |-> Count(Zcash), asks |-> FALSE]

\* add_account of the TUI: ListAccounts, then CreateAccount.
AddAccountList(t) ==
    /\ job = Idle
    /\ plan[t] = NoPlan
    /\ \E x \in Plans : plan' = [plan EXCEPT ![t] = x]
    /\ UNCHANGED <<seed, marker, db, job>>

\* add_zcash_account, likewise.
AddZcashAccountList(t) ==
    /\ job = Idle
    /\ plan[t] = NoPlan
    /\ plan' = [plan EXCEPT ![t] = ZcashPlan]
    /\ UNCHANGED <<seed, marker, db, job>>

AddAccountCreate(t) ==
    /\ plan[t] # NoPlan
    /\ HandleCreate(plan[t].protocol, plan[t].index,
                    IF plan[t].asks THEN Resolved ELSE {None})
    /\ plan' = [plan EXCEPT ![t] = NoPlan]

-----------------------------------------------------------------------------
(* Unlock                                                                  *)

\* Mutant: keys are derived and stored at every unlock.
UnlockDerivesAlways ==
    /\ job = Idle
    /\ gone' = FALSE
    /\ bday' = Reopened(bday, None)
    /\ keys' = Reopened(keys, NoKeys)
    /\ accounts' = Reopened(accounts, <<>>)
    /\ IF seed # None
       THEN \E b \in Resolved :
               job' = [kind |-> "unlock", seed |-> seed, birthday |-> b,
                       next |-> Start, todo |-> Protocols]
       ELSE job' = Idle
    /\ UNCHANGED <<seed, marker, plan>>

\* The database is created anew if it is gone.  Without accounts the keys are
\* exported by keypunkd, which fails without a seed; with accounts nothing is
\* left to do but the marker.
Unlock ==
    /\ job = Idle
    /\ gone' = FALSE
    /\ bday' = Reopened(bday, None)
    /\ keys' = Reopened(keys, NoKeys)
    /\ accounts' = Reopened(accounts, <<>>)
    /\ \/ /\ accounts' = <<>> /\ seed # None
          /\ \E b \in IF gone THEN {Tip, None} ELSE Resolved :
               job' = [kind |-> "unlock", seed |-> seed, birthday |-> b,
                       next |-> Start, todo |-> Protocols]
       \/ accounts' = <<>> /\ seed = None /\ job' = Idle
       \/ accounts' # <<>> /\ job' = [Idle EXCEPT !.kind = "unlock"]
    /\ UNCHANGED <<seed, marker, plan>>

\* Mutant: one path more than there are indexes.
SaveKeyOneMore(p) ==
    /\ job.kind = "unlock" /\ job.next[p] \in 0..(MaxIndex + 1)
    /\ \A q \in Protocols \ {p} : job.next[q] \in {0, MaxIndex + 1}
    /\ \/ ~gone /\ keys' = [keys EXCEPT ![p][job.next[p]] = job.seed]
       \/ MayFail /\ keys' = keys
    /\ job' = [job EXCEPT !.next[p] = @ + 1]
    /\ UNCHANGED <<seed, marker, bday, accounts, gone, plan>>

\* save_pre_derived_key, protocol by protocol; errors are ignored.
SaveKey(p) ==
    /\ job.kind = "unlock" /\ job.next[p] \in Indexes
    /\ \A q \in Protocols \ {p} : job.next[q] \in {0, MaxIndex + 1}
    /\ \/ ~gone /\ keys' = [keys EXCEPT ![p][job.next[p]] = job.seed]
       \/ MayFail /\ keys' = keys
    /\ job' = [job EXCEPT !.next[p] = @ + 1]
    /\ UNCHANGED <<seed, marker, bday, accounts, gone, plan>>

\* Mutant: accounts are numbered from one.
FirstAccountFromOne(p) ==
    /\ job.kind = "unlock" /\ job.next = End /\ p \in job.todo
    /\ Create(p, 1, job.birthday)
    /\ job' = [job EXCEPT !.todo = @ \ {p}]
    /\ UNCHANGED <<seed, marker, bday, keys, gone, plan>>

\* The first account of each protocol, in any order; errors are ignored.
FirstAccount(p) ==
    /\ job.kind = "unlock" /\ job.next = End /\ p \in job.todo
    /\ Create(p, 0, job.birthday)
    /\ job' = [job EXCEPT !.todo = @ \ {p}]
    /\ UNCHANGED <<seed, marker, bday, keys, gone, plan>>

\* mark_initialized, a failure is a warning, then the reply.
Mark ==
    /\ \/ job.kind = "store" /\ job.birthday = None
       \/ job.kind = "unlock" /\ job.next = End /\ job.todo = {}
    /\ \/ marker' = TRUE
       \/ MayFail /\ marker' = marker
    /\ job' = Idle
    /\ UNCHANGED <<seed, db, plan>>

-----------------------------------------------------------------------------
(* Faults                                                                  *)

\* paypunkd dies and is started again; its clients lose their connection.
Restart ==
    /\ job' = Idle
    /\ gone' = FALSE
    /\ bday' = Reopened(bday, None)
    /\ keys' = Reopened(keys, NoKeys)
    /\ accounts' = Reopened(accounts, <<>>)
    /\ plan' = [t \in Tuis |-> NoPlan]
    /\ UNCHANGED <<seed, marker>>

\* `paypunk reset`, and `paypunk uninstall` unless the person says no, remove
\* the data directory, with the daemons running.
Reset ==
    /\ Resettable
    /\ seed' = None
    /\ marker' = FALSE
    /\ gone' = TRUE
    /\ UNCHANGED <<bday, keys, accounts, job, plan>>

Next ==
    \/ GenerateSeed
    \/ \E h \in Heights \cup {None} : RestoreSeed(h)
    \/ SaveBirthday
    \/ \E p \in Protocols, i \in Picked, h \in Heights \cup {None} :
         CreateAccount(p, i, h)
    \/ \E t \in Tuis : AddAccountList(t)
    \/ \E t \in Tuis : AddZcashAccountList(t)
    \/ \E t \in Tuis : AddAccountCreate(t)
    \/ Unlock
    \/ \E p \in Protocols : SaveKey(p)
    \/ \E p \in Protocols : FirstAccount(p)
    \/ Mark
    \/ Restart
    \/ Reset

Spec == Init /\ [][Next]_vars

-----------------------------------------------------------------------------
(* Properties                                                              *)

\* Every variable stays in its set.
TypeOK ==
    /\ seed \in OptSeed
    /\ marker \in BOOLEAN
    /\ bday \in Heights \cup {None}
    /\ keys \in [Protocols -> [Indexes -> OptSeed]]
    /\ accounts \in Seq(Account)
    /\ gone \in BOOLEAN
    /\ job \in Job
    /\ plan \in [Tuis -> Plan \cup {NoPlan}]

\* No two rows are the account of one path, whatever requests were made twice
\* or interrupted: balances would be counted twice.
NoDuplicateAccounts ==
    \A m, n \in 1..Len(accounts) :
        /\ accounts[m].protocol = accounts[n].protocol
        /\ accounts[m].index = accounts[n].index
        => m = n

\* The table of pre-derived keys still has the key of every account: once an
\* account exists no unlock, of whatever seed and however interrupted, puts
\* the key of another seed in its place.
AccountsHaveKeys ==
    \A n \in 1..Len(accounts) :
        keys[accounts[n].protocol][accounts[n].index] = accounts[n].seed

\* The index that the TUI computes for the next account is free: whatever
\* unlock was interrupted and whichever TUI was faster, the accounts of a
\* protocol are numbered from 0 to their count.  It holds while no one uses
\* `paypunk create-account`, which takes any index.
NextIndexIsFree ==
    \A x \in Plans \cup {ZcashPlan} : ~Has(x.protocol, x.index)
=============================================================================

----------------------------- MODULE ZcashSync -----------------------------
(***************************************************************************)
(* Scanning the Zcash chain in paypunkd: the WalletDbActor, which owns the *)
(* wallet database, the ScanActor, which fetches blocks in chunks and      *)
(* sends them to it, the background loop that asks for a Sync, and the     *)
(* registration of an account (Protocol::sync_account), which imports or   *)
(* truncates and then spawns a SyncNewAccount.                             *)
(*                                                                         *)
(* Each actor handles one message at a time, so a message of the           *)
(* WalletDbActor is one action and a job of the ScanActor is one action to *)
(* start it and one per chunk: registrations come between chunks.  Spawned *)
(* SyncNewAccount tasks reach the ScanActor in any order.  lightwalletd    *)
(* only ever appends blocks here.                                          *)
(*                                                                         *)
(* Of the wallet database (an external library) we keep what this code     *)
(* relies on: which accounts are imported and with which birthday, which   *)
(* blocks were scanned for each, and the chain tip, which update_chain_tip *)
(* never moves backwards and truncation does.                              *)
(***************************************************************************)
EXTENDS Naturals

CONSTANTS Accounts,      \* Zcash accounts of paypunkd
          Birthday,      \* [Accounts -> Nat]: stored birthday, 0 if unknown
          Regtest,       \* TRUE on regtest
          Chunk,         \* SCAN_CHUNK_SIZE
          FirstHeight,   \* height of the chain when we start looking
          MaxHeight,     \* bound on the height of the chain
          MaxRegisters,  \* bound on registrations
          MaxFaults      \* bound on failures, restarts and resets

ASSUME ZcashSyncAssumption ==
    /\ Birthday \in [Accounts -> Nat]
    /\ Regtest \in BOOLEAN
    /\ Chunk \in Nat \ {0}
    /\ FirstHeight \in Nat \ {0}
    /\ MaxHeight \in Nat /\ MaxHeight >= FirstHeight
    /\ MaxRegisters \in Nat
    /\ MaxFaults \in Nat

VARIABLES latest,    \* height of lightwalletd's chain
          tip,       \* chain tip of the wallet database, 0 if none
          birth,     \* birthday in the wallet database, 0 if not imported
          scanned,   \* blocks scanned with the key of each account
          gone,      \* the database file was deleted under the connection
          pushed,    \* birthdays of the accounts registered in memory
          pending,   \* number of SyncNewAccount tasks not yet started
          job,       \* what the ScanActor is doing
          syncing,   \* is_syncing of the WalletDbActor
          lost,      \* first blocks that failed or killed scans left out
          registers, faults

db == <<tip, birth, scanned, gone>>
vars == <<latest, tip, birth, scanned, gone, pushed, pending, job, syncing,
          lost, registers, faults>>

Heights == 1..MaxHeight
Idle == [kind |-> "idle", next |-> 0, target |-> 0]
Jobs == [kind : {"sync", "new"}, next : Heights, target : Heights]
Lower(m, n) == IF m < n THEN m ELSE n

Init == /\ latest = FirstHeight
        /\ tip = 0
        /\ birth = [a \in Accounts |-> 0]
        /\ scanned = [a \in Accounts |-> {}]
        /\ gone = FALSE
        /\ pushed = {}
        /\ pending = [a \in Accounts |-> 0]
        /\ job = Idle
        /\ syncing = FALSE
        /\ lost = {}
        /\ registers = 0
        /\ faults = 0

-----------------------------------------------------------------------------
(* The wallet database as ensure_db_file_exists leaves it.                 *)

Tip == IF gone THEN 0 ELSE tip
Birth == IF gone THEN [a \in Accounts |-> 0] ELSE birth
Scanned == IF gone THEN [a \in Accounts |-> {}] ELSE scanned

\* Birthday 0 is resolved where it is used, each time anew.
Resolve(a) == IF Birthday[a] # 0 THEN Birthday[a]
              ELSE IF Regtest THEN 2 ELSE latest

\* lightwalletd grows by a block.
MineBlock == /\ latest < MaxHeight
             /\ latest' = latest + 1
             /\ UNCHANGED <<db, pushed, pending, job, syncing, lost, registers,
                            faults>>

-----------------------------------------------------------------------------
(* Registration                                                            *)

\* Needs the tree state below the birthday.  A new key is imported; a known
\* one truncates the database, all accounts, to below the birthday.
RegisterAccount(a) ==
    LET b == Resolve(a) IN
    /\ b <= latest + 1
    /\ IF Birth[a] = 0
       THEN /\ birth' = [Birth EXCEPT ![a] = b]
            /\ tip' = Tip
            /\ scanned' = Scanned
            /\ lost' = lost
       ELSE /\ birth' = Birth
            /\ tip' = Lower(Tip, b - 1)
            /\ scanned' = [x \in Accounts |-> {h \in Scanned[x] : h < b}]
            /\ lost' = {h \in lost : h < b}
    /\ gone' = FALSE
    /\ pushed' = pushed \cup {b}

\* Mutant: an account already in the database is truncated, not rescanned.
RegisterWithoutScan(a) ==
    /\ registers < MaxRegisters
    /\ RegisterAccount(a)
    /\ pending' = IF Birth[a] = 0 THEN [pending EXCEPT ![a] = @ + 1]
                  ELSE pending
    /\ registers' = registers + 1
    /\ UNCHANGED <<latest, job, syncing, faults>>

\* sync_account: the account is registered, and its scan is left to a task.
Register(a) ==
    /\ registers < MaxRegisters
    /\ RegisterAccount(a)
    /\ pending' = [pending EXCEPT ![a] = @ + 1]
    /\ registers' = registers + 1
    /\ UNCHANGED <<latest, job, syncing, faults>>

-----------------------------------------------------------------------------
(* The ScanActor                                                           *)

\* GetMinBirthday, if an account was registered since the start.
MinBirthday(m) == m \in pushed /\ \A b \in pushed : m <= b

\* sync_from_tip's first block: after the tip, or at the least birthday.
SyncFrom(h) == IF tip > 0 THEN h = tip + 1
               ELSE \E m \in pushed : /\ MinBirthday(m)
                                      /\ h = IF m <= 1 THEN 2 ELSE m

\* Mutant: the newest block counts as already scanned.
StartSyncShort ==
    /\ job = Idle
    /\ \E h \in Heights : /\ SyncFrom(h)
                          /\ h < latest
                          /\ job' = [kind |-> "sync", next |-> h,
                                     target |-> latest]
    /\ UNCHANGED <<latest, db, pushed, pending, syncing, lost, registers,
                   faults>>

\* Sync, asked every 10 seconds; nothing happens when already at the tip.
StartSync ==
    /\ job = Idle
    /\ \E h \in Heights : /\ SyncFrom(h)
                          /\ h <= latest
                          /\ job' = [kind |-> "sync", next |-> h,
                                     target |-> latest]
    /\ UNCHANGED <<latest, db, pushed, pending, syncing, lost, registers,
                   faults>>

\* SyncNewAccount; a birthday above the chain leaves nothing to do.
StartNew(a) ==
    /\ job = Idle
    /\ pending[a] > 0
    /\ pending' = [pending EXCEPT ![a] = @ - 1]
    /\ job' = IF Resolve(a) > latest THEN Idle
              ELSE [kind |-> "new", next |-> Resolve(a), target |-> latest]
    /\ UNCHANGED <<latest, db, pushed, syncing, lost, registers, faults>>

\* Mutant: a chunk is always full.
ChunkEndFull == job.next + Chunk - 1

ChunkEnd == Lower(job.next + Chunk - 1, job.target)

\* VecBlockSource has the fetched blocks, and hands over those from the
\* job's next one on.
Blocks(end) == job.next .. end

\* The blocks of the chunk are scanned with the keys of all accounts.
ScanTo(end) ==
    /\ scanned' = [a \in Accounts |-> IF Birth[a] = 0 THEN Scanned[a]
                                      ELSE Scanned[a] \cup Blocks(end)]
    /\ birth' = Birth
    /\ gone' = FALSE

\* Mutant: is_syncing is not reset.
ScanChunkStaysOn ==
    /\ job # Idle
    /\ ScanTo(ChunkEnd)
    /\ tip' = IF ChunkEnd > Tip THEN ChunkEnd ELSE Tip
    /\ syncing' = TRUE
    /\ job' = IF ChunkEnd = job.target THEN Idle
              ELSE [job EXCEPT !.next = ChunkEnd + 1]
    /\ UNCHANGED <<latest, pushed, pending, lost, registers, faults>>

\* One turn of the loop of sync_blocks_in_chunks, ScanBlocks included.
ScanChunk ==
    /\ job # Idle
    /\ ScanTo(ChunkEnd)
    /\ tip' = IF ChunkEnd > Tip THEN ChunkEnd ELSE Tip
    /\ syncing' = FALSE
    /\ job' = IF ChunkEnd = job.target THEN Idle
              ELSE [job EXCEPT !.next = ChunkEnd + 1]
    /\ UNCHANGED <<latest, pushed, pending, lost, registers, faults>>

-----------------------------------------------------------------------------
(* Faults                                                                  *)

\* What the scan of a new account still had to do is done by nobody else.
Abandoned == IF job.kind = "new" THEN {job.next} ELSE {}

\* Fetching or scanning fails: a warning, and the job is over.
JobFails ==
    /\ faults < MaxFaults
    /\ job # Idle
    /\ job' = Idle
    /\ syncing' \in {syncing, FALSE}
    /\ lost' = lost \cup Abandoned
    /\ faults' = faults + 1
    /\ UNCHANGED <<latest, db, pushed, pending, registers>>

\* The blocks were scanned and then update_chain_tip fails.
UpdateTipFails ==
    /\ faults < MaxFaults
    /\ job # Idle
    /\ ScanTo(ChunkEnd)
    /\ tip' = Tip
    /\ syncing' = TRUE
    /\ job' = Idle
    /\ lost' = lost \cup Abandoned
    /\ faults' = faults + 1
    /\ UNCHANGED <<latest, pushed, pending, registers>>

\* paypunkd stops and starts: only the database remains.
Restart ==
    /\ faults < MaxFaults
    /\ tip' = Tip
    /\ birth' = Birth
    /\ scanned' = Scanned
    /\ gone' = FALSE
    /\ pushed' = {}
    /\ pending' = [a \in Accounts |-> 0]
    /\ job' = Idle
    /\ syncing' = FALSE
    /\ lost' = lost \cup Abandoned
                    \cup {Resolve(a) : a \in {x \in Accounts : pending[x] > 0}}
    /\ faults' = faults + 1
    /\ UNCHANGED <<latest, registers>>

\* `paypunk reset` removes the data directory of the running daemon.
Reset ==
    /\ faults < MaxFaults
    /\ ~gone
    /\ gone' = TRUE
    /\ faults' = faults + 1
    /\ UNCHANGED <<latest, tip, birth, scanned, pushed, pending, job, syncing,
                   lost, registers>>

Next ==
    \/ MineBlock
    \/ \E a \in Accounts : Register(a)
    \/ StartSync
    \/ \E a \in Accounts : StartNew(a)
    \/ ScanChunk
    \/ JobFails
    \/ UpdateTipFails
    \/ Restart
    \/ Reset

\* The loop asks again every 10 seconds, whatever the last answer was, and
\* the runtime runs the actors and the spawned tasks.
Fairness == /\ WF_vars(StartSync)
            /\ \A a \in Accounts : WF_vars(StartNew(a))
            /\ WF_vars(ScanChunk)

Spec == Init /\ [][Next]_vars
FairSpec == Spec /\ Fairness

-----------------------------------------------------------------------------
(* Properties                                                              *)

\* Every variable stays in its set, and a running job within the chain.
TypeOK ==
    /\ latest \in Heights
    /\ tip \in 0..latest
    /\ birth \in [Accounts -> Nat]
    /\ scanned \in [Accounts -> SUBSET Heights]
    /\ gone \in BOOLEAN
    /\ pushed \subseteq Nat
    /\ pending \in [Accounts -> Nat]
    /\ job \in Jobs \cup {Idle}
    /\ job # Idle => job.next <= job.target /\ job.target <= latest
    /\ syncing \in BOOLEAN
    /\ lost \subseteq Nat
    /\ registers \in 0..MaxRegisters
    /\ faults \in 0..MaxFaults

\* A scan that will still come, or is known to have been abandoned, covers h.
Owed(h) ==
    \/ \E a \in Accounts : pending[a] > 0 /\ Resolve(a) <= h
    \/ job.kind = "new" /\ job.next <= h /\ h <= job.target
    \/ \E b \in lost : b <= h

\* Background syncs start above the tip, so a block below it that was not
\* scanned for an account is one whose funds are missing from the balance.
\* Truncations and imports leave such blocks between the chunks of a running
\* scan; each of them is owed by a SyncNewAccount, unless that one failed.
GapsAreOwed ==
    \A a \in Accounts : birth[a] # 0 =>
        \A h \in birth[a]..tip : h \in scanned[a] \/ Owed(h)

\* Accounts of a restored wallet (one stored birthday) or of a regtest one.
SameBirthday ==
    /\ \A a, x \in Accounts : Birthday[a] = Birthday[x]
    /\ \A a \in Accounts : Birthday[a] # 0 \/ Regtest

AllScanned ==
    \A a \in Accounts : birth[a] # 0 => birth[a]..latest \subseteq scanned[a]

\* Unless the scan of a new account was abandoned, everything is scanned in
\* the end: failed background syncs are made up for.  (After a restart with
\* an empty database nothing is scanned before the next unlock.)
EventuallyScanned ==
    <>[](lost = {} /\ (tip > 0 \/ pushed # {}) => AllScanned)

\* is_syncing, left set when update_chain_tip fails, is cleared once there is
\* a block to scan: that failure does not keep later syncs away.
SyncingClears == syncing /\ tip < latest ~> ~syncing
=============================================================================

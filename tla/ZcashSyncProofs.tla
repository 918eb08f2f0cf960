-------------------------- MODULE ZcashSyncProofs --------------------------
(***************************************************************************)
(* For any accounts of one birthday, any chain, chunk size and number of   *)
(* faults, the scan loses a block only with a failed SyncNewAccount.       *)
(*                                                                         *)
(* GapsAreOwed speaks of the blocks up to the tip.  A running scan will    *)
(* raise the tip over the blocks below its next chunk, so those must be    *)
(* scanned or owed beforehand: NoBlindJob says so, and with it the         *)
(* invariant is inductive.                                                 *)
(***************************************************************************)
EXTENDS ZcashSync, TLAPS

\* Accounts of a restored or regtest wallet, and no birthday at block 1,
\* where the background loop starts at block 2.
OneBirthday == SameBirthday /\ \A a \in Accounts : Birthday[a] # 1

\* A running scan has not jumped over a block that nobody owes.
NoBlindJob ==
    job # Idle => \A a \in Accounts : birth[a] # 0 =>
        \A h \in birth[a]..(job.next - 1) : h \in scanned[a] \/ Owed(h)

\* What the in-memory and the database birthdays of the accounts can be.
BirthdaysKnown == /\ \A a \in Accounts : birth[a] \in {0, Resolve(a)}
                  /\ \A b \in pushed : \E a \in Accounts : b = Resolve(a)

IInv == OneBirthday /\ TypeOK /\ BirthdaysKnown /\ GapsAreOwed /\ NoBlindJob

-----------------------------------------------------------------------------
(* Types                                                                   *)

\* A chunk ends within its job, and not before it starts.
LEMMA ChunkEndBounds ==
    ASSUME TypeOK, job # Idle
    PROVE  /\ ChunkEnd \in Heights
           /\ job.next <= ChunkEnd
           /\ ChunkEnd <= job.target
           /\ job.next .. ChunkEnd \subseteq Heights
  BY ZcashSyncAssumption DEF TypeOK, Idle, Jobs, ChunkEnd, Lower, Heights

\* The database stays well typed when the file is found deleted.
LEMMA FreshTypes ==
    ASSUME TypeOK
    PROVE  /\ Tip \in 0..latest
           /\ Birth \in [Accounts -> Nat]
           /\ Scanned \in [Accounts -> SUBSET Heights]
  BY ZcashSyncAssumption DEF TypeOK, Tip, Birth, Scanned, Heights

\* A resolved birthday is a block height.
LEMMA ResolveType ==
    ASSUME TypeOK, NEW a \in Accounts
    PROVE  Resolve(a) \in Nat \ {0}
  BY ZcashSyncAssumption DEF TypeOK, Resolve, Heights

\* A running job is a job.
LEMMA RunningJob ==
    ASSUME TypeOK, job # Idle
    PROVE  job \in Jobs /\ job.next <= job.target /\ job.target <= latest
  BY DEF TypeOK

\* What an abandoned job leaves out is a block height.
LEMMA AbandonedType == TypeOK => Abandoned \subseteq Nat
  <1> SUFFICES ASSUME TypeOK PROVE Abandoned \subseteq Nat
    OBVIOUS
  <1>1. CASE job = Idle
    BY <1>1 DEF Abandoned, Idle
  <1>2. CASE job # Idle
    BY <1>2, RunningJob DEF Abandoned, Jobs, Heights
  <1> QED BY <1>1, <1>2

\* TypeOK holds initially.
LEMMA TypeInit == Init => TypeOK
  <1> SUFFICES ASSUME Init PROVE TypeOK
    OBVIOUS
  <1>1. latest \in Heights /\ tip \in 0..latest
    BY ZcashSyncAssumption DEF Init, Heights
  <1>2. /\ birth \in [Accounts -> Nat]
        /\ scanned \in [Accounts -> SUBSET Heights]
        /\ pending \in [Accounts -> Nat]
    BY DEF Init
  <1>3. registers \in 0..MaxRegisters /\ faults \in 0..MaxFaults
    BY ZcashSyncAssumption DEF Init
  <1> QED
    BY <1>1, <1>2, <1>3 DEF Init, TypeOK

\* Every step preserves TypeOK.
LEMMA TypeStep == TypeOK /\ [Next]_vars => TypeOK'
  <1> SUFFICES ASSUME TypeOK, [Next]_vars PROVE TypeOK'
    OBVIOUS
  <1> USE ZcashSyncAssumption
  <1>f. /\ Tip \in 0..latest
        /\ Birth \in [Accounts -> Nat]
        /\ Scanned \in [Accounts -> SUBSET Heights]
    BY FreshTypes
  <1>1. CASE MineBlock
    BY <1>1 DEF TypeOK, MineBlock, Idle, Jobs, Heights, db
  <1>2. ASSUME NEW a \in Accounts, Register(a) PROVE TypeOK'
    <2>1. Resolve(a) \in Nat \ {0}
      BY ResolveType
    <2>2. tip' \in 0..latest
      BY <1>2, <1>f, <2>1 DEF Register, RegisterAccount, Lower, TypeOK, Heights
    <2>3. birth' \in [Accounts -> Nat] /\ scanned' \in [Accounts -> SUBSET Heights]
      BY <1>2, <1>f, <2>1 DEF Register, RegisterAccount
    <2>4. lost' \subseteq Nat /\ pushed' \subseteq Nat
      BY <1>2, <2>1 DEF Register, RegisterAccount, TypeOK
    <2>5. pending' \in [Accounts -> Nat]
      BY <1>2 DEF Register, RegisterAccount, TypeOK
    <2>6. registers' \in 0..MaxRegisters
      BY <1>2 DEF Register, RegisterAccount, TypeOK
    <2> QED BY <1>2, <2>2, <2>3, <2>4, <2>5, <2>6 DEF Register, RegisterAccount, TypeOK
  <1>3. CASE StartSync
    BY <1>3 DEF TypeOK, StartSync, Idle, Jobs, Heights, db
  <1>4. ASSUME NEW a \in Accounts, StartNew(a) PROVE TypeOK'
    BY <1>4, ResolveType DEF TypeOK, StartNew, Idle, Jobs, Heights, db
  <1>5. CASE ScanChunk
    <2>1. /\ ChunkEnd \in Heights /\ job.next <= ChunkEnd /\ ChunkEnd <= job.target
          /\ job.next .. ChunkEnd \subseteq Heights
      BY <1>5, ChunkEndBounds DEF ScanChunk
    <2>2. birth' \in [Accounts -> Nat] /\ scanned' \in [Accounts -> SUBSET Heights]
      BY <1>5, <1>f, <2>1 DEF ScanChunk, ScanTo, Blocks
    <2>3. tip' \in 0..latest
      <3>1. job.target \in Nat /\ job.target <= latest
        BY <1>5, RunningJob DEF ScanChunk, Jobs, Heights
      <3>2. ChunkEnd \in Nat /\ ChunkEnd <= latest /\ latest \in Nat
        BY <2>1, <3>1 DEF TypeOK, Heights
      <3> QED BY <1>5, <1>f, <3>2 DEF ScanChunk
    <2>4. CASE ChunkEnd = job.target
      BY <1>5, <2>2, <2>3, <2>4 DEF ScanChunk, ScanTo, Blocks, TypeOK
    <2>5. CASE ChunkEnd # job.target
      <3>1. job \in Jobs /\ job.target <= latest
        BY <1>5 DEF ScanChunk, TypeOK
      <3>2. ChunkEnd + 1 \in Heights /\ ChunkEnd + 1 <= job.target
        BY <2>1, <2>5, <3>1 DEF Jobs, Heights
      <3>3. job' = [job EXCEPT !.next = ChunkEnd + 1]
        BY <1>5, <2>5 DEF ScanChunk
      <3>4. job' \in Jobs /\ job'.next <= job'.target /\ job'.target <= latest
        BY <3>1, <3>2, <3>3 DEF Jobs
      <3> QED BY <1>5, <2>2, <2>3, <3>4 DEF ScanChunk, ScanTo, Blocks, TypeOK
    <2> QED BY <2>4, <2>5
  <1>6. CASE JobFails
    <2>1. lost' \subseteq Nat
      BY <1>6, AbandonedType DEF JobFails, TypeOK
    <2>2. faults' \in 0..MaxFaults
      BY <1>6 DEF JobFails, TypeOK
    <2>3. syncing' \in BOOLEAN
      BY <1>6 DEF JobFails, TypeOK
    <2> QED BY <1>6, <2>1, <2>2, <2>3 DEF JobFails, TypeOK, db
  <1>7. CASE UpdateTipFails
    <2>1. job.next .. ChunkEnd \subseteq Heights
      BY <1>7, ChunkEndBounds DEF UpdateTipFails
    <2>2. birth' \in [Accounts -> Nat] /\ scanned' \in [Accounts -> SUBSET Heights]
      BY <1>7, <1>f, <2>1 DEF UpdateTipFails, ScanTo, Blocks
    <2>3. lost' \subseteq Nat
      BY <1>7, AbandonedType DEF UpdateTipFails, TypeOK
    <2>4. faults' \in 0..MaxFaults
      BY <1>7 DEF UpdateTipFails, TypeOK
    <2> QED BY <1>7, <1>f, <2>2, <2>3, <2>4 DEF UpdateTipFails, ScanTo, Blocks, TypeOK
  <1>8. CASE Restart
    <2>1. lost' \subseteq Nat
      BY <1>8, ResolveType, AbandonedType DEF Restart, TypeOK
    <2>2. faults' \in 0..MaxFaults
      BY <1>8 DEF Restart, TypeOK
    <2>3. pending' \in [Accounts -> Nat]
      BY <1>8 DEF Restart
    <2> QED BY <1>8, <1>f, <2>1, <2>2, <2>3 DEF Restart, TypeOK
  <1>9. CASE Reset
    BY <1>9 DEF TypeOK, Reset
  <1>10. CASE UNCHANGED vars
    BY <1>10 DEF TypeOK, vars, db
  <1> QED
    BY <1>1, <1>2, <1>3, <1>4, <1>5, <1>6, <1>7, <1>8, <1>9, <1>10 DEF Next

\* Type correctness of every behaviour.
THEOREM ZcashSyncTypeCorrect == Spec => []TypeOK
  BY TypeInit, TypeStep, PTL DEF Spec
-----------------------------------------------------------------------------
(* No block is lost                                                        *)

\* All accounts resolve to one birthday, now and after the step.
LEMMA CommonBirthday ==
    ASSUME OneBirthday
    PROVE  \E B \in Nat : /\ B >= 2
                          /\ \A a \in Accounts : Resolve(a) = B /\ Resolve(a)' = B
  <1>1. CASE Accounts = {}
    BY <1>1
  <1>2. CASE \E a \in Accounts : Birthday[a] = 0
    <2>1. Regtest /\ \A a \in Accounts : Birthday[a] = 0
      BY <1>2 DEF OneBirthday, SameBirthday
    <2> QED BY <2>1 DEF Resolve
  <1>3. CASE Accounts # {} /\ \A a \in Accounts : Birthday[a] # 0
    <2>1. PICK x \in Accounts : TRUE
      BY <1>3
    <2>2. Birthday[x] \in Nat /\ Birthday[x] >= 2
      BY <1>3, ZcashSyncAssumption DEF OneBirthday
    <2>3. \A a \in Accounts : Resolve(a) = Birthday[x] /\ Resolve(a)' = Birthday[x]
      BY <1>3 DEF OneBirthday, SameBirthday, Resolve
    <2> QED BY <2>2, <2>3
  <1> QED BY <1>1, <1>2, <1>3

\* The invariant holds initially.
LEMMA IInit == OneBirthday /\ Init => IInv
  <1> SUFFICES ASSUME OneBirthday, Init PROVE IInv
    OBVIOUS
  <1>1. TypeOK
    BY TypeInit
  <1>2. BirthdaysKnown /\ GapsAreOwed /\ NoBlindJob
    BY DEF Init, BirthdaysKnown, GapsAreOwed, NoBlindJob
  <1> QED BY <1>1, <1>2 DEF IInv

\* The birthdays known to memory and database stay those of the accounts.
LEMMA BirthdaysStep == IInv /\ [Next]_vars => BirthdaysKnown'
  <1> SUFFICES ASSUME IInv, [Next]_vars PROVE BirthdaysKnown'
    OBVIOUS
  <1>0. PICK B \in Nat : /\ B >= 2
                         /\ \A a \in Accounts : Resolve(a) = B /\ Resolve(a)' = B
    BY CommonBirthday DEF IInv
  <1>1. /\ \A a \in Accounts : birth[a] \in {0, B} /\ Birth[a] \in {0, B}
        /\ \A b \in pushed : \E a \in Accounts : b = B
        /\ birth \in [Accounts -> Nat] /\ Birth \in [Accounts -> Nat]
    BY <1>0, FreshTypes DEF IInv, BirthdaysKnown, Birth, TypeOK
  <1>2. CASE UNCHANGED <<birth, pushed>>
    BY <1>0, <1>1, <1>2 DEF BirthdaysKnown
  <1>3. ASSUME NEW a \in Accounts, Register(a) PROVE BirthdaysKnown'
    <2>1. birth' = IF Birth[a] = 0 THEN [Birth EXCEPT ![a] = B] ELSE Birth
      BY <1>0, <1>3 DEF Register, RegisterAccount
    <2>2. \A x \in Accounts : birth'[x] \in {0, B}
      BY <1>1, <2>1
    <2>3. pushed' = pushed \cup {B}
      BY <1>0, <1>3 DEF Register, RegisterAccount
    <2> QED BY <1>0, <1>1, <2>2, <2>3 DEF BirthdaysKnown
  <1>4. CASE birth' = Birth /\ (pushed' = pushed \/ pushed' = {})
    BY <1>0, <1>1, <1>4 DEF BirthdaysKnown
  <1> QED
    BY <1>2, <1>3, <1>4 DEF Next, vars, db, MineBlock, StartSync, StartNew,
       ScanChunk, ScanTo, Blocks, JobFails, UpdateTipFails, Restart, Reset

\* Blocks up to the tip, and those a running scan leaves behind, stay scanned
\* or owed.
LEMMA GapsStep == IInv /\ [Next]_vars => GapsAreOwed' /\ NoBlindJob'
  <1> SUFFICES ASSUME IInv, [Next]_vars PROVE GapsAreOwed' /\ NoBlindJob'
    OBVIOUS
  <1>0. PICK B \in Nat : /\ B >= 2
                         /\ \A a \in Accounts : Resolve(a) = B /\ Resolve(a)' = B
    BY CommonBirthday DEF IInv
  <1>t. TypeOK /\ TypeOK'
    BY TypeStep DEF IInv
  <1>b. \A a \in Accounts : birth[a] \in {0, B} /\ birth'[a] \in {0, B}
    BY <1>0, BirthdaysStep DEF IInv, BirthdaysKnown
  \* The two claims as one: a block h at or below n is scanned or owed.
  <1> DEFINE Fine(a, h) == h \in scanned[a] \/ Owed(h)
  <1>g. ASSUME NEW a \in Accounts, birth[a] # 0, NEW h \in Nat, B <= h,
               h <= tip \/ (job # Idle /\ h < job.next)
        PROVE  Fine(a, h)
    <2>1. birth[a] = B
      BY <1>b, <1>g
    <2>2. CASE h <= tip
      BY <1>g, <1>t, <2>1, <2>2 DEF IInv, GapsAreOwed, TypeOK
    <2>3. CASE job # Idle /\ h < job.next
      <3>1. job.next \in Nat
        BY <1>t, <2>3, RunningJob DEF Jobs, Heights
      <3>2. h \in B..(job.next - 1)
        BY <1>g, <2>3, <3>1
      <3> QED BY <1>g, <2>1, <2>3, <3>2 DEF IInv, NoBlindJob
    <2> QED BY <1>g, <2>2, <2>3
  \* It suffices to show the same after the step.
  <1>s. ASSUME \A a \in Accounts : birth'[a] # 0 => \A h \in Nat :
                 B <= h /\ (h <= tip' \/ (job' # Idle /\ h < job'.next))
                   => h \in scanned'[a] \/ Owed(h)'
        PROVE  GapsAreOwed' /\ NoBlindJob'
    <2>1. \A a \in Accounts : birth'[a] # 0 => birth'[a] = B
      BY <1>b
    <2>2. tip' \in Nat /\ (job' # Idle => job'.next \in Nat)
      BY <1>t DEF TypeOK, Jobs, Heights
    <2>3. GapsAreOwed'
      BY <1>s, <2>1, <2>2, <1>0 DEF GapsAreOwed
    <2>4. NoBlindJob'
      BY <1>s, <2>1, <2>2, <1>0 DEF NoBlindJob
    <2> QED BY <2>3, <2>4
  \* Each debt is paid by a scan that is still to come, or is recorded.
  <1>p. ASSUME NEW a \in Accounts, pending'[a] > 0, NEW h \in Nat, B <= h
        PROVE  Owed(h)'
    BY <1>p, <1>0 DEF Owed
  <1>c. ASSUME NEW h \in Nat, B <= h, Owed(h), job' = job, lost' = lost,
               \A a \in Accounts : pending[a] > 0 => pending'[a] > 0
        PROVE  Owed(h)'
    BY <1>c, <1>0 DEF Owed
  <1>d. ASSUME NEW h \in Nat, B <= h, Owed(h), job' = Idle,
               lost \cup Abandoned \subseteq lost',
               \A a \in Accounts : pending[a] > 0 =>
                   pending'[a] > 0 \/ B \in lost'
        PROVE  Owed(h)'
    <2>1. CASE \E a \in Accounts : pending[a] > 0
      BY <1>d, <1>0, <2>1 DEF Owed
    <2>2. CASE job.kind = "new" /\ job.next <= h
      BY <1>d, <2>2 DEF Owed, Abandoned
    <2>3. CASE \E b \in lost : b <= h
      BY <1>d, <2>3 DEF Owed
    <2> QED BY <1>d, <2>1, <2>2, <2>3 DEF Owed
  \* The database at the next look at it: what it has, it had before.
  <1>f. /\ Tip \in Nat /\ Tip <= tip
        /\ \A a \in Accounts : Birth[a] # 0 =>
              birth[a] # 0 /\ Tip = tip /\ Scanned[a] = scanned[a]
    BY <1>t DEF Tip, Birth, Scanned, TypeOK, Heights
  <1>1. CASE UNCHANGED <<tip, birth, scanned, pending, job, lost>>
    <2> SUFFICES ASSUME NEW a \in Accounts, birth'[a] # 0, NEW h \in Nat, B <= h,
                        h <= tip' \/ (job' # Idle /\ h < job'.next)
                 PROVE  h \in scanned'[a] \/ Owed(h)'
      BY <1>s
    <2>1. Fine(a, h)
      BY <1>1, <1>g
    <2> QED BY <1>1, <1>c, <2>1
  <1>2. ASSUME NEW r \in Accounts, Register(r) PROVE GapsAreOwed' /\ NoBlindJob'
    <2>1. pending'[r] > 0
      BY <1>2, <1>t DEF Register, RegisterAccount, TypeOK
    <2> QED BY <1>s, <1>p, <2>1
  <1>3. CASE StartSync
    <2> SUFFICES ASSUME NEW a \in Accounts, birth'[a] # 0, NEW h \in Nat, B <= h,
                        h <= tip' \/ (job' # Idle /\ h < job'.next)
                 PROVE  h \in scanned'[a] \/ Owed(h)'
      BY <1>s
    <2>1. PICK n \in Heights : SyncFrom(n) /\ job'.next = n /\ job'.kind = "sync"
      BY <1>3 DEF StartSync
    <2>2. n = tip + 1 \/ n = B
      <3>1. CASE tip > 0
        BY <2>1, <3>1 DEF SyncFrom, MinBirthday
      <3>2. CASE ~(tip > 0)
        <4>1. PICK b \in pushed : n = IF b <= 1 THEN 2 ELSE b
          BY <2>1, <3>2 DEF SyncFrom, MinBirthday
        <4>2. b = B
          BY <1>0 DEF IInv, BirthdaysKnown
        <4> QED BY <1>0, <4>1, <4>2
      <3> QED BY <3>1, <3>2
    <2>3. h <= tip
      BY <1>3, <1>t, <2>1, <2>2 DEF StartSync, db, TypeOK, Heights
    <2>4. Fine(a, h)
      BY <1>3, <1>g, <2>3 DEF StartSync, db
    <2>5. Owed(h) => Owed(h)'
      BY <1>3, <1>0 DEF StartSync, Owed, Idle
    <2> QED BY <1>3, <2>4, <2>5 DEF StartSync, db
  <1>4. ASSUME NEW r \in Accounts, StartNew(r) PROVE GapsAreOwed' /\ NoBlindJob'
    <2> SUFFICES ASSUME NEW a \in Accounts, birth'[a] # 0, NEW h \in Nat, B <= h,
                        h <= tip' \/ (job' # Idle /\ h < job'.next)
                 PROVE  h \in scanned'[a] \/ Owed(h)'
      BY <1>s
    <2>1. tip \in Nat /\ latest \in Nat /\ tip <= latest
      BY <1>t DEF TypeOK, Heights
    <2>2. Resolve(r) = B /\ tip' = tip
      BY <1>0, <1>4 DEF StartNew, db
    <2>3. CASE B > latest
      BY <1>0, <1>4, <2>1, <2>2, <2>3 DEF StartNew
    <2>4. CASE ~(B > latest)
      <3>1. job' = [kind |-> "new", next |-> B, target |-> latest]
        BY <1>4, <2>2, <2>4 DEF StartNew
      <3>2. h <= latest
        BY <1>0, <2>1, <2>2, <3>1
      <3> QED BY <3>1, <3>2 DEF Owed
    <2> QED BY <2>3, <2>4
  <1>5. CASE ScanChunk
    <2> SUFFICES ASSUME NEW a \in Accounts, birth'[a] # 0, NEW h \in Nat, B <= h,
                        h <= tip' \/ (job' # Idle /\ h < job'.next)
                 PROVE  h \in scanned'[a] \/ Owed(h)'
      BY <1>s
    <2>1. /\ ChunkEnd \in Nat /\ job.next \in Nat /\ job.target \in Nat
          /\ job.next <= ChunkEnd /\ ChunkEnd <= job.target
      BY <1>5, <1>t, ChunkEndBounds, RunningJob DEF ScanChunk, Jobs, Heights
    <2>2. /\ Birth[a] # 0 /\ birth[a] # 0 /\ Tip = tip
          /\ scanned'[a] = scanned[a] \cup (job.next .. ChunkEnd)
      BY <1>5, <1>f DEF ScanChunk, ScanTo, Blocks
    <2>3. h <= tip \/ h <= ChunkEnd
      <3>1. tip \in Nat /\ tip' = IF ChunkEnd > tip THEN ChunkEnd ELSE tip
        BY <1>5, <1>t, <2>2 DEF ScanChunk, TypeOK, Heights
      <3>2. job' # Idle => job'.next = ChunkEnd + 1
        BY <1>5, <1>t, RunningJob DEF ScanChunk, Jobs
      <3> QED BY <2>1, <3>1, <3>2
    <2>4. CASE job.next <= h /\ h <= ChunkEnd
      BY <2>1, <2>2, <2>4
    <2>5. CASE ~(job.next <= h /\ h <= ChunkEnd)
      <3>1. h <= tip \/ h < job.next
        BY <2>1, <2>3, <2>5
      <3>2. Fine(a, h)
        BY <1>5, <1>g, <2>2, <3>1 DEF ScanChunk
      <3>3. ASSUME job.kind = "new", job.next <= h, h <= job.target
            PROVE  Owed(h)'
        <4>1. ChunkEnd # job.target /\ ChunkEnd + 1 <= h
          BY <2>1, <2>5, <3>3
        <4>2. job' = [job EXCEPT !.next = ChunkEnd + 1] /\ job \in Jobs
          BY <1>5, <1>t, <4>1, RunningJob DEF ScanChunk
        <4>3. job'.kind = "new" /\ job'.next <= h /\ h <= job'.target
          BY <3>3, <4>1, <4>2 DEF Jobs
        <4> QED BY <4>3 DEF Owed
      <3>4. Owed(h) => Owed(h)'
        BY <1>0, <1>5, <3>3 DEF ScanChunk, Owed
      <3> QED BY <2>2, <3>2, <3>4
    <2> QED BY <2>4, <2>5
  <1>6. ASSUME /\ job' = Idle
               /\ tip' <= tip /\ tip' \in Nat
               /\ \A a \in Accounts : birth'[a] # 0 =>
                     birth[a] # 0 /\ scanned[a] \subseteq scanned'[a]
               /\ lost \cup Abandoned \subseteq lost'
               /\ \A a \in Accounts : pending[a] > 0 =>
                     pending'[a] > 0 \/ B \in lost'
        PROVE  GapsAreOwed' /\ NoBlindJob'
    <2> SUFFICES ASSUME NEW a \in Accounts, birth'[a] # 0, NEW h \in Nat, B <= h,
                        h <= tip'
                 PROVE  h \in scanned'[a] \/ Owed(h)'
      BY <1>6, <1>s
    <2>1. h <= tip
      BY <1>6, <1>t DEF TypeOK, Heights
    <2>2. Fine(a, h)
      BY <1>6, <1>g, <2>1
    <2> QED BY <1>6, <1>d, <2>2
  <1>7. CASE JobFails
    BY <1>6, <1>7, <1>t DEF JobFails, db, TypeOK, Heights
  <1>8. CASE UpdateTipFails
    <2>1. \A a \in Accounts : birth'[a] # 0 =>
              birth[a] # 0 /\ scanned[a] \subseteq scanned'[a]
      BY <1>8, <1>f DEF UpdateTipFails, ScanTo, Blocks
    <2> QED BY <1>6, <1>8, <1>f, <2>1 DEF UpdateTipFails
  <1>9. CASE Restart
    <2>1. \A a \in Accounts : birth'[a] # 0 =>
              birth[a] # 0 /\ scanned[a] \subseteq scanned'[a]
      BY <1>9, <1>f DEF Restart
    <2>2. \A a \in Accounts : pending[a] > 0 => B \in lost'
      BY <1>0, <1>9 DEF Restart
    <2> QED BY <1>6, <1>9, <1>f, <2>1, <2>2 DEF Restart
  <1> QED
    BY <1>1, <1>2, <1>3, <1>4, <1>5, <1>7, <1>8, <1>9
       DEF Next, vars, db, MineBlock, Reset

\* Whatever the order of registrations, chunks, failures and restarts, a block
\* up to the tip that was not scanned for an account is one that a
\* SyncNewAccount still owes it or failed to scan.
THEOREM ZcashSyncGapsAreOwed == OneBirthday /\ Spec => []GapsAreOwed
  <1>1. IInv /\ [Next]_vars => IInv'
    <2> SUFFICES ASSUME IInv, [Next]_vars PROVE IInv'
      OBVIOUS
    <2>1. OneBirthday'
      BY DEF IInv, OneBirthday, SameBirthday
    <2> QED BY <2>1, TypeStep, BirthdaysStep, GapsStep DEF IInv
  <1>2. IInv => GapsAreOwed
    BY DEF IInv
  <1> QED
    BY IInit, <1>1, <1>2, PTL DEF Spec
=============================================================================

---------------------------- MODULE StorageProofs -----------------------------
(* Proofs about what is stored on disk: the seed store of keypunkd and the *)
(* signing that reads it (Keypunk), and the database that paypunkd brings  *)
(* up to date (Migrations, whose general names carry an M).                *)
EXTENDS Keypunk, Migrations, TLAPS

-----------------------------------------------------------------------------
(* keypunkd, for every number of clients, artifacts, seeds, passwords and  *)
(* restarts                                                                *)

\* A blob being stored is in seed.enc already and nothing is acknowledged.
WritingIsSeed == Stored(writing) => seedFile = writing /\ ~Stored(acked)

\* No preview is older than the first process or newer than the running one.
PreviewsAreOld == \A p \in previews : p.by <= boot

\* The inductive invariant behind the theorems of this module.
KInv == /\ TypeOK
        /\ WritingIsSeed
        /\ PreviewsAreOld
        /\ AckedIsStored
        /\ SignedWasPreviewed

USE DEF Stored, NoBlob

\* The first process finds empty stores: every conjunct holds.
LEMMA KInit == Init => KInv
<1> SUFFICES ASSUME Init PROVE KInv
  OBVIOUS
<1>1. TypeOK
  BY KeypunkAssumption DEF Init, TypeOK, OptBlob
<1> QED
  BY <1>1 DEF Init, KInv, WritingIsSeed, PreviewsAreOld, AckedIsStored,
              SignedWasPreviewed

\* Writing seed.enc: shared by GenerateSeed and RestoreSeed.
LEMMA WriteSeedStep ==
  ASSUME KInv, NEW s \in Seeds, NEW pw \in Passwords, WriteSeed(s, pw)
  PROVE  KInv'
<1>1. TypeOK'
  BY DEF KInv, WriteSeed, TypeOK, OptBlob, Blob
<1>2. WritingIsSeed' /\ AckedIsStored'
  BY DEF KInv, WriteSeed, WritingIsSeed, AckedIsStored
<1>3. PreviewsAreOld' /\ SignedWasPreviewed'
  BY DEF KInv, WriteSeed, PreviewsAreOld, SignedWasPreviewed
<1> QED
  BY <1>1, <1>2, <1>3 DEF KInv

\* The invariant is preserved by every handler, by a failed write and by the
\* death of the process.
LEMMA KStep == KInv /\ [Next]_vars => KInv'
<1> SUFFICES ASSUME KInv, [Next]_vars PROVE KInv'
  OBVIOUS
<1> USE KeypunkAssumption DEF KInv
<1>1. ASSUME NEW c \in Clients, RegisterClient(c) PROVE KInv'
  BY <1>1 DEF RegisterClient, TypeOK, WritingIsSeed, PreviewsAreOld,
              AckedIsStored, SignedWasPreviewed
<1>2. ASSUME NEW c \in Clients, NEW pw \in Passwords, GenerateSeed(c, pw)
      PROVE  KInv'
  <2> PICK s \in Seeds : WriteSeed(s, pw)
    BY <1>2 DEF GenerateSeed
  <2> QED
    BY WriteSeedStep
<1>3. ASSUME NEW c \in Clients, NEW s \in Seeds, NEW pw \in Passwords,
             RestoreSeed(c, s, pw)
      PROVE  KInv'
  BY <1>3, WriteSeedStep DEF RestoreSeed
<1>4. CASE WriteMnemonic
  BY <1>4 DEF WriteMnemonic, TypeOK, OptBlob, WritingIsSeed, PreviewsAreOld,
              AckedIsStored, SignedWasPreviewed
<1>5. CASE WriteMnemonicFails
  BY <1>5 DEF WriteMnemonicFails, TypeOK, OptBlob, WritingIsSeed,
              PreviewsAreOld, AckedIsStored, SignedWasPreviewed
<1>6. ASSUME NEW c \in Clients, NEW a \in Artifacts, NEW path \in Paths,
             PreviewArtifact(c, a, path)
      PROVE  KInv'
  <2>1. TypeOK'
    BY <1>6 DEF PreviewArtifact, TypeOK, Preview
  <2>2. PreviewsAreOld'
    BY <1>6 DEF PreviewArtifact, PreviewsAreOld, TypeOK
  <2>3. WritingIsSeed' /\ AckedIsStored' /\ SignedWasPreviewed'
    BY <1>6 DEF PreviewArtifact, WritingIsSeed, AckedIsStored,
                SignedWasPreviewed
  <2> QED
    BY <2>1, <2>2, <2>3
<1>7. ASSUME NEW c \in Clients, NEW a \in Artifacts, NEW path \in Paths,
             NEW p \in previews, NEW pw \in Passwords,
             AuthorizeArtifact(c, a, path, p, pw)
      PROVE  KInv'
  <2>1. /\ p \in Preview
        /\ p = [by |-> p.by, to |-> p.to, artifact |-> p.artifact,
                path |-> p.path]
    BY DEF TypeOK, Preview
  <2>2. DecryptSeed(pw) \in Seeds
    BY <1>7 DEF AuthorizeArtifact, DecryptSeed, TypeOK, OptBlob, Blob
  <2>3. TypeOK'
    BY <1>7, <2>2 DEF AuthorizeArtifact, TypeOK, Signature
  <2>4. p.by = boot /\ p.to = c /\ p.artifact = a /\ p.path = path
    BY <1>7 DEF AuthorizeArtifact, Verifies
  <2>5. SignedWasPreviewed'
    BY <1>7, <2>1, <2>4 DEF AuthorizeArtifact, SignedWasPreviewed
  <2>6. WritingIsSeed' /\ AckedIsStored' /\ PreviewsAreOld'
    BY <1>7 DEF AuthorizeArtifact, WritingIsSeed, AckedIsStored,
                PreviewsAreOld
  <2> QED
    BY <2>3, <2>5, <2>6
<1>8. CASE Restart
  <2>1. TypeOK' /\ PreviewsAreOld'
    BY <1>8 DEF Restart, TypeOK, OptBlob, PreviewsAreOld, Preview
  <2>2. WritingIsSeed' /\ AckedIsStored' /\ SignedWasPreviewed'
    BY <1>8 DEF Restart, WritingIsSeed, AckedIsStored, SignedWasPreviewed
  <2> QED
    BY <2>1, <2>2
<1>9. CASE UNCHANGED vars
  BY <1>9 DEF vars, TypeOK, WritingIsSeed, PreviewsAreOld, AckedIsStored,
              SignedWasPreviewed
<1> QED
  BY <1>1, <1>2, <1>3, <1>4, <1>5, <1>6, <1>7, <1>8, <1>9 DEF Next

\* The strengthened invariant holds in every reachable state.
THEOREM KInvariant == Spec => []KInv
  BY KInit, KStep, PTL DEF Spec

\* Type correctness of keypunkd for any constants.
THEOREM KeypunkTypeCorrect == Spec => []TypeOK
<1>1. KInv => TypeOK
  BY DEF KInv
<1> QED
  BY <1>1, KInvariant, PTL

\* Nothing is ever signed that this process did not preview for this client.
THEOREM KeypunkSignedWasPreviewed == Spec => []SignedWasPreviewed
<1>1. KInv => SignedWasPreviewed
  BY DEF KInv
<1> QED
  BY <1>1, KInvariant, PTL

\* An acknowledged seed stays stored, with its phrase, until the next request.
THEOREM KeypunkAckedIsStored == Spec => []AckedIsStored
<1>1. KInv => AckedIsStored
  BY DEF KInv
<1> QED
  BY <1>1, KInvariant, PTL

-----------------------------------------------------------------------------
(* Refinement: keypunkd implements the signing service.                    *)

\* The empty store and no preview map to the abstract initial state.
LEMMA RefineInit == Init => Service!SInit
  BY DEF Init, Service!SInit, Approvals, Current

\* Every handler maps to one abstract step or to a stutter; the death of the
\* process is Forget because no preview was made by the process to come.
LEMMA RefineStep == KInv /\ [Next]_vars => [Service!SNext]_(Service!svars)
<1> SUFFICES ASSUME KInv, [Next]_vars
             PROVE  Service!SNext \/ UNCHANGED Service!svars
  OBVIOUS
<1> USE DEF Service!svars, Service!SNext
<1>0. TypeOK /\ PreviewsAreOld
  BY DEF KInv
<1>1. ASSUME NEW c \in Clients, RegisterClient(c)
      PROVE  UNCHANGED Service!svars
  BY <1>1 DEF RegisterClient, Approvals, Current
<1>2. ASSUME NEW s \in Seeds, NEW pw \in Passwords, WriteSeed(s, pw)
      PROVE  Service!Replace
  BY <1>2 DEF WriteSeed, Approvals, Current, Service!Replace
<1>3. ASSUME WriteMnemonic \/ WriteMnemonicFails
      PROVE  UNCHANGED Service!svars
  BY <1>3 DEF WriteMnemonic, WriteMnemonicFails, Approvals, Current
<1>4. ASSUME NEW c \in Clients, NEW a \in Artifacts, NEW path \in Paths,
             PreviewArtifact(c, a, path)
      PROVE  Service!Approve
  <2> DEFINE e == [to |-> c, artifact |-> a, path |-> path]
  <2>1. e \in Service!Approval
    BY DEF Service!Approval
  <2> DEFINE new == [by |-> boot, to |-> c, artifact |-> a, path |-> path]
  <2>2. Current' = Current \cup {new}
    BY <1>4 DEF PreviewArtifact, Current
  <2>3. Approvals' = Approvals \cup {e}
    <3>1. new.to = c /\ new.artifact = a /\ new.path = path
      OBVIOUS
    <3>2. \A x : x \in Approvals' <=>
                  \E q \in Current' : x = [to |-> q.to,
                                            artifact |-> q.artifact,
                                            path |-> q.path]
      BY DEF Approvals
    <3>3. \A x : x \in Approvals <=>
                  \E q \in Current : x = [to |-> q.to,
                                           artifact |-> q.artifact,
                                           path |-> q.path]
      BY DEF Approvals
    <3> HIDE DEF new
    <3> QED
      BY <2>2, <3>1, <3>2, <3>3
  <2> QED
    BY <1>4, <2>1, <2>3 DEF PreviewArtifact, Service!Approve
<1>5. ASSUME NEW c \in Clients, NEW a \in Artifacts, NEW path \in Paths,
             NEW p \in previews, NEW pw \in Passwords,
             AuthorizeArtifact(c, a, path, p, pw)
      PROVE  Service!Sign
  <2> DEFINE e == [to |-> p.to, artifact |-> p.artifact, path |-> p.path]
  <2>1. /\ p.by = boot /\ p.to = c /\ p.artifact = a /\ p.path = path
        /\ DecryptSeed(pw) = seedFile.seed /\ seedFile.seed # None
    BY <1>5 DEF AuthorizeArtifact, Verifies, DecryptSeed
  <2>2. e \in Approvals
    BY <2>1 DEF Approvals, Current
  <2>3. UNCHANGED <<Approvals, seedFile>>
    BY <1>5 DEF AuthorizeArtifact, Approvals, Current
  <2>4. signature' = [by |-> boot, to |-> c, artifact |-> a, path |-> path,
                      seed |-> seedFile.seed]
    BY <1>5, <2>1 DEF AuthorizeArtifact
  <2>5. signature' # None
    <3>1. seedFile.seed \in Seeds
      BY <1>0, <2>1 DEF TypeOK, OptBlob, Blob
    <3> QED
      BY <1>0, <2>4, <3>1, KeypunkAssumption DEF TypeOK, Signature
  <2> QED
    BY <2>1, <2>2, <2>3, <2>4, <2>5 DEF Service!Sign
<1>6. ASSUME Restart PROVE Service!Forget
  <2>1. Approvals' = {}
    BY <1>6, <1>0 DEF Restart, Approvals, Current, PreviewsAreOld, TypeOK, Preview
  <2> QED
    BY <1>6, <2>1 DEF Restart, Service!Forget
<1>7. CASE UNCHANGED vars
  BY <1>7 DEF vars, Approvals, Current
<1> QED
  BY <1>1, <1>2, <1>3, <1>4, <1>5, <1>6, <1>7
     DEF Next, GenerateSeed, RestoreSeed

\* keypunkd implements the abstract signing service, for any constants.
THEOREM KeypunkImplementsService == Spec => ImplementsService
<1>1. Init => Service!SInit
  BY RefineInit
<1>2. KInv /\ [Next]_vars => [Service!SNext]_(Service!svars)
  BY RefineStep
<1> QED
  BY <1>1, <1>2, KInvariant, PTL DEF Spec, ImplementsService, Service!SSpec

-----------------------------------------------------------------------------
(* The database migrations, for any number of processes, ends and          *)
(* accounts, as long as one process at a time has the database open       *)

\* One process at a time is on.
Alone == \A p, q \in Procs : pc[p].step # "off" /\ pc[q].step # "off" => p = q

\* Versions are recorded in order.
InOrder == \A v \in recorded, w \in Versions : w < v => w \in recorded

\* What the recorded versions say about the tables.  The column of version 7
\* can be there before its row: the process is just between the two, or one
\* has ended there.
Forming ==
    /\ 2 \notin recorded => rows = 0
    /\ 2 \in recorded => accounts \in {"keys", "birthday"}
    /\ 7 \in recorded => accounts = "birthday"
    /\ \A v \in Plain : v \in recorded => v \in tables
    /\ accounts = "birthday" =>
         /\ 6 \in recorded
         /\ \/ 7 \in recorded \/ torn
            \/ \E p \in Procs : pc[p] = [at |-> 7, step |-> "record"]

\* What the place of a process says.
Placed(p) ==
    /\ pc[p].step # "off" => \A w \in Versions : w < pc[p].at => w \in recorded
    /\ pc[p].step \in {"up", "create", "record"} => pc[p].at \notin recorded
    /\ pc[p].step = "create" => pc[p].at = 2 /\ accounts = "none"
    /\ pc[p].step = "record" => /\ pc[p].at = 2 => accounts = "keys"
                                /\ pc[p].at \in Plain => pc[p].at \in tables
                                /\ pc[p].at = 7 => accounts = "birthday"
    /\ pc[p].step = "open" => 7 \in recorded
    /\ pc[p].step = "failed" => torn

\* The inductive invariant behind the theorems of this module.
MInv == /\ ~Together
        /\ MTypeOK
        /\ Alone
        /\ InOrder
        /\ Forming
        /\ \A p \in Procs : Placed(p)

USE DEF Versions, Plain, Steps, Forms, Off

\* A database of any release is well formed and no process is on.
LEMMA MInvInit == ~Together /\ MInit => MInv
<1> SUFFICES ASSUME ~Together, MInit PROVE MInv
  OBVIOUS
<1>1. PICK k \in 0..7 : /\ accounts = FormAt(k)
                        /\ tables = {v \in Plain : v <= k}
                        /\ recorded = 1..k
                        /\ rows \in IF k < 2 THEN {0} ELSE 0..MaxRows
  BY DEF MInit
<1>2. MTypeOK
  <2>1. MaxRows \in Nat /\ MaxStops \in Nat
    BY MigrationsAssumption
  <2>2. accounts \in Forms /\ tables \subseteq Plain /\ recorded \subseteq Versions
    BY <1>1 DEF FormAt
  <2>3. rows \in 0..MaxRows
    BY <1>1, <2>1
  <2>4. Off \in [at : Versions, step : Steps]
    OBVIOUS
  <2>5. pc \in [Procs -> [at : Versions, step : Steps]]
    BY <2>4 DEF MInit
  <2>6. stops \in 0..MaxStops
    BY <2>1 DEF MInit
  <2>7. torn \in BOOLEAN
    BY DEF MInit
  <2> QED
    BY <2>2, <2>3, <2>5, <2>6, <2>7 DEF MTypeOK
<1>3. Alone /\ \A p \in Procs : Placed(p)
  BY DEF MInit, Alone, Placed
<1>4. InOrder
  BY <1>1 DEF InOrder
<1>5. Forming
  <2>1. CASE k < 2
    BY <1>1, <2>1 DEF Forming, FormAt
  <2>2. CASE k \in 2..6
    BY <1>1, <2>2 DEF Forming, FormAt
  <2>3. CASE k = 7
    BY <1>1, <2>3 DEF Forming, FormAt
  <2> QED
    BY <2>1, <2>2, <2>3
<1> QED
  BY <1>2, <1>3, <1>4, <1>5 DEF MInv

\* A process that takes a step while it is on is the only one.
LEMMA OthersOff ==
  ASSUME MInv, NEW p \in Procs, pc[p].step # "off"
  PROVE  \A q \in Procs : q # p => pc[q].step = "off"
BY DEF MInv, Alone

\* Alone and the places of the others survive a step of the only process that
\* is on: the places of processes that are off claim nothing.
LEMMA OthersStay ==
  ASSUME MInv, MInv, NEW p \in Procs, NEW x,
         \A q \in Procs : q # p => pc[q].step = "off",
         pc' = [pc EXCEPT ![p] = x], Placed(p)'
  PROVE  Alone' /\ \A q \in Procs : Placed(q)'
<1>1. \A q \in Procs : q # p => pc'[q].step = "off"
  BY DEF MInv, MTypeOK
<1> QED
  BY <1>1 DEF Alone, Placed

\* The next version, or open.
LEMMA AdvanceStep ==
  ASSUME MTypeOK, NEW p \in Procs, Advance(p)
  PROVE  /\ pc' = [pc EXCEPT ![p] = pc'[p]]
         /\ pc[p].at < 7 => pc'[p] = [at |-> pc[p].at + 1, step |-> "check"]
         /\ pc[p].at = 7 => pc'[p] = [at |-> 7, step |-> "open"]
         /\ pc' \in [Procs -> [at : Versions, step : Steps]]
BY DEF MTypeOK, Advance

LEMMA GoStep ==
  ASSUME MTypeOK, NEW p \in Procs, NEW s \in Steps, Go(p, s)
  PROVE  /\ pc' = [pc EXCEPT ![p] = pc'[p]]
         /\ pc'[p] = [at |-> pc[p].at, step |-> s]
         /\ pc' \in [Procs -> [at : Versions, step : Steps]]
BY DEF MTypeOK, Go

\* Every step of a process preserves the invariant.
LEMMA MInvStep == MInv /\ [MNext]_mvars => MInv'
<1> SUFFICES ASSUME MInv, [MNext]_mvars PROVE MInv'
  OBVIOUS
<1>t. MTypeOK /\ ~Together
  BY DEF MInv
<1>1. ASSUME NEW p \in Procs, Start(p) PROVE MInv'
  <2>1. /\ \A q \in Procs : q # p => pc[q].step = "off"
        /\ pc' = [pc EXCEPT ![p] = [at |-> 1, step |-> "check"]]
        /\ UNCHANGED <<accounts, tables, recorded, rows, stops, torn>>
    BY <1>1, <1>t DEF Start, db
  <2>2. pc'[p] = [at |-> 1, step |-> "check"] /\ MTypeOK'
    BY <2>1, <1>t DEF MTypeOK
  <2>3. Placed(p)'
    BY <2>1, <2>2 DEF Placed
  <2>4. InOrder' /\ Forming'
    <3>1. \A q \in Procs : pc[q].step = "off"
      BY <1>1, <1>t DEF Start
    <3> QED
      BY <2>1, <3>1 DEF MInv, InOrder, Forming
  <2> QED
    BY <2>1, <2>2, <2>3, <2>4, OthersStay DEF MInv
<1>2. ASSUME NEW p \in Procs, Check(p) PROVE MInv'
  <2>1. \A q \in Procs : q # p => pc[q].step = "off"
    BY <1>2, OthersOff DEF Check
  <2>2. UNCHANGED <<accounts, tables, recorded, rows, stops, torn>>
    BY <1>2 DEF Check, db
  <2>3. /\ pc' = [pc EXCEPT ![p] = pc'[p]]
        /\ \/ /\ pc[p].at \in recorded /\ pc[p].at < 7
              /\ pc'[p] = [at |-> pc[p].at + 1, step |-> "check"]
           \/ 7 \in recorded /\ pc'[p] = [at |-> 7, step |-> "open"]
           \/ /\ pc[p].at \notin recorded
              /\ pc'[p] = [at |-> pc[p].at, step |-> "up"]
        /\ pc' \in [Procs -> [at : Versions, step : Steps]]
    <3>1. CASE pc[p].at \in recorded
      BY <3>1, <1>2, <1>t, AdvanceStep DEF Check, MTypeOK
    <3>2. CASE pc[p].at \notin recorded
      BY <3>2, <1>2, <1>t, GoStep DEF Check
    <3> QED
      BY <3>1, <3>2
  <2>4. MTypeOK'
    BY <2>2, <2>3, <1>t DEF MTypeOK
  <2>5. Placed(p) /\ pc[p].step = "check" /\ pc[p].at \in Versions
    BY <1>2, <1>t DEF Check, MInv, MTypeOK
  <2>6. Placed(p)'
    <3>1. CASE /\ pc[p].at \in recorded /\ pc[p].at < 7
               /\ pc'[p] = [at |-> pc[p].at + 1, step |-> "check"]
      <4>1. \A w \in Versions : w < pc[p].at + 1 => w \in recorded
        BY <2>5, <3>1 DEF Placed
      <4> QED
        BY <2>2, <3>1, <4>1 DEF Placed
    <3>2. CASE 7 \in recorded /\ pc'[p] = [at |-> 7, step |-> "open"]
      BY <1>t, <2>2, <3>2 DEF MInv, InOrder, Placed
    <3>3. CASE /\ pc[p].at \notin recorded
               /\ pc'[p] = [at |-> pc[p].at, step |-> "up"]
      BY <2>2, <2>5, <3>3 DEF Placed
    <3> QED
      BY <2>3, <3>1, <3>2, <3>3
  <2>7. InOrder' /\ Forming'
    BY <2>1, <2>2, <2>5 DEF MInv, InOrder, Forming
  <2> QED
    BY <2>1, <2>3, <2>4, <2>6, <2>7, OthersStay DEF MInv
<1>3. ASSUME NEW p \in Procs, Up(p) PROVE MInv'
  <2>1. \A q \in Procs : q # p => pc[q].step = "off"
    BY <1>3, OthersOff DEF Up
  <2>2. UNCHANGED <<recorded, stops, torn>>
    BY <1>3 DEF Up
  <2>3. /\ Placed(p) /\ pc[p].step = "up" /\ pc[p].at \in Versions
        /\ Forming /\ InOrder /\ rows \in 0..MaxRows /\ accounts \in Forms
        /\ tables \subseteq Plain /\ MaxRows \in Nat
    BY <1>3, <1>t, MigrationsAssumption DEF Up, MInv, MTypeOK
  <2>4. CASE ~CanRun(pc[p].at)
    <3>1. Go(p, "failed") /\ UNCHANGED <<accounts, tables, rows>>
      BY <1>3, <2>4 DEF Up
    <3>2. /\ pc' = [pc EXCEPT ![p] = pc'[p]]
          /\ pc'[p] = [at |-> pc[p].at, step |-> "failed"]
          /\ MTypeOK'
      BY <2>2, <3>1, <1>t, GoStep DEF MTypeOK
    <3>3. torn /\ 6 \in recorded /\ pc[p].at = 7
      <4>1. pc[p].at = 7 /\ accounts \notin {"names", "keys"}
        BY <2>4 DEF CanRun
      <4>2. 2 \in recorded /\ 7 \notin recorded
        BY <2>3, <4>1 DEF Placed
      <4>3. accounts = "birthday"
        BY <2>3, <4>1, <4>2 DEF Forming
      <4>4. \A q \in Procs : pc[q] # [at |-> 7, step |-> "record"]
        BY <2>1, <2>3
      <4> QED
        BY <2>3, <4>1, <4>2, <4>3, <4>4 DEF Forming
    <3>4. Placed(p)'
      BY <2>2, <2>3, <3>1, <3>2, <3>3 DEF Placed
    <3>5. InOrder' /\ Forming'
      BY <2>2, <2>3, <3>1, <3>3 DEF InOrder, Forming
    <3> QED
      BY <2>1, <3>2, <3>4, <3>5, OthersStay DEF MInv
  <2>5. CASE CanRun(pc[p].at) /\ pc[p].at = 2
    <3>1. /\ accounts' = "none" /\ rows' = 0 /\ tables' = tables
          /\ Go(p, "create")
      BY <1>3, <2>5 DEF Up
    <3>2. /\ pc' = [pc EXCEPT ![p] = pc'[p]]
          /\ pc'[p] = [at |-> 2, step |-> "create"]
          /\ pc' \in [Procs -> [at : Versions, step : Steps]]
      BY <2>5, <3>1, <1>t, GoStep
    <3>t. MTypeOK'
      <4>1. accounts' \in Forms /\ rows' \in 0..MaxRows /\ tables' \subseteq Plain
        BY <2>3, <3>1
      <4> QED
        BY <2>2, <3>2, <4>1, <1>t DEF MTypeOK
    <3>3. Placed(p)'
      BY <2>2, <2>3, <2>5, <3>1, <3>2 DEF Placed
    <3>4. InOrder' /\ Forming'
      <4>1. 2 \notin recorded /\ 7 \notin recorded
        BY <2>3, <2>5 DEF Placed, InOrder
      <4> QED
        BY <2>2, <2>3, <3>1, <4>1 DEF InOrder, Forming
    <3> QED
      BY <1>t, <2>1, <3>2, <3>t, <3>3, <3>4, OthersStay DEF MInv
  <2>6. CASE CanRun(pc[p].at) /\ pc[p].at # 2
    <3>1. /\ rows' = rows /\ Go(p, "record")
          /\ tables' = IF pc[p].at \in Plain THEN tables \cup {pc[p].at} ELSE tables
          /\ pc[p].at = 1 => accounts' = IF accounts = "none" THEN "names"
                                         ELSE accounts
          /\ pc[p].at = 7 => accounts' = "birthday"
          /\ pc[p].at \in Plain => accounts' = accounts
      BY <1>3, <2>3, <2>6 DEF Up
    <3>2. /\ pc' = [pc EXCEPT ![p] = pc'[p]]
          /\ pc'[p] = [at |-> pc[p].at, step |-> "record"]
          /\ pc' \in [Procs -> [at : Versions, step : Steps]]
      BY <3>1, <1>t, GoStep
    <3>3. MTypeOK'
      <4>1. tables' \subseteq Plain /\ rows' \in 0..MaxRows
        BY <2>3, <3>1
      <4>2. accounts' \in Forms
        BY <2>3, <2>6, <3>1
      <4> QED
        BY <2>2, <3>2, <4>1, <4>2, <1>t DEF MTypeOK
    <3>4. Placed(p)'
      BY <2>2, <2>3, <2>6, <3>1, <3>2 DEF Placed
    <3>5. InOrder'
      BY <2>2, <2>3 DEF InOrder
    <3>6. Forming'
      <4>1. CASE pc[p].at = 1
        <5>1. 2 \notin recorded /\ 7 \notin recorded /\ 6 \notin recorded
          BY <2>3, <4>1 DEF Placed, InOrder
        <5> QED
          BY <2>2, <2>3, <3>1, <4>1, <5>1 DEF Forming
      <4>2. CASE pc[p].at \in Plain
        <5>1. \A q \in Procs : pc[q] # [at |-> 7, step |-> "record"]
          BY <2>1, <2>3
        <5> QED
          BY <2>2, <2>3, <3>1, <4>2, <5>1 DEF Forming
      <4>3. CASE pc[p].at = 7
        <5>1. 2 \in recorded /\ 6 \in recorded
          BY <2>3, <4>3 DEF Placed
        <5>2. \E q \in Procs : pc'[q] = [at |-> 7, step |-> "record"]
          BY <3>2, <4>3
        <5> QED
          BY <2>2, <2>3, <3>1, <4>3, <5>1, <5>2 DEF Forming
      <4> QED
        BY <2>3, <2>6, <4>1, <4>2, <4>3
    <3> QED
      BY <2>1, <3>2, <3>3, <3>4, <3>5, <3>6, OthersStay DEF MInv
  <2> QED
    BY <2>4, <2>5, <2>6
<1>4. ASSUME NEW p \in Procs, CreateAccounts(p) PROVE MInv'
  <2>1. \A q \in Procs : q # p => pc[q].step = "off"
    BY <1>4, OthersOff DEF CreateAccounts
  <2>2. Placed(p) /\ pc[p].step = "create" /\ Forming /\ InOrder
    BY <1>4 DEF CreateAccounts, MInv
  <2>3. /\ accounts = "none" /\ pc[p].at = 2
        /\ 2 \notin recorded /\ 7 \notin recorded
    BY <2>2 DEF Placed, InOrder
  <2>4. /\ accounts' = "keys" /\ Go(p, "record")
        /\ UNCHANGED <<tables, recorded, rows, stops, torn>>
    BY <1>4, <2>3 DEF CreateAccounts
  <2>5. /\ pc' = [pc EXCEPT ![p] = pc'[p]]
        /\ pc'[p] = [at |-> 2, step |-> "record"]
        /\ MTypeOK'
    BY <2>3, <2>4, <1>t, GoStep DEF MTypeOK
  <2>6. Placed(p)'
    BY <2>2, <2>3, <2>4, <2>5 DEF Placed
  <2>7. InOrder' /\ Forming'
    BY <2>2, <2>3, <2>4 DEF InOrder, Forming
  <2> QED
    BY <2>1, <2>5, <2>6, <2>7, OthersStay DEF MInv
<1>5. ASSUME NEW p \in Procs, Record(p) PROVE MInv'
  <2>1. \A q \in Procs : q # p => pc[q].step = "off"
    BY <1>5, OthersOff DEF Record
  <2>2. /\ Placed(p) /\ pc[p].step = "record" /\ Forming /\ InOrder
        /\ pc[p].at \in Versions
    BY <1>5, <1>t DEF Record, MInv, MTypeOK
  <2>3. pc[p].at \notin recorded
    BY <2>2 DEF Placed
  <2>4. /\ Advance(p) /\ recorded' = recorded \cup {pc[p].at}
        /\ UNCHANGED <<accounts, tables, rows, stops, torn>>
    BY <1>5, <2>3 DEF Record
  <2>5. /\ pc' = [pc EXCEPT ![p] = pc'[p]]
        /\ pc[p].at < 7 => pc'[p] = [at |-> pc[p].at + 1, step |-> "check"]
        /\ pc[p].at = 7 => pc'[p] = [at |-> 7, step |-> "open"]
        /\ MTypeOK'
    BY <2>2, <2>4, <1>t, AdvanceStep DEF MTypeOK
  <2>6. \A w \in Versions : w < pc[p].at + 1 => w \in recorded'
    BY <2>2, <2>4 DEF Placed
  <2>7. Placed(p)'
    BY <2>2, <2>4, <2>5, <2>6 DEF Placed
  <2>8. InOrder'
    BY <2>2, <2>4, <2>6 DEF InOrder
  <2>9. Forming'
    <3>1. CASE pc[p].at = 7
      BY <2>2, <2>4, <3>1 DEF Forming, Placed
    <3>2. CASE pc[p].at # 7
      <4>1. pc[p] # [at |-> 7, step |-> "record"]
        BY <3>2
      <4>2. 7 \notin recorded /\ 7 \notin recorded'
        BY <2>2, <2>3, <2>4, <3>2 DEF InOrder
      <4>3. accounts = "birthday" => 6 \in recorded /\ torn
        BY <2>1, <2>2, <4>1, <4>2 DEF Forming
      <4>4. accounts # "birthday" \/ 2 \in recorded
        BY <2>2, <4>3 DEF InOrder
      <4> QED
        BY <2>2, <2>4, <4>2, <4>3, <4>4 DEF Forming, Placed
    <3> QED
      BY <3>1, <3>2
  <2> QED
    BY <2>1, <2>5, <2>7, <2>8, <2>9, OthersStay DEF MInv
<1>6. ASSUME NEW p \in Procs, SaveAccount(p) PROVE MInv'
  <2>1. /\ rows' = rows + 1 /\ rows < MaxRows
        /\ UNCHANGED <<accounts, tables, recorded, pc, stops, torn>>
    BY <1>6 DEF SaveAccount
  <2>2. 2 \in recorded
    BY <1>6 DEF SaveAccount, MInv, Placed, InOrder
  <2>3. MTypeOK'
    BY <2>1, <1>t, MigrationsAssumption DEF MTypeOK
  <2>4. Alone' /\ InOrder' /\ \A q \in Procs : Placed(q)'
    BY <2>1 DEF MInv, Alone, InOrder, Placed
  <2>5. Forming'
    BY <2>1, <2>2 DEF MInv, Forming
  <2> QED
    BY <2>3, <2>4, <2>5 DEF MInv
<1>7. ASSUME NEW p \in Procs, Stop(p) PROVE MInv'
  <2>1. /\ \A q \in Procs : q # p => pc[q].step = "off"
        /\ pc' = [pc EXCEPT ![p] = Off]
        /\ stops < MaxStops /\ stops' = stops + 1
        /\ torn' = (torn \/ pc[p] = [at |-> 7, step |-> "record"])
        /\ UNCHANGED <<accounts, tables, recorded, rows>>
    BY <1>7, OthersOff DEF Stop, db
  <2>2. pc'[p] = Off /\ MTypeOK'
    BY <2>1, <1>t, MigrationsAssumption DEF MTypeOK
  <2>3. Placed(p)'
    BY <2>2 DEF Placed
  <2>4. InOrder' /\ Forming /\ (torn => torn')
    BY <2>1 DEF MInv, InOrder
  <2>5. ASSUME NEW q \in Procs, pc[q] = [at |-> 7, step |-> "record"]
        PROVE  torn'
    <3>1. pc[q].step # "off"
      BY <2>5
    <3> QED
      BY <2>1, <2>5, <3>1
  <2>6. Forming'
    BY <2>1, <2>4, <2>5 DEF Forming
  <2> QED
    BY <1>t, <2>1, <2>2, <2>3, <2>4, <2>6, OthersStay DEF MInv
<1>8. CASE UNCHANGED mvars
  BY <1>8 DEF mvars, db, MInv, MTypeOK, Alone, InOrder, Forming, Placed
<1> QED
  BY <1>1, <1>2, <1>3, <1>4, <1>5, <1>6, <1>7, <1>8 DEF MNext, Step

-----------------------------------------------------------------------------
(* Theorems                                                                *)

\* Every variable stays in its set, from whatever release the database came.
THEOREM MigrationsTypeCorrect == ~Together /\ MSpec => []MTypeOK
<1>1. MInv => MTypeOK
  BY DEF MInv
<1> QED
  BY MInvInit, MInvStep, <1>1, PTL DEF MSpec

\* A process that serves requests has every table in its newest form,
\* wherever Migrator::migrate was interrupted before.
THEOREM MigrationsOpenIsComplete == ~Together /\ MSpec => []OpenIsComplete
<1>1. MInv => OpenIsComplete
  <2> SUFFICES ASSUME MInv, NEW p \in Procs, pc[p].step = "open"
               PROVE  accounts = "birthday" /\ tables = Plain
                      /\ recorded = Versions
    BY DEF OpenIsComplete
  <2>1. 7 \in recorded /\ recorded \subseteq Versions /\ tables \subseteq Plain
    BY DEF MInv, MTypeOK, Placed
  <2>2. ASSUME NEW w \in Versions PROVE w \in recorded
    <3>1. w = 7 \/ w < 7
      OBVIOUS
    <3> QED
      BY <2>1, <3>1 DEF MInv, InOrder
  <2>3. recorded = Versions
    BY <2>1, <2>2
  <2>4. tables = Plain
    <3>1. \A v \in Plain : v \in tables
      BY <2>2 DEF MInv, Forming
    <3> QED
      BY <2>1, <3>1
  <2> QED
    BY <2>1, <2>3, <2>4 DEF MInv, Forming
<1> QED
  BY MInvInit, MInvStep, <1>1, PTL DEF MSpec

\* Only an end between the ALTER TABLE of version 7 and its row makes an open
\* of the database fail.
THEOREM MigrationsFailsOnlyTorn == ~Together /\ MSpec => []FailsOnlyTorn
<1>1. MInv => FailsOnlyTorn
  BY DEF MInv, Placed, FailsOnlyTorn
<1> QED
  BY MInvInit, MInvStep, <1>1, PTL DEF MSpec

\* Version 2, which drops the table of accounts, is only done while it is
\* empty: no start of paypunkd loses an account.
THEOREM MigrationsAccountsSurvive == ~Together /\ MSpec => AccountsSurvive
<1>1. MInv /\ [MNext]_mvars => [rows' >= rows]_mvars
  <2> SUFFICES ASSUME MInv, MNext PROVE rows' >= rows
    OBVIOUS
  <2>1. rows \in Nat /\ MaxRows \in Nat
    BY MigrationsAssumption DEF MInv, MTypeOK
  <2>2. ASSUME NEW p \in Procs, Up(p) PROVE rows' >= rows
    <3>1. CASE pc[p].at = 2
      <4>1. rows = 0
        BY <2>2, <3>1 DEF Up, MInv, Placed, Forming
      <4> QED
        BY <2>2, <4>1, <3>1, <2>1 DEF Up
    <3>2. CASE pc[p].at # 2
      BY <2>1, <2>2, <3>2 DEF Up
    <3> QED
      BY <3>1, <3>2
  <2> QED
    BY <2>1, <2>2 DEF MNext, Step, Start, Check, CreateAccounts, Record,
                      SaveAccount, Stop, db
<1> QED
  BY MInvInit, MInvStep, <1>1, PTL DEF MSpec, AccountsSurvive
=============================================================================

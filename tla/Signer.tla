------------------------------- MODULE Signer -------------------------------
(***************************************************************************)
(* The offline signer: the app on the phone, with its pages and its        *)
(* SignerState, the bridge page that shows a request and scans an answer,  *)
(* and what paypunkd does with the answer, above all registration.         *)
(*                                                                         *)
(* Person and QR codes are the channel: a code stays on a screen after its *)
(* request is over, and either side may scan what the other still shows.   *)
(* Bridge.tla has how an answer finds the request that waits; here there   *)
(* is one paypunkd, with one request at a time.  A request is a number,    *)
(* which is also its challenge or its transaction.                         *)
(*                                                                         *)
(* Left out: the ping test, birthdays, the scanner, sealing and its keys,  *)
(* except that a restarted app has lost the key its previews are sealed by.*)
(***************************************************************************)
EXTENDS Naturals, Sequences

CONSTANTS Seeds,        \* seeds that the app generates or restores
          PathCount,    \* derivation paths of a registration
          MaxRequests,  \* bound: requests of paypunkd
          MaxRows,      \* bound: account rows, so registrations
          None

Requests == 1..MaxRequests
Paths == 1..PathCount
OptSeed == Seeds \cup {None}
Kinds == {"register", "verify", "zcash", "ethereum"}

ASSUME SignerAssumption == /\ {PathCount, MaxRequests, MaxRows} \subseteq Nat
                           /\ None \notin Seeds

VARIABLES kind,      \* kinds of the requests so far
          waiting,   \* the request paypunkd waits for, or 0
          qr,        \* the request on the bridge page, or 0
          seed,      \* seed.enc of the phone, or None
          session,   \* the app has a session key
          page,      \* page of the app
          status,    \* SignerStatus: its variant and the request it is about
          scanned,   \* scanResult, 0 if null
          shown,     \* transaction on the preview page, or 0
          last,      \* last_response, if it can be shown
          job,       \* registration that paypunkd is storing
          stored,    \* registration whose session key is stored, or 0
          keys,      \* pre_derived_keys: the registration of each, or 0
          rows,      \* accounts, in order
          marker,    \* .wallet_initialized exists
          signed     \* history: transactions signed, and shown as they were

phone == <<seed, session, page, status, scanned, shown, last, signed>>
db == <<stored, keys, rows, marker>>
svars == <<kind, waiting, qr, phone, job, db>>

\* "/", "/scan", "/register" before and after the keys were derived,
\* "/preview" and "/result".
Pages == {"onboarding", "scan", "register", "registered", "preview", "result"}

\* The pages that show last_response as a QR code.
AnswerPages == {"registered", "result"}

Number == 0..MaxRequests
Status == [is : {"idle", "previewing", "awaiting", "signed", "error"},
           of : Number]
Answer == [is : {"none", "registered", "signed"}, of : Number]
Job == [of : Number, request : Number, next : 0..(2 * PathCount + 2)]
Row == [path : Paths, of : Number, request : Number]
Idle == [is |-> "idle", of |-> 0]
NoAnswer == [is |-> "none", of |-> 0]
NoJob == [of |-> 0, request |-> 0, next |-> 0]

SInit == /\ kind = <<>>
         /\ waiting = 0
         /\ qr = 0
         /\ seed = None
         /\ session = FALSE
         /\ page = "onboarding"
         /\ status = Idle
         /\ scanned = 0
         /\ shown = 0
         /\ last = NoAnswer
         /\ job = NoJob
         /\ stored = 0
         /\ keys = [p \in Paths |-> 0]
         /\ rows = <<>>
         /\ marker = FALSE
         /\ signed = {}

-----------------------------------------------------------------------------
(* paypunkd asks                                                           *)

Free == waiting = 0 /\ job = NoJob

\* verify_signer_session reads the stored session key before it asks.
CanVerify == stored # 0

\* RegisterSigner, VerifySignerSession or SubmitIntent, forwarded to the
\* page.  Without an account there is nothing to send.
Ask(k) ==
    /\ Free
    /\ Len(kind) < MaxRequests
    /\ k = "verify" => CanVerify
    /\ k \in {"zcash", "ethereum"} => rows # <<>>
    /\ k = "register" => Len(rows) + PathCount <= MaxRows
    /\ kind' = Append(kind, k)
    /\ waiting' = Len(kind')
    /\ qr' = waiting'
    /\ UNCHANGED <<phone, job, db>>

\* The request is cancelled, or the bridge has no browser.
AskFails ==
    /\ waiting # 0
    /\ waiting' = 0
    /\ UNCHANGED <<kind, qr, phone, job, db>>

\* paypunkd dies and starts again; the page still shows its code.
RestartPaypunkd ==
    /\ ~Free
    /\ waiting' = 0
    /\ job' = NoJob
    /\ UNCHANGED <<kind, qr, phone, db>>

ReloadPage ==
    /\ qr # 0
    /\ qr' = 0
    /\ UNCHANGED <<kind, waiting, phone, job, db>>

-----------------------------------------------------------------------------
(* The app                                                                 *)

\* Onboarding without a seed: generate_seed, or restore_seed of the test
\* account.
GenerateSeed(s) ==
    /\ page = "onboarding" /\ seed = None
    /\ seed' = s
    /\ page' = "scan"
    /\ UNCHANGED <<kind, waiting, qr, session, status, scanned, shown, last,
                   signed, job, db>>

ContinueToScan ==
    /\ page = "onboarding" /\ seed # None
    /\ page' = "scan"
    /\ UNCHANGED <<kind, waiting, qr, seed, session, status, scanned, shown,
                   last, signed, job, db>>

\* Mutant: after Delete Wallet the scan page stays.
DeleteSeedStays ==
    /\ page \in {"onboarding", "scan"} /\ seed # None
    /\ seed' = None
    /\ session' = FALSE
    /\ status' = Idle
    /\ UNCHANGED <<kind, waiting, qr, page, scanned, shown, last, signed, job,
                   db>>

\* delete_seed, on the first page and on the scan page.
DeleteSeed ==
    /\ page \in {"onboarding", "scan"} /\ seed # None
    /\ seed' = None
    /\ session' = FALSE
    /\ status' = Idle
    /\ page' = "onboarding"
    /\ UNCHANGED <<kind, waiting, qr, scanned, shown, last, signed, job, db>>

\* The preview page asks for the summary once, when it is mounted, and
\* displays it if it is a Zcash one.
Displayed(st) ==
    IF st.is = "previewing" /\ kind[st.of] = "zcash" THEN st.of ELSE 0

\* Mutant: the page keeps the first result it scanned.
FirstResult == IF scanned = 0 THEN qr ELSE scanned

\* setScanResult
NewResult == qr

\* handle_request and process_scanned_qr.  A preview replaces whatever status
\* there was; VerifySignerSession leads to the preview page, where its answer
\* is not displayed but an earlier preview may be.
Scan ==
    /\ page = "scan" /\ qr # 0
    /\ \/ /\ kind[qr] = "register"
          /\ status' = [is |-> "awaiting", of |-> qr]
          /\ page' = "register"
          /\ last' = NoAnswer
          /\ UNCHANGED <<scanned, shown>>
       \/ /\ kind[qr] \in {"zcash", "ethereum"}
          /\ status' = [is |-> "previewing", of |-> qr]
          /\ scanned' = NewResult
          /\ page' = "preview"
          /\ shown' = Displayed(status')
          /\ last' = NoAnswer
       \/ /\ kind[qr] = "verify"
          /\ session
          /\ page' = "preview"
          /\ shown' = Displayed(status)
          /\ last' = NoAnswer
          /\ UNCHANGED <<status, scanned>>
    /\ UNCHANGED <<kind, waiting, qr, seed, session, signed, job, db>>

\* Reject, or Back to Scan when nothing is displayed.
Reject ==
    /\ page = "preview"
    /\ page' = "scan"
    /\ shown' = 0
    /\ UNCHANGED <<kind, waiting, qr, seed, session, status, scanned, last,
                   signed, job, db>>

\* What handleApprove, and the button, ask of the page.
Approvable == page = "preview" /\ shown # 0 /\ scanned # 0

\* approve_and_sign of what was scanned; any failure, a wrong password for
\* one, leaves a status from which nothing can be approved.
Approve ==
    /\ Approvable
    /\ status.is = "previewing"
    /\ \/ /\ seed # None
          /\ status' = [is |-> "signed", of |-> scanned]
          /\ last' = [is |-> "signed", of |-> scanned]
          /\ signed' = signed \cup {<<scanned, shown>>}
          /\ page' = "result"
          /\ shown' = 0
       \/ /\ status' = [is |-> "error", of |-> 0]
          /\ UNCHANGED <<last, signed, page, shown>>
    /\ UNCHANGED <<kind, waiting, qr, seed, session, scanned, job, db>>

\* With the right password; a wrong one changes nothing.  Without a seed, or
\* without a pending registration, it fails, and the page has no way back.
CompleteRegistration ==
    /\ page = "register"
    /\ status.is = "awaiting" /\ seed # None
    /\ session' = TRUE
    /\ last' = [is |-> "registered", of |-> status.of]
    /\ status' = Idle
    /\ page' = "registered"
    /\ UNCHANGED <<kind, waiting, qr, seed, scanned, shown, signed, job, db>>

Done ==
    /\ page \in AnswerPages
    /\ page' = "scan"
    /\ UNCHANGED <<kind, waiting, qr, seed, session, status, scanned, shown,
                   last, signed, job, db>>

\* load_session_key, which finds none: a key is never restored.
RestoredSession == FALSE

\* Only the files survive.
RestartApp ==
    /\ page' = "onboarding"
    /\ session' = RestoredSession
    /\ status' = Idle
    /\ scanned' = 0
    /\ shown' = 0
    /\ last' = NoAnswer
    /\ UNCHANGED <<kind, waiting, qr, seed, signed, job, db>>

-----------------------------------------------------------------------------
(* The answer                                                              *)

\* Mutant: the challenge is not compared.
FreshAny(a) == a.is = "registered"

\* register_signer accepts the signature of its own challenge only.
FreshAnswer(a) == a.is = "registered" /\ a.of = waiting

\* The page scans the phone's screen and sends what it read.  An answer to
\* VerifySignerSession is never accepted, and never displayed either; a
\* signed transaction is taken for the one that was asked for.
ScanAnswer ==
    /\ page \in AnswerPages /\ qr # 0
    /\ qr' = 0
    /\ waiting' = 0
    /\ job' = IF waiting # 0 /\ kind[waiting] = "register" /\ FreshAnswer(last)
              THEN [of |-> last.of, request |-> waiting, next |-> 0]
              ELSE job
    /\ UNCHANGED <<kind, phone, db>>

\* Mutant: one path more than the signer answered for.
WritesOneMore == 2 * PathCount + 4

\* The session key is deleted and inserted, then a key and a row for each
\* path, each in a statement of its own.
Writes == 2 * PathCount + 2

\* The next of these statements.
StoreRegistration ==
    /\ job # NoJob /\ job.next < Writes
    /\ job' = [job EXCEPT !.next = @ + 1]
    /\ LET p == job.next \div 2 IN
       \/ job.next = 0 /\ stored' = 0 /\ UNCHANGED <<keys, rows>>
       \/ job.next = 1 /\ stored' = job.of /\ UNCHANGED <<keys, rows>>
       \/ /\ job.next > 1 /\ job.next % 2 = 0
          /\ keys' = [keys EXCEPT ![p] = job.of]
          /\ UNCHANGED <<stored, rows>>
       \/ /\ job.next > 1 /\ job.next % 2 = 1
          /\ rows' = Append(rows, [path |-> p, of |-> job.of,
                                   request |-> job.request])
          /\ UNCHANGED <<stored, keys>>
    /\ UNCHANGED <<kind, waiting, qr, phone, marker>>

\* Mutant: the marker is written before the last row.
MarkEarly ==
    /\ job # NoJob /\ job.next = Writes - 1
    /\ marker' = TRUE
    /\ job' = NoJob
    /\ UNCHANGED <<kind, waiting, qr, phone, stored, keys, rows>>

\* mark_initialized, and the reply.
Mark ==
    /\ job # NoJob /\ job.next = Writes
    /\ marker' = TRUE
    /\ job' = NoJob
    /\ UNCHANGED <<kind, waiting, qr, phone, stored, keys, rows>>

\* A write fails, and the rest is not done.
StoreFails ==
    /\ job # NoJob
    /\ job' = NoJob
    /\ UNCHANGED <<kind, waiting, qr, phone, db>>

SNext ==
    \/ \E k \in Kinds : Ask(k)
    \/ AskFails \/ RestartPaypunkd \/ ReloadPage
    \/ \E s \in Seeds : GenerateSeed(s)
    \/ ContinueToScan \/ DeleteSeed \/ Scan \/ Reject \/ Approve
    \/ CompleteRegistration \/ Done \/ RestartApp
    \/ ScanAnswer \/ StoreRegistration \/ Mark \/ StoreFails

SSpec == SInit /\ [][SNext]_svars

-----------------------------------------------------------------------------
(* Properties                                                              *)

\* Every variable stays in its set.
STypeOK ==
    /\ kind \in Seq(Kinds)
    /\ Len(kind) <= MaxRequests
    /\ waiting \in 0..Len(kind)
    /\ qr \in 0..Len(kind)
    /\ seed \in OptSeed
    /\ session \in BOOLEAN
    /\ page \in Pages
    /\ status \in Status
    /\ scanned \in 0..Len(kind)
    /\ shown \in 0..Len(kind)
    /\ last \in Answer
    /\ job \in Job
    /\ stored \in Number
    /\ keys \in [Paths -> Number]
    /\ rows \in Seq(Row)
    /\ marker \in BOOLEAN
    /\ signed \subseteq Number \X Number

\* What the app signs is what its preview page displayed: the scan result in
\* the page's state and the summary in the app's are of one request, however
\* scans, rejections and other requests came between.
PhoneSignsWhatItShows == \A x \in signed : x[1] = x[2]

\* The registration page has a registration to complete and a seed to derive
\* its keys from, whatever was scanned, rejected and deleted before: it has
\* neither a Back nor a Cancel, so the app would have to be killed.
RegistrationCanComplete ==
    page = "register" => status.is = "awaiting" /\ seed # None

\* An account comes from a registration that the phone completed for that
\* very request, never from the code of an earlier one that is still on its
\* screen, with another seed perhaps.
RegisteredIsFresh == \A n \in 1..Len(rows) : rows[n].of = rows[n].request

\* The marker means that some registration was stored to its end: a TUI that
\* sees it goes to the home screen, and nothing would create what is missing.
MarkerMeansComplete ==
    marker => \A p \in Paths :
        keys[p] # 0 /\ \E n \in 1..Len(rows) : rows[n].path = p
=============================================================================

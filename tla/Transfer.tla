------------------------------ MODULE Transfer ------------------------------
(***************************************************************************)
(* A transfer from the form to the network: the TUI's send screen and the  *)
(* one pending slot of its RealWalletApi, the CLI with its pending.intent  *)
(* file, the two requests by which paypunkd and keypunkd prepare and sign  *)
(* (as in SigningService.tla), and the broadcast.                          *)
(*                                                                         *)
(* A draft is an unsigned transaction.  What two transactions can clash    *)
(* over is its key: the nonce for Ethereum, the note it spends for Zcash.  *)
(* Amounts, recipients and fees are data, except that an Ethereum node     *)
(* replaces a pooled transaction by one of the same nonce and a higher     *)
(* fee.  paypunkd and keypunkd live and die together here; requests are    *)
(* handled one at a time, so preparing, signing and broadcasting are one   *)
(* step each, and the clients run between them.  Left out: the expiry of   *)
(* Zcash transactions, and the address book.                               *)
(***************************************************************************)
EXTENDS Naturals, Sequences, FiniteSets

CONSTANTS Notes,      \* notes of the Zcash wallet
          Fees,       \* gas prices
          Clis,       \* CLI processes at a time
          MaxDrafts   \* bound: transactions prepared

ASSUME TransferAssumption == /\ MaxDrafts \in Nat
                             /\ Fees \subseteq Nat

VARIABLES drafts,     \* every transaction prepared, in order
          next,       \* the node's pending transaction count
          approved,   \* drafts that this pair of daemons signs
          offline,    \* the TUI runs with --signer
          screen,     \* the send screen
          slot,       \* RealWalletApi.pending, 0 if empty
          channel,    \* the task that pending_send_result is of, or 0
          tasks,      \* tasks spawned by the API, in order
          connected,  \* the TUI's connection to paypunkd is good
          cli,        \* CLI processes
          file,       \* pending.intent, 0 if there is none
          confirmed   \* history: drafts that were approved by a person

node == <<drafts, next>>
tui == <<screen, slot, channel, tasks, connected>>
cliVars == <<cli, file>>
vars == <<node, approved, offline, tui, cliVars, confirmed>>

Ids == 1..MaxDrafts
Known == 1..Len(drafts)

Draft == [protocol : {"ethereum", "zcash"}, key : Nat \cup Notes, fee : Nat,
          stored : BOOLEAN, used : Nat,
          state : {"draft", "pooled", "mined", "replaced"}]
Screen == [step : {"away", "form", "review", "sending", "confirm"},
           help : BOOLEAN, review : 0..MaxDrafts,
           result : {"none", "broadcasted", "failed"}]
Task == [draft : 0..MaxDrafts, seen : 0..MaxDrafts,
         phase : {"asking", "signing", "broadcasting", "done", "gone"},
         outcome : {"none", "broadcasted", "failed"}]
Cli == [pc : {"idle", "previewed", "loaded", "signed", "sent"},
        draft : 0..MaxDrafts]

Away == [step |-> "away", help |-> FALSE, review |-> 0, result |-> "none"]
NoCli == [pc |-> "idle", draft |-> 0]

Init == /\ drafts = <<>>
        /\ next = 0
        /\ approved = {}
        /\ offline \in BOOLEAN
        /\ screen = Away
        /\ slot = 0
        /\ channel = 0
        /\ tasks = <<>>
        /\ connected = TRUE
        /\ cli = [c \in Clis |-> NoCli]
        /\ file = 0
        /\ confirmed = {}

-----------------------------------------------------------------------------
(* paypunkd: SubmitIntent, ApproveSignature, BroadcastTransaction          *)

\* Mutant: the nonce is the count of mined transactions ("latest").
FreshKeyMined(p) ==
    IF p = "ethereum"
    THEN {Cardinality({d \in Known : drafts[d].protocol = p
                                     /\ drafts[d].state = "mined"})}
    ELSE {n \in Notes : \A d \in Known :
            drafts[d].protocol = p /\ drafts[d].stored => drafts[d].key # n}

\* eth_getTransactionCount of the pending block, or a note that the wallet
\* database does not know as spent.
FreshKey(p) ==
    IF p = "ethereum" THEN {next}
    ELSE {n \in Notes : \A d \in Known :
            drafts[d].protocol = p /\ drafts[d].stored => drafts[d].key # n}

\* The protocol builds the transaction, keypunkd seals a preview of it.
SubmitIntent ==
    /\ Len(drafts) < MaxDrafts
    /\ \E p \in {"ethereum", "zcash"} :
         \E k \in FreshKey(p), f \in IF p = "ethereum" THEN Fees ELSE {0} :
         drafts' = Append(drafts, [protocol |-> p, key |-> k, fee |-> f,
                                   stored |-> FALSE, used |-> 0,
                                   state |-> "draft"])
    /\ approved' = approved \cup {Len(drafts')}

\* Two drafts of which the network accepts at most one.
Clash(d, e) == /\ d # e
               /\ drafts[d].protocol = drafts[e].protocol
               /\ drafts[d].key = drafts[e].key

\* store_and_finalize, before the broadcast: Zcash notes become spent.
Stored(d) ==
    IF drafts[d].protocol = "zcash" /\ ~drafts[d].stored
    THEN [drafts EXCEPT ![d].stored = TRUE,
                        ![d].used = IF @ = 0 THEN Len(drafts) ELSE @]
    ELSE drafts

\* The node adds a transaction, in place of a clashing one with a lower fee.
Accepts(d) ==
    /\ drafts[d].state = "draft"
    /\ IF drafts[d].protocol = "ethereum" THEN drafts[d].key <= next ELSE TRUE
    /\ \A e \in Known : Clash(d, e) /\ drafts[e].state \in {"pooled", "mined"}
         => /\ drafts[d].protocol = "ethereum"
            /\ drafts[e].state = "pooled" /\ drafts[e].fee < drafts[d].fee

Accepted(d) ==
    [e \in Known |->
       IF e = d
       THEN [Stored(d)[d] EXCEPT !.state = "pooled",
                                 !.used = IF @ = 0 THEN Len(drafts) ELSE @]
       ELSE IF Clash(d, e) /\ drafts[e].state = "pooled"
            THEN [drafts[e] EXCEPT !.state = "replaced"]
            ELSE drafts[e]]

\* The request fails before or after the wallet stored the transaction, or
\* the node has it, and then its answer may still be lost.
BroadcastTransaction(d, ok) ==
    \/ /\ ~ok
       /\ drafts' \in {drafts, Stored(d)}
       /\ UNCHANGED next
    \/ /\ Accepts(d)
       /\ drafts' = Accepted(d)
       /\ next' = IF drafts[d].protocol = "ethereum" /\ drafts[d].key = next
                  THEN next + 1 ELSE next

\* A transaction is mined, Ethereum's in the order of their nonces.
Mine(d) ==
    /\ drafts[d].state = "pooled"
    /\ drafts[d].protocol = "ethereum" =>
         \A e \in Known : drafts[e].protocol = "ethereum"
                          /\ drafts[e].state = "pooled"
                          => drafts[e].key >= drafts[d].key
    /\ drafts' = [drafts EXCEPT ![d].state = "mined"]
    /\ UNCHANGED <<next, approved, offline, tui, cliVars, confirmed>>

-----------------------------------------------------------------------------
(* The TUI                                                                 *)

\* The send screen gets keys unless the help screen is over it.
At(s) == screen.step = s /\ ~screen.help

OpenSend ==
    /\ At("away")
    /\ screen' = [Away EXCEPT !.step = "form"]
    /\ UNCHANGED <<node, approved, offline, slot, channel, tasks, connected,
                   cliVars, confirmed>>

\* '?' is Help wherever it is typed; while it shows nothing is polled.
ToggleHelp ==
    /\ screen.step # "away"
    /\ screen' = [screen EXCEPT !.help = ~@]
    /\ UNCHANGED <<node, approved, offline, slot, channel, tasks, connected,
                   cliVars, confirmed>>

\* Esc: from the review to the form, from the form or the result away.
Back ==
    /\ ~screen.help /\ screen.step \in {"form", "review", "confirm"}
    /\ screen' = IF screen.step = "review"
                 THEN [screen EXCEPT !.step = "form"] ELSE Away
    /\ UNCHANGED <<node, approved, offline, slot, channel, tasks, connected,
                   cliVars, confirmed>>

Spawn(d, seen, phase) ==
    /\ tasks' = Append(tasks, [draft |-> d, seen |-> seen, phase |-> phase,
                               outcome |-> "none"])
    /\ channel' = Len(tasks')
    /\ screen' = [screen EXCEPT !.step = "sending"]

\* Mutant: the slot is one too far.
SubmitSendReviewOffByOne ==
    \/ /\ connected
       /\ SubmitIntent
       /\ slot' = Len(drafts') + 1
       /\ screen' = [screen EXCEPT !.step = "review", !.review = slot']
    \/ /\ screen' = [screen EXCEPT !.step = "review", !.review = 0]
       /\ UNCHANGED <<drafts, approved, slot>>

\* A preview fills the slot; an error is shown in the place of the recipient
\* and leaves the slot as it was.
SubmitSendReview ==
    \/ /\ connected
       /\ SubmitIntent
       /\ slot' = Len(drafts')
       /\ screen' = [screen EXCEPT !.step = "review", !.review = slot']
    \/ /\ screen' = [screen EXCEPT !.step = "review", !.review = 0]
       /\ UNCHANGED <<drafts, approved, slot>>

\* Enter on the form.
Review ==
    /\ At("form") /\ ~offline
    /\ SubmitSendReview
    /\ UNCHANGED <<next, offline, channel, tasks, connected, cliVars,
                   confirmed>>

\* With --signer the intent goes to the phone at once.
ReviewSkipped ==
    /\ At("form") /\ offline
    /\ Len(tasks) < MaxDrafts
    /\ Spawn(0, 0, "asking")
    /\ UNCHANGED <<node, approved, offline, slot, connected, cliVars,
                   confirmed>>

\* What is in the slot is taken, and signed by a task.
SubmitSendConfirm ==
    /\ IF slot = 0
       THEN /\ screen' = [screen EXCEPT !.step = "confirm", !.result = "failed"]
            /\ UNCHANGED <<tasks, channel, confirmed>>
       ELSE /\ Spawn(slot, screen.review, "signing")
            /\ confirmed' = confirmed \cup {slot}
    /\ slot' = 0

\* Enter on the review.
Confirm ==
    /\ At("review")
    /\ SubmitSendConfirm
    /\ UNCHANGED <<node, approved, offline, connected, cliVars>>

Finish(t, o) == tasks' = [tasks EXCEPT ![t].phase = "done", ![t].outcome = o]

\* Mutant: the signature is not waited for.
TaskAskUnapproved(t) ==
    /\ tasks[t].phase = "asking" /\ tasks[t].draft = 0
    /\ \/ /\ connected
          /\ SubmitIntent
          /\ tasks' = [tasks EXCEPT ![t].draft = Len(drafts'),
                                    ![t].seen = Len(drafts'),
                                    ![t].phase = "broadcasting"]
       \/ Finish(t, "failed") /\ UNCHANGED <<drafts, approved>>
    /\ UNCHANGED <<next, offline, screen, slot, channel, connected, cliVars,
                   confirmed>>

\* submit_intent of the offline mode: the draft goes to the phone.
TaskAsk(t) ==
    /\ tasks[t].phase = "asking" /\ tasks[t].draft = 0
    /\ \/ /\ connected
          /\ SubmitIntent
          /\ tasks' = [tasks EXCEPT ![t].draft = Len(drafts'),
                                    ![t].seen = Len(drafts')]
       \/ Finish(t, "failed") /\ UNCHANGED <<drafts, approved>>
    /\ UNCHANGED <<next, offline, screen, slot, channel, connected, cliVars,
                   confirmed>>

\* The person approves or rejects on the phone, which shows the draft.
PhoneAnswers(t) ==
    /\ tasks[t].phase = "asking" /\ tasks[t].draft # 0
    /\ \/ /\ connected
          /\ tasks' = [tasks EXCEPT ![t].phase = "broadcasting"]
          /\ confirmed' = confirmed \cup {tasks[t].draft}
       \/ Finish(t, "failed") /\ UNCHANGED confirmed
    /\ UNCHANGED <<node, approved, offline, screen, slot, channel, connected,
                   cliVars>>

\* Mutant: after a signing error nothing is sent to the channel.
TaskSignSilent(t) ==
    /\ tasks[t].phase = "signing"
    /\ \/ /\ connected /\ tasks[t].draft \in approved
          /\ tasks' = [tasks EXCEPT ![t].phase = "broadcasting"]
       \/ tasks' = [tasks EXCEPT ![t].phase = "gone"]
    /\ UNCHANGED <<node, approved, offline, screen, slot, channel, connected,
                   cliVars, confirmed>>

\* approve_signature; the password may be wrong.
TaskSign(t) ==
    /\ tasks[t].phase = "signing"
    /\ \/ /\ connected /\ tasks[t].draft \in approved
          /\ tasks' = [tasks EXCEPT ![t].phase = "broadcasting"]
       \/ Finish(t, "failed")
    /\ UNCHANGED <<node, approved, offline, screen, slot, channel, connected,
                   cliVars, confirmed>>

TaskBroadcast(t) ==
    /\ tasks[t].phase = "broadcasting"
    /\ \/ /\ connected
          /\ \E ok \in BOOLEAN :
               /\ BroadcastTransaction(tasks[t].draft, ok)
               /\ Finish(t, IF ok THEN "broadcasted" ELSE "failed")
       \/ ~connected /\ Finish(t, "failed") /\ UNCHANGED node
    /\ UNCHANGED <<approved, offline, screen, slot, channel, connected,
                   cliVars, confirmed>>

\* A tick, or any key: poll_send_result.
Poll ==
    /\ At("sending")
    /\ channel # 0 /\ tasks[channel].phase = "done"
    /\ screen' = [screen EXCEPT !.step = "confirm",
                                !.result = tasks[channel].outcome]
    /\ channel' = 0
    /\ UNCHANGED <<node, approved, offline, slot, tasks, connected, cliVars,
                   confirmed>>

\* The TUI is quit, with its tasks, and started again.
RestartTui ==
    /\ screen' = Away
    /\ slot' = 0
    /\ channel' = 0
    /\ tasks' = [t \in 1..Len(tasks) |->
                   IF tasks[t].phase = "done" THEN tasks[t]
                   ELSE [tasks[t] EXCEPT !.phase = "gone"]]
    /\ connected' = TRUE
    /\ UNCHANGED <<node, approved, offline, cliVars, confirmed>>

-----------------------------------------------------------------------------
(* The CLI                                                                 *)

\* submit-transfer, first half: the preview is printed.
SubmitTransfer(c) ==
    /\ cli[c].pc = "idle"
    /\ SubmitIntent
    /\ cli' = [cli EXCEPT ![c] = [pc |-> "previewed", draft |-> Len(drafts')]]
    /\ UNCHANGED <<next, offline, tui, file, confirmed>>

\* save_pending_intent: the file is written, over any other.
Save(d) == file' = d

\* submit-transfer, second half.
SavePending(c) ==
    /\ cli[c].pc = "previewed"
    /\ Save(cli[c].draft)
    /\ cli' = [cli EXCEPT ![c] = NoCli]
    /\ UNCHANGED <<node, approved, offline, tui, confirmed>>

\* approve-signature: load the file.
LoadPending(c) ==
    /\ cli[c].pc = "idle" /\ file # 0
    /\ cli' = [cli EXCEPT ![c] = [pc |-> "loaded", draft |-> file]]
    /\ confirmed' = confirmed \cup {file}
    /\ UNCHANGED <<node, approved, offline, tui, file>>

CliSign(c) ==
    /\ cli[c].pc = "loaded" /\ cli[c].draft \in approved
    /\ cli' = [cli EXCEPT ![c].pc = "signed"]
    /\ UNCHANGED <<node, approved, offline, tui, file, confirmed>>

CliBroadcast(c) ==
    /\ cli[c].pc = "signed"
    /\ \E ok \in BOOLEAN :
         /\ BroadcastTransaction(cli[c].draft, ok)
         /\ cli' = [cli EXCEPT ![c] = IF ok THEN [@ EXCEPT !.pc = "sent"]
                                      ELSE NoCli]
    /\ UNCHANGED <<approved, offline, tui, file, confirmed>>

\* The file is removed, whatever it holds by now.
RemovePending(c) ==
    /\ cli[c].pc = "sent"
    /\ file' = 0
    /\ cli' = [cli EXCEPT ![c] = NoCli]
    /\ UNCHANGED <<node, approved, offline, tui, confirmed>>

\* An error at any request, or the process is killed.
CliStops(c) ==
    /\ cli[c].pc # "idle"
    /\ cli' = [cli EXCEPT ![c] = NoCli]
    /\ UNCHANGED <<node, approved, offline, tui, file, confirmed>>

-----------------------------------------------------------------------------
\* The daemons die and are started again: previews of the old pair of keys no
\* longer verify, and the connections of running clients are lost.
RestartDaemons ==
    /\ approved' = {}
    /\ connected' = FALSE
    /\ cli' = [c \in Clis |-> IF cli[c].pc \in {"loaded", "signed"} THEN NoCli
                              ELSE cli[c]]
    /\ UNCHANGED <<node, offline, screen, slot, channel, tasks, file,
                   confirmed>>

Next ==
    \/ \E d \in Known : Mine(d)
    \/ OpenSend
    \/ ToggleHelp
    \/ Back
    \/ Review
    \/ ReviewSkipped
    \/ Confirm
    \/ \E t \in 1..Len(tasks) : TaskAsk(t)
    \/ \E t \in 1..Len(tasks) : PhoneAnswers(t)
    \/ \E t \in 1..Len(tasks) : TaskSign(t)
    \/ \E t \in 1..Len(tasks) : TaskBroadcast(t)
    \/ Poll
    \/ RestartTui
    \/ \E c \in Clis : SubmitTransfer(c)
    \/ \E c \in Clis : SavePending(c)
    \/ \E c \in Clis : LoadPending(c)
    \/ \E c \in Clis : CliSign(c)
    \/ \E c \in Clis : CliBroadcast(c)
    \/ \E c \in Clis : RemovePending(c)
    \/ \E c \in Clis : CliStops(c)
    \/ RestartDaemons

\* A spawned task runs, each of its requests is answered or fails (but for
\* the one to the phone, which waits for a person), and the screen is polled
\* every 50 ms.
Fairness ==
    /\ \A t \in Ids : WF_vars(t <= Len(tasks) /\ TaskSign(t))
    /\ \A t \in Ids : WF_vars(t <= Len(tasks) /\ TaskBroadcast(t))
    /\ WF_vars(Poll)

Spec == Init /\ [][Next]_vars
FairSpec == Spec /\ Fairness

-----------------------------------------------------------------------------
(* Properties                                                              *)

\* Every variable stays in its set.
TypeOK ==
    /\ drafts \in Seq(Draft) /\ Len(drafts) <= MaxDrafts
    /\ next \in Nat
    /\ approved \subseteq Known
    /\ offline \in BOOLEAN
    /\ screen \in Screen
    /\ slot \in 0..Len(drafts)
    /\ channel \in 0..Len(tasks)
    /\ tasks \in Seq(Task) /\ Len(tasks) <= MaxDrafts
    /\ connected \in BOOLEAN
    /\ cli \in [Clis -> Cli]
    /\ file \in 0..Len(drafts)
    /\ confirmed \subseteq Known

\* A transaction prepared after another one was sent (or, for Zcash, stored
\* to be sent) does not use its nonce or note, whichever client sent it and
\* whether or not its answer arrived: it neither replaces it nor is refused
\* because of it.  Only drafts prepared side by side can clash.
KeysAreNotReused ==
    \A d, e \in Known :
        Clash(d, e) /\ drafts[d].used > 0 => e <= drafts[d].used

\* Whatever restarts, is lost or overlaps, a payment is made only if it was
\* prepared and then confirmed by a person.
Paid == {d \in Known : drafts[d].state # "draft"}
Payment == INSTANCE Payments WITH Drafts <- Ids, shown <- Known, made <- Paid
ImplementsPayments == Payment!PSpec

\* A transfer confirmed in the TUI comes to a result: the spinner ends,
\* unless help is opened over it.
SendingEnds ==
    (screen.step = "sending" /\ ~offline) ~>
        (screen.step # "sending" \/ screen.help)

\* 06-send.md: the draft that is approved is the one the review screen shows
\* when Enter is pressed.
SignedIsOnScreen ==
    \A t \in 1..Len(tasks) : tasks[t].seen = tasks[t].draft
=============================================================================

------------------------------- MODULE Bridge -------------------------------
(***************************************************************************)
(* The bridge of air-gapped signing: requests come in over IPC from        *)
(* paypunkd, go out to a browser page that shows them to the signer app as *)
(* QR codes, and the answer that the page scans from the signer's screen   *)
(* comes back.  The bridge remembers one browser and one response_tx.      *)
(*                                                                         *)
(* A sender is the IpcSender of one paypunkd process, with its connection  *)
(* and the task that handles it; a new process is a new sender.  The       *)
(* browsers are the WebSocket sessions.  The mutex makes the critical      *)
(* section of a request and the receipt of an answer atomic.  Frames on a  *)
(* Unix socket and on a WebSocket arrive in order; a page that goes away   *)
(* can lose what it had sent.                                              *)
(*                                                                         *)
(* Left out: the handshake before the first request (no shared state), MAC *)
(* checks, a restart of the bridge, the bytes.  A payload is the number of *)
(* the request, and an answer the number of the request it answers.        *)
(***************************************************************************)
EXTENDS Naturals, Sequences

CONSTANTS Senders,      \* paypunkd processes
          Browsers,     \* WebSocket sessions
          MaxRequests,  \* bound on the requests
          None

Requests == 1..MaxRequests

ASSUME BridgeAssumption == /\ MaxRequests \in Nat
                           /\ None \notin Senders \cup Browsers

VARIABLES asked,       \* number of requests sent so far
          sender,      \* IpcSender: off, idle, asking, broken or dead
          sent,        \* request in the socket, 0 if none
          handler,     \* connection's task: none, reading a frame, waiting on
                       \* its oneshot (or that was answered or cancelled), ended
          request,     \* request the handler is at, 0 if none
          answer,      \* answer in the handler's oneshot, 0 if none
          responseTx,  \* whose oneshot BridgeState keeps, or None
          browser,     \* the session BridgeState keeps, or None
          ws,          \* session: new, open, closed (by the page) or ended
          shown,       \* request on the page's screen, 0 if none
          toBridge,    \* answers a session sent and the bridge has not read
          signerShows, \* answer on the signer's screen, 0 if none
          fate,        \* of each request: open, done, failed, or its sender
                       \* is gone
          got          \* answer that the sender was given to it, 0 if none

senderVars == <<asked, sender, sent, fate, got>>
state == <<responseTx, browser>>
pageVars == <<ws, shown, toBridge, signerShows>>
vars == <<senderVars, handler, request, answer, state, pageVars>>

Init == /\ asked = 0
        /\ sender = [s \in Senders |-> "off"]
        /\ sent = [s \in Senders |-> 0]
        /\ handler = [s \in Senders |-> "none"]
        /\ request = [s \in Senders |-> 0]
        /\ answer = [s \in Senders |-> 0]
        /\ responseTx = None
        /\ browser = None
        /\ ws = [b \in Browsers |-> "new"]
        /\ shown = [b \in Browsers |-> 0]
        /\ toBridge = [b \in Browsers |-> <<>>]
        /\ signerShows = 0
        /\ fate = [r \in Requests |-> "open"]
        /\ got = [r \in Requests |-> 0]

-----------------------------------------------------------------------------
(* paypunkd                                                                *)

Connect(s) ==
    /\ sender[s] = "off"
    /\ sender' = [sender EXCEPT ![s] = "idle"]
    /\ handler' = [handler EXCEPT ![s] = "reading"]
    /\ UNCHANGED <<asked, sent, fate, got, request, answer, state, pageVars>>

\* The actor writes one frame and waits for one.
Ask(s) ==
    /\ sender[s] = "idle"
    /\ asked < MaxRequests
    /\ asked' = asked + 1
    /\ sender' = [sender EXCEPT ![s] = "asking"]
    /\ sent' = [sent EXCEPT ![s] = asked + 1]
    /\ UNCHANGED <<fate, got, handler, request, answer, state, pageVars>>

\* The request that a sender is asking.
Asking(s) == IF sent[s] # 0 THEN sent[s] ELSE request[s]

\* paypunkd is stopped; what it wrote to the socket stays there.
Stop(s) ==
    /\ sender[s] \in {"idle", "asking", "broken"}
    /\ sender' = [sender EXCEPT ![s] = "dead"]
    /\ fate' = IF sender[s] = "asking" THEN [fate EXCEPT ![Asking(s)] = "gone"]
               ELSE fate
    /\ UNCHANGED <<asked, sent, got, handler, request, answer, state, pageVars>>

-----------------------------------------------------------------------------
(* handle_ipc_connection                                                   *)

\* Storing the new sender drops the old one, and its receiver is cancelled.
Displaced == IF responseTx # None /\ handler[responseTx] = "waiting"
             THEN [handler EXCEPT ![responseTx] = "cancelled"] ELSE handler

\* Mutant: the older request keeps its place.
ForwardWithoutDisplacing(s) ==
    /\ handler[s] = "reading" /\ sent[s] # 0
    /\ browser # None
    /\ responseTx' = IF responseTx = None THEN s ELSE responseTx
    /\ handler' = [handler EXCEPT ![s] = "waiting"]
    /\ request' = [request EXCEPT ![s] = sent[s]]
    /\ sent' = [sent EXCEPT ![s] = 0]
    /\ shown' = IF ws[browser] = "open"
                THEN [shown EXCEPT ![browser] = sent[s]] ELSE shown
    /\ UNCHANGED <<asked, sender, fate, got, answer, browser, ws, toBridge,
                   signerShows>>

\* A request is forwarded to the browser.  Whether the session still works is
\* not looked at; the page shows the newest request it got.
Forward(s) ==
    /\ handler[s] = "reading" /\ sent[s] # 0
    /\ browser # None
    /\ responseTx' = s
    /\ handler' = [Displaced EXCEPT ![s] = "waiting"]
    /\ request' = [request EXCEPT ![s] = sent[s]]
    /\ sent' = [sent EXCEPT ![s] = 0]
    /\ shown' = IF ws[browser] = "open"
                THEN [shown EXCEPT ![browser] = sent[s]] ELSE shown
    /\ UNCHANGED <<asked, sender, fate, got, answer, browser, ws, toBridge,
                   signerShows>>

\* Without a browser the connection is closed, after response_tx was stored.
Refuse(s) ==
    /\ handler[s] = "reading" /\ sent[s] # 0
    /\ browser = None
    /\ responseTx' = s
    /\ handler' = [Displaced EXCEPT ![s] = "ended"]
    /\ sent' = [sent EXCEPT ![s] = 0]
    /\ IF sender[s] = "asking"
       THEN /\ sender' = [sender EXCEPT ![s] = "broken"]
            /\ fate' = [fate EXCEPT ![sent[s]] = "failed"]
       ELSE UNCHANGED <<sender, fate>>
    /\ UNCHANGED <<asked, got, request, answer, browser, pageVars>>

\* Mutant: a cancelled receiver is waited for again.
ReplyAnswersOnly(s) ==
    /\ handler[s] = "answered"
    /\ IF sender[s] = "asking"
       THEN /\ handler' = [handler EXCEPT ![s] = "reading"]
            /\ sender' = [sender EXCEPT ![s] = "idle"]
            /\ fate' = [fate EXCEPT ![request[s]] = "done"]
            /\ got' = [got EXCEPT ![request[s]] = answer[s]]
       ELSE /\ handler' = [handler EXCEPT ![s] = "ended"]
            /\ UNCHANGED <<sender, fate, got>>
    /\ request' = [request EXCEPT ![s] = 0]
    /\ answer' = [answer EXCEPT ![s] = 0]
    /\ UNCHANGED <<asked, sent, state, pageVars>>

\* Mutant: what a cancelled receiver holds is written as if it were an answer.
ReplyCancelledAsAnswer(s) ==
    /\ handler[s] \in {"answered", "cancelled"}
    /\ IF sender[s] = "dead"
       THEN /\ handler' = [handler EXCEPT ![s] = "ended"]
            /\ UNCHANGED <<sender, fate, got>>
       ELSE /\ handler' = [handler EXCEPT ![s] = "reading"]
            /\ sender' = [sender EXCEPT ![s] = "idle"]
            /\ fate' = [fate EXCEPT ![request[s]] = "done"]
            /\ got' = [got EXCEPT ![request[s]] = answer[s]]
    /\ request' = [request EXCEPT ![s] = 0]
    /\ answer' = [answer EXCEPT ![s] = 0]
    /\ UNCHANGED <<asked, sent, state, pageVars>>

\* The answer, or "request cancelled", which the IpcSender takes for an
\* invalid status, is written; to a dead sender that fails.
Reply(s) ==
    /\ handler[s] \in {"answered", "cancelled"}
    /\ IF sender[s] = "dead"
       THEN /\ handler' = [handler EXCEPT ![s] = "ended"]
            /\ UNCHANGED <<sender, fate, got>>
       ELSE /\ handler' = [handler EXCEPT ![s] = "reading"]
            /\ sender' = [sender EXCEPT ![s] = "idle"]
            /\ IF handler[s] = "answered"
               THEN /\ fate' = [fate EXCEPT ![request[s]] = "done"]
                    /\ got' = [got EXCEPT ![request[s]] = answer[s]]
               ELSE /\ fate' = [fate EXCEPT ![request[s]] = "failed"]
                    /\ got' = got
    /\ request' = [request EXCEPT ![s] = 0]
    /\ answer' = [answer EXCEPT ![s] = 0]
    /\ UNCHANGED <<asked, sent, state, pageVars>>

\* End of file.
Disconnect(s) ==
    /\ handler[s] = "reading" /\ sent[s] = 0 /\ sender[s] = "dead"
    /\ handler' = [handler EXCEPT ![s] = "ended"]
    /\ UNCHANGED <<senderVars, request, answer, state, pageVars>>

-----------------------------------------------------------------------------
(* ws: a WebSocket session, on the side of the bridge                      *)

OpenPage(b) ==
    /\ ws[b] = "new"
    /\ ws' = [ws EXCEPT ![b] = "open"]
    /\ browser' = b
    /\ UNCHANGED <<senderVars, handler, request, answer, responseTx, shown,
                   toBridge, signerShows>>

\* A binary message of any session goes to the stored response_tx; when its
\* receiver is gone, or there is none, the message is dropped.
ReceiveAnswer(b) ==
    /\ ws[b] \in {"open", "closed"} /\ toBridge[b] # <<>>
    /\ toBridge' = [toBridge EXCEPT ![b] = Tail(@)]
    /\ IF responseTx # None /\ handler[responseTx] = "waiting"
       THEN /\ handler' = [handler EXCEPT ![responseTx] = "answered"]
            /\ answer' = [answer EXCEPT ![responseTx] = Head(toBridge[b])]
       ELSE UNCHANGED <<handler, answer>>
    /\ responseTx' = None
    /\ UNCHANGED <<senderVars, request, browser, ws, shown, signerShows>>

\* The stream ends, and the browser is cleared, whichever it is by now.
StreamEnds(b) ==
    /\ ws[b] = "closed" /\ toBridge[b] = <<>>
    /\ ws' = [ws EXCEPT ![b] = "ended"]
    /\ browser' = None
    /\ UNCHANGED <<senderVars, handler, request, answer, responseTx, shown,
                   toBridge, signerShows>>

-----------------------------------------------------------------------------
(* The page and the signer app                                             *)

\* The user points the signer app at the page and lets it answer.
SignerAnswers(b) ==
    /\ ws[b] = "open" /\ shown[b] # 0
    /\ signerShows' = shown[b]
    /\ UNCHANGED <<senderVars, handler, request, answer, state, ws, shown,
                   toBridge>>

\* Mutant: the page sends although it has decoded nothing.
ScanNothing(b) ==
    /\ ws[b] = "open" /\ shown[b] # 0
    /\ toBridge' = [toBridge EXCEPT ![b] = Append(@, signerShows)]
    /\ shown' = [shown EXCEPT ![b] = 0]
    /\ UNCHANGED <<senderVars, handler, request, answer, state, ws, signerShows>>

\* Scan Response: the page sends what the signer shows, of whatever request,
\* and hides the request it was showing.
Scan(b) ==
    /\ ws[b] = "open" /\ shown[b] # 0 /\ signerShows # 0
    /\ toBridge' = [toBridge EXCEPT ![b] = Append(@, signerShows)]
    /\ shown' = [shown EXCEPT ![b] = 0]
    /\ UNCHANGED <<senderVars, handler, request, answer, state, ws, signerShows>>

\* The page is closed or its connection breaks.
ClosePage(b) ==
    /\ ws[b] = "open"
    /\ ws' = [ws EXCEPT ![b] = "closed"]
    /\ shown' = [shown EXCEPT ![b] = 0]
    /\ \/ toBridge' = toBridge
       \/ toBridge[b] # <<>> /\ toBridge' = [toBridge EXCEPT ![b] = <<>>]
    /\ UNCHANGED <<senderVars, handler, request, answer, state, signerShows>>

SenderNext(s) == \/ Connect(s) \/ Ask(s) \/ Stop(s)
                 \/ Forward(s) \/ Refuse(s) \/ Reply(s) \/ Disconnect(s)

PageNext(b) == \/ OpenPage(b) \/ ReceiveAnswer(b) \/ StreamEnds(b)
               \/ SignerAnswers(b) \/ Scan(b) \/ ClosePage(b)

Next == \/ \E s \in Senders : SenderNext(s)
        \/ \E b \in Browsers : PageNext(b)

\* The runtime runs the tasks of the bridge; nothing is asked of paypunkd, of
\* the page or of the user.
Fairness == /\ \A s \in Senders : /\ WF_vars(Forward(s))
                                  /\ WF_vars(Refuse(s))
                                  /\ WF_vars(Reply(s))
            /\ \A b \in Browsers : /\ WF_vars(ReceiveAnswer(b))
                                   /\ WF_vars(StreamEnds(b))

Spec == Init /\ [][Next]_vars
FairSpec == Spec /\ Fairness

-----------------------------------------------------------------------------
(* Properties                                                              *)

\* Every variable stays in its set.
TypeOK ==
    /\ asked \in 0..MaxRequests
    /\ sender \in [Senders -> {"off", "idle", "asking", "broken", "dead"}]
    /\ sent \in [Senders -> 0..MaxRequests]
    /\ handler \in [Senders -> {"none", "reading", "waiting", "answered",
                               "cancelled", "ended"}]
    /\ request \in [Senders -> 0..MaxRequests]
    /\ answer \in [Senders -> 0..MaxRequests]
    /\ responseTx \in Senders \cup {None}
    /\ browser \in Browsers \cup {None}
    /\ ws \in [Browsers -> {"new", "open", "closed", "ended"}]
    /\ shown \in [Browsers -> 0..MaxRequests]
    /\ toBridge \in [Browsers -> Seq(Requests)]
    /\ signerShows \in 0..MaxRequests
    /\ fate \in [Requests -> {"open", "done", "failed", "gone"}]
    /\ got \in [Requests -> 0..MaxRequests]

\* A connection that still waits for its answer is the one whose response_tx
\* is stored: no waiter is forgotten, and no answer can reach two.
WaiterHoldsTx ==
    \A s \in Senders : /\ handler[s] = "waiting" => responseTx = s
                       /\ responseTx = s => handler[s] \in {"waiting", "ended"}

\* The bridge is a single-flight relay: an answer, of whichever session, goes
\* to the latest request only, once, and a request fails only when a later
\* one displaced it or no browser was there.
Flight == IF responseTx # None /\ handler[responseTx] = "waiting"
          THEN request[responseTx] ELSE 0
Answered(r) == {s \in Senders : handler[s] = "answered" /\ request[s] = r}
Won == [r \in Requests |-> IF Answered(r) = {} THEN 0
                           ELSE answer[CHOOSE s \in Answered(r) : TRUE]]
Seen == {r \in 1..asked : \A s \in Senders : sent[s] # r}

Relay == INSTANCE SingleFlight WITH flight <- Flight, seen <- Seen, won <- Won
RelaysOneRequest == Relay!Spec

\* Only the request whose response_tx is stored may wait forever: every other
\* one is refused or cancelled, and its sender told, whatever the pages do.
OnlyHolderWaits ==
    \A s \in Senders :
        sender[s] = "asking" ~> sender[s] # "asking" \/ responseTx = s
=============================================================================

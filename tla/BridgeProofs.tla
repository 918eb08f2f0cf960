---------------------------- MODULE BridgeProofs ----------------------------
(***************************************************************************)
(* For any number of paypunkd processes, browser sessions and requests:    *)
(* the variables of Bridge stay in their sets, a connection waits only     *)
(* while its response_tx is the stored one, and the bridge implements the  *)
(* single-flight relay of SingleFlight.                                    *)
(*                                                                         *)
(* One waiter: the step that stores another response_tx is the step that   *)
(* cancels the one it replaces; the second half of WaiterHoldsTx says that *)
(* no stored response_tx is of a task that could be asked again.  A new    *)
(* connection needs FreshSenders: a task without a connection cannot have  *)
(* stored one.                                                             *)
(*                                                                         *)
(* The relay: no request has two senders (OneSender), and what a task and  *)
(* its sender agree on (Agreed) tells whose request an answer, a refusal   *)
(* or a cancellation settles, and that it was open until then.             *)
(***************************************************************************)
EXTENDS Bridge, TLAPS

\* TypeOK holds initially.
LEMMA TypeInit == Init => TypeOK
  BY BridgeAssumption DEF Init, TypeOK, Requests

\* Displacing a waiter keeps the handlers well typed.
LEMMA DisplacedType ==
    ASSUME TypeOK
    PROVE  Displaced \in [Senders -> {"none", "reading", "waiting", "answered",
                                      "cancelled", "ended"}]
  BY DEF TypeOK, Displaced

\* The request that a sender asks is a request.
LEMMA SentType ==
    ASSUME TypeOK, NEW s \in Senders, sent[s] # 0
    PROVE  sent[s] \in Requests
  BY BridgeAssumption DEF TypeOK, Requests

\* Every step of a sender or of its connection preserves TypeOK.
LEMMA SenderType ==
    ASSUME TypeOK, NEW s \in Senders, SenderNext(s)
    PROVE  TypeOK'
  <1> USE BridgeAssumption
  <1>1. CASE Connect(s)
    BY <1>1 DEF Connect, TypeOK, state, pageVars
  <1>2. CASE Ask(s)
    <2>1. asked + 1 \in 0..MaxRequests
      BY <1>2 DEF Ask, TypeOK
    <2> QED BY <1>2, <2>1 DEF Ask, TypeOK, state, pageVars
  <1>3. CASE Stop(s)
    <2>1. fate' \in [Requests -> {"open", "done", "failed", "gone"}]
      BY <1>3 DEF Stop, TypeOK
    <2> QED BY <1>3, <2>1 DEF Stop, TypeOK, state, pageVars
  <1>4. CASE Forward(s)
    <2>1. handler' \in [Senders -> {"none", "reading", "waiting", "answered",
                                    "cancelled", "ended"}]
      BY <1>4, DisplacedType DEF Forward
    <2>2. shown' \in [Browsers -> 0..MaxRequests]
      BY <1>4 DEF Forward, TypeOK
    <2> QED BY <1>4, <2>1, <2>2 DEF Forward, TypeOK
  <1>5. CASE Refuse(s)
    <2>1. handler' \in [Senders -> {"none", "reading", "waiting", "answered",
                                    "cancelled", "ended"}]
      BY <1>5, DisplacedType DEF Refuse
    <2>2. fate' \in [Requests -> {"open", "done", "failed", "gone"}]
      BY <1>5 DEF Refuse, TypeOK
    <2>3. sender' \in [Senders -> {"off", "idle", "asking", "broken", "dead"}]
      BY <1>5 DEF Refuse, TypeOK
    <2> QED BY <1>5, <2>1, <2>2, <2>3 DEF Refuse, TypeOK, pageVars
  <1>6. CASE Reply(s)
    <2>1. fate' \in [Requests -> {"open", "done", "failed", "gone"}]
      BY <1>6 DEF Reply, TypeOK
    <2>2. got' \in [Requests -> 0..MaxRequests]
      <3>1. answer[s] \in 0..MaxRequests /\ got \in [Requests -> 0..MaxRequests]
        BY DEF TypeOK
      <3>2. got' = got \/ got' = [got EXCEPT ![request[s]] = answer[s]]
        BY <1>6 DEF Reply
      <3> QED BY <3>1, <3>2
    <2>3. request' \in [Senders -> 0..MaxRequests]
      BY <1>6 DEF Reply, TypeOK
    <2>4. answer' \in [Senders -> 0..MaxRequests]
      BY <1>6 DEF Reply, TypeOK
    <2>5. /\ handler' \in [Senders -> {"none", "reading", "waiting", "answered",
                                       "cancelled", "ended"}]
          /\ sender' \in [Senders -> {"off", "idle", "asking", "broken", "dead"}]
      BY <1>6 DEF Reply, TypeOK
    <2>6. /\ UNCHANGED <<asked, sent, responseTx, browser, ws, shown, toBridge,
                         signerShows>>
      BY <1>6 DEF Reply, state, pageVars
    <2> QED BY <2>1, <2>2, <2>3, <2>4, <2>5, <2>6 DEF TypeOK
  <1>7. CASE Disconnect(s)
    <2>1. handler' \in [Senders -> {"none", "reading", "waiting", "answered",
                                    "cancelled", "ended"}]
      BY <1>7 DEF Disconnect, TypeOK
    <2> QED BY <1>7, <2>1 DEF Disconnect, TypeOK, senderVars, state, pageVars
  <1> QED
    BY <1>1, <1>2, <1>3, <1>4, <1>5, <1>6, <1>7 DEF SenderNext

\* Every step of a session, its page or the signer preserves TypeOK.
LEMMA PageType ==
    ASSUME TypeOK, NEW b \in Browsers, PageNext(b)
    PROVE  TypeOK'
  <1> USE BridgeAssumption
  <1>1. CASE OpenPage(b)
    BY <1>1 DEF OpenPage, TypeOK, senderVars
  <1>2. CASE ReceiveAnswer(b)
    <2>1. toBridge[b] \in Seq(Requests) /\ toBridge[b] # <<>>
      BY <1>2 DEF ReceiveAnswer, TypeOK
    <2>2. Head(toBridge[b]) \in Requests /\ Tail(toBridge[b]) \in Seq(Requests)
      BY <2>1
    <2>3. toBridge' \in [Browsers -> Seq(Requests)]
      BY <1>2, <2>2 DEF ReceiveAnswer, TypeOK
    <2>4. /\ handler' \in [Senders -> {"none", "reading", "waiting", "answered",
                                       "cancelled", "ended"}]
          /\ answer' \in [Senders -> 0..MaxRequests]
      <3>1. Head(toBridge[b]) \in 0..MaxRequests
        BY <2>2 DEF Requests
      <3> QED BY <1>2, <3>1 DEF ReceiveAnswer, TypeOK
    <2> QED BY <1>2, <2>3, <2>4 DEF ReceiveAnswer, TypeOK, senderVars
  <1>3. CASE StreamEnds(b)
    BY <1>3 DEF StreamEnds, TypeOK, senderVars
  <1>4. CASE SignerAnswers(b)
    BY <1>4 DEF SignerAnswers, TypeOK, senderVars, state
  <1>5. CASE Scan(b)
    <2>1. signerShows \in Requests
      BY <1>5 DEF Scan, TypeOK, Requests
    <2>2. Append(toBridge[b], signerShows) \in Seq(Requests)
      BY <2>1 DEF TypeOK
    <2>3. toBridge' \in [Browsers -> Seq(Requests)]
      BY <1>5, <2>2 DEF Scan, TypeOK
    <2>4. shown' \in [Browsers -> 0..MaxRequests]
      BY <1>5 DEF Scan, TypeOK
    <2> QED BY <1>5, <2>3, <2>4 DEF Scan, TypeOK, senderVars, state
  <1>6. CASE ClosePage(b)
    <2>1. toBridge' \in [Browsers -> Seq(Requests)]
      <3>1. << >> \in Seq(Requests) /\ toBridge \in [Browsers -> Seq(Requests)]
        BY DEF TypeOK
      <3>2. toBridge' = toBridge \/ toBridge' = [toBridge EXCEPT ![b] = << >>]
        BY <1>6 DEF ClosePage
      <3> QED BY <3>1, <3>2
    <2>2. shown' \in [Browsers -> 0..MaxRequests]
      BY <1>6 DEF ClosePage, TypeOK
    <2> QED BY <1>6, <2>1, <2>2 DEF ClosePage, TypeOK, senderVars, state
  <1> QED
    BY <1>1, <1>2, <1>3, <1>4, <1>5, <1>6 DEF PageNext

\* Every step preserves TypeOK.
LEMMA TypeStep == TypeOK /\ [Next]_vars => TypeOK'
  <1>1. TypeOK /\ UNCHANGED vars => TypeOK'
    BY DEF TypeOK, vars, senderVars, state, pageVars
  <1> QED
    BY <1>1, SenderType, PageType DEF Next

\* Type correctness of every behaviour.
THEOREM BridgeTypeCorrect == Spec => []TypeOK
  BY TypeInit, TypeStep, PTL DEF Spec

-----------------------------------------------------------------------------
(* One waiter                                                              *)

\* A process that has not connected has no task in the bridge.
FreshSenders == \A s \in Senders : sender[s] = "off" => handler[s] = "none"

IInv == TypeOK /\ FreshSenders /\ WaiterHoldsTx

\* Every step preserves FreshSenders: only Connect leaves "off", and no task
\* of an unconnected sender takes a step.
LEMMA FreshStep == IInv /\ [Next]_vars => FreshSenders'
  <1> SUFFICES ASSUME IInv, [Next]_vars PROVE FreshSenders'
    OBVIOUS
  <1> USE DEF IInv, TypeOK, FreshSenders
  <1>1. ASSUME NEW s \in Senders, Connect(s) \/ Ask(s) \/ Stop(s) \/ Disconnect(s)
        PROVE  FreshSenders'
    BY <1>1 DEF Connect, Ask, Stop, Disconnect, senderVars
  <1>2. ASSUME NEW s \in Senders, Forward(s) PROVE FreshSenders'
    BY <1>2 DEF Forward, Displaced
  <1>3. ASSUME NEW s \in Senders, Refuse(s) PROVE FreshSenders'
    BY <1>3 DEF Refuse, Displaced
  <1>4. ASSUME NEW s \in Senders, Reply(s) PROVE FreshSenders'
    BY <1>4 DEF Reply
  <1>5. ASSUME NEW b \in Browsers, ReceiveAnswer(b) PROVE FreshSenders'
    BY <1>5 DEF ReceiveAnswer, senderVars
  <1>6. CASE UNCHANGED <<sender, handler>>
    BY <1>6
  <1> QED
    BY <1>1, <1>2, <1>3, <1>4, <1>5, <1>6
       DEF Next, SenderNext, PageNext, OpenPage, StreamEnds, SignerAnswers, Scan,
           ClosePage, vars, senderVars

\* Every step of a sender or of its connection preserves WaiterHoldsTx.
LEMMA SenderWaits ==
    ASSUME IInv, NEW s \in Senders, SenderNext(s)
    PROVE  WaiterHoldsTx'
  <1> USE DEF IInv, TypeOK, WaiterHoldsTx
  <1>1. CASE Connect(s)
    BY <1>1 DEF Connect, state, FreshSenders
  <1>2. CASE Ask(s) \/ Stop(s)
    BY <1>2 DEF Ask, Stop, state
  <1>3. CASE Forward(s)
    BY <1>3, BridgeAssumption DEF Forward, Displaced
  <1>4. CASE Refuse(s)
    BY <1>4, BridgeAssumption DEF Refuse, Displaced
  <1>5. CASE Reply(s)
    BY <1>5 DEF Reply, state
  <1>6. CASE Disconnect(s)
    BY <1>6 DEF Disconnect, state
  <1> QED
    BY <1>1, <1>2, <1>3, <1>4, <1>5, <1>6 DEF SenderNext

\* Every step of a session, its page or the signer preserves WaiterHoldsTx.
LEMMA PageWaits ==
    ASSUME IInv, NEW b \in Browsers, PageNext(b)
    PROVE  WaiterHoldsTx'
  <1> USE DEF IInv, TypeOK, WaiterHoldsTx
  <1>1. CASE ReceiveAnswer(b)
    BY <1>1, BridgeAssumption DEF ReceiveAnswer
  <1>2. CASE OpenPage(b) \/ StreamEnds(b) \/ SignerAnswers(b) \/ Scan(b) \/ ClosePage(b)
    BY <1>2 DEF OpenPage, StreamEnds, SignerAnswers, Scan, ClosePage, state
  <1> QED
    BY <1>1, <1>2 DEF PageNext

LEMMA WaiterInit == Init => IInv
  BY TypeInit, BridgeAssumption DEF Init, IInv, FreshSenders, WaiterHoldsTx

LEMMA WaiterStep == IInv /\ [Next]_vars => IInv'
  <1> SUFFICES ASSUME IInv, [Next]_vars PROVE IInv'
    OBVIOUS
  <1>1. WaiterHoldsTx'
    <2>1. UNCHANGED vars => WaiterHoldsTx'
      BY DEF IInv, WaiterHoldsTx, vars, state
    <2> QED BY <2>1, SenderWaits, PageWaits DEF Next
  <1> QED BY <1>1, TypeStep, FreshStep DEF IInv

\* Whatever requests, answers and sessions come and go, a connection waits
\* for an answer only while its response_tx is the stored one: of any number
\* of clients at most one is waiting, and none was forgotten.
THEOREM BridgeWaiterHoldsTx == Spec => []WaiterHoldsTx
  <1>1. IInv => WaiterHoldsTx
    BY DEF IInv
  <1> QED
    BY WaiterInit, WaiterStep, <1>1, PTL DEF Spec

-----------------------------------------------------------------------------
(* A relay with room for one request                                       *)

\* What a connection's task and its sender agree on: the request is in the
\* socket or with the task, it is open until the sender is told or gone, and
\* the oneshot holds an answer exactly when it was answered.
Agreed(s) ==
    /\ sent[s] \in 0..asked /\ request[s] \in 0..asked
    /\ request[s] # 0 <=> handler[s] \in {"waiting", "answered", "cancelled"}
    /\ answer[s] # 0 <=> handler[s] = "answered"
    /\ sent[s] # 0 => handler[s] = "reading"
    /\ sender[s] \in {"off", "idle", "broken"} => Asking(s) = 0
    /\ sender[s] = "idle" => handler[s] = "reading"
    /\ sender[s] = "asking" => Asking(s) # 0 /\ fate[Asking(s)] = "open"
    /\ sender[s] = "dead" /\ Asking(s) # 0 => fate[Asking(s)] = "gone"

\* No request has two senders.
OneSender == \A s, z \in Senders :
                 s # z /\ Asking(s) # 0 => Asking(s) # Asking(z)

\* What was not asked yet is open.
Unasked == \A r \in Requests : r > asked => fate[r] = "open"

RInv == IInv /\ (\A s \in Senders : Agreed(s)) /\ OneSender /\ Unasked

\* What the types give.
LEMMA Counts ==
  ASSUME TypeOK
  PROVE  /\ asked \in Nat /\ MaxRequests \in Nat /\ asked <= MaxRequests
         /\ \A s \in Senders : sent[s] \in Nat /\ request[s] \in Nat
         /\ \A r : r \in 1..asked => r \in Requests
BY BridgeAssumption DEF TypeOK, Requests

\* A sender asks one request, which is in the socket or with the task.
LEMMA AskingOne ==
  ASSUME RInv, NEW s \in Senders
  PROVE  /\ sent[s] # 0 => request[s] = 0 /\ Asking(s) = sent[s]
         /\ request[s] # 0 => sent[s] = 0 /\ Asking(s) = request[s]
         /\ Asking(s) # 0 => Asking(s) \in 1..asked /\ Asking(s) \in Requests
<1>1. Agreed(s) /\ asked \in Nat /\ \A r : r \in 1..asked => r \in Requests
  BY Counts DEF RInv, IInv
<1> QED
  BY <1>1 DEF Agreed, Asking

\* A step that leaves a sender alone, or displaces its request.
LEMMA StaysAgreed ==
  ASSUME RInv, NEW z \in Senders, asked' \in Nat, asked <= asked',
         sent'[z] = sent[z], request'[z] = request[z],
         answer'[z] = answer[z], sender'[z] = sender[z],
         \/ handler'[z] = handler[z]
         \/ handler[z] = "waiting" /\ handler'[z] = "cancelled",
         Asking(z) # 0 => fate'[Asking(z)] = fate[Asking(z)]
  PROVE  Agreed(z)' /\ Asking(z)' = Asking(z)
<1>1. Agreed(z) /\ asked \in Nat
  BY Counts DEF RInv, IInv
<1>2. Asking(z)' = Asking(z)
  BY DEF Asking
<1>3. sent'[z] \in 0..asked' /\ request'[z] \in 0..asked'
  BY <1>1 DEF Agreed
<1> QED
  BY <1>1, <1>2, <1>3 DEF Agreed

\* A step after which no sender asks another request than before.
LEMMA StaysApart ==
  ASSUME RInv, \A s \in Senders : Asking(s)' \in {0, Asking(s)}
  PROVE  OneSender'
BY DEF RInv, OneSender

LEMMA AskAgrees ==
  ASSUME RInv, NEW s \in Senders, Ask(s)
  PROVE  (\A z \in Senders : Agreed(z)') /\ OneSender' /\ Unasked'
<1>1. /\ TypeOK /\ Agreed(s) /\ asked \in Nat /\ asked' = asked + 1
      /\ asked' \in Nat /\ asked <= asked'
      /\ sent' = [sent EXCEPT ![s] = asked + 1]
      /\ sender[s] = "idle" /\ sender' = [sender EXCEPT ![s] = "asking"]
      /\ UNCHANGED <<fate, handler, request, answer>>
      /\ asked + 1 \in Requests
  BY Counts DEF RInv, IInv, Ask, Requests
<1>2. /\ sent'[s] = asked + 1 /\ sender'[s] = "asking"
      /\ \A z \in Senders : z # s => sent'[z] = sent[z] /\ sender'[z] = sender[z]
  BY <1>1 DEF TypeOK
<1>3. /\ sent[s] = 0 /\ request[s] = 0 /\ handler[s] = "reading"
  BY <1>1 DEF Agreed, Asking
<1>4. fate[asked + 1] = "open"
  BY <1>1 DEF RInv, Unasked
<1>5. Asking(s)' = asked + 1
  BY <1>1, <1>2 DEF Asking
<1>6. Agreed(s)'
  BY <1>1, <1>2, <1>3, <1>4, <1>5 DEF Agreed
<1>7. ASSUME NEW z \in Senders, z # s PROVE Agreed(z)' /\ Asking(z)' = Asking(z)
  BY <1>1, <1>2, <1>7, StaysAgreed
<1>8. OneSender'
  <2>1. \A z \in Senders : Asking(z) \in 0..asked
    BY DEF RInv, Agreed, Asking
  <2>2. \A z \in Senders : Asking(z) # asked + 1
    BY <1>1, <2>1
  <2> QED
    BY <1>1, <1>5, <1>7, <2>2 DEF RInv, OneSender
<1>9. Unasked'
  BY <1>1, Counts DEF RInv, Unasked, Requests
<1> QED
  BY <1>6, <1>7, <1>8, <1>9

\* Only the request of its own is touched by a step of a sender.
LEMMA OthersAgree ==
  ASSUME RInv, NEW s \in Senders, asked' = asked,
         \A z \in Senders : z # s =>
            /\ sent'[z] = sent[z] /\ request'[z] = request[z]
            /\ answer'[z] = answer[z] /\ sender'[z] = sender[z]
            /\ \/ handler'[z] = handler[z]
               \/ handler[z] = "waiting" /\ handler'[z] = "cancelled",
         \A r \in Requests : r # Asking(s) => fate'[r] = fate[r],
         Agreed(s)', Asking(s)' \in {0, Asking(s)}
  PROVE  (\A z \in Senders : Agreed(z)') /\ OneSender' /\ Unasked'
<1>1. TypeOK /\ asked \in Nat /\ Agreed(s)
  BY Counts DEF RInv, IInv
<1>2. ASSUME NEW z \in Senders, z # s PROVE Agreed(z)' /\ Asking(z)' = Asking(z)
  <2>1. Asking(z) # 0 => Asking(z) \in Requests /\ Asking(z) # Asking(s)
    BY <1>2, AskingOne DEF RInv, OneSender
  <2>2. asked' \in Nat /\ asked <= asked'
    BY <1>1
  <2> QED
    BY <1>2, <2>1, <2>2, StaysAgreed
<1>3. OneSender'
  BY <1>2, StaysApart
<1>4. Unasked'
  <2>1. \A r \in Requests : r > asked => r # Asking(s)
    <3>1. Asking(s) \in 0..asked
      BY <1>1 DEF Agreed, Asking
    <3> QED
      BY <1>1, <3>1 DEF Requests
  <2> QED
    BY <1>1, <2>1 DEF RInv, Unasked
<1> QED
  BY <1>2, <1>3, <1>4

\* Every step of a sender or of its connection keeps what they agree on.
LEMMA SenderAgrees ==
  ASSUME RInv, NEW s \in Senders, SenderNext(s)
  PROVE  (\A z \in Senders : Agreed(z)') /\ OneSender' /\ Unasked'
<1>1. /\ TypeOK /\ Agreed(s) /\ asked \in Nat /\ None \notin Senders
      /\ FreshSenders /\ WaiterHoldsTx
      /\ Asking(s) = IF sent[s] # 0 THEN sent[s] ELSE request[s]
  BY Counts, BridgeAssumption DEF RInv, IInv, Asking
<1>2. /\ sent[s] # 0 => request[s] = 0 /\ Asking(s) = sent[s]
      /\ request[s] # 0 => sent[s] = 0 /\ Asking(s) = request[s]
      /\ Asking(s) # 0 => Asking(s) \in Requests
  BY AskingOne
<1>3. CASE Connect(s)
  <2>1. /\ sender'[s] = "idle" /\ handler'[s] = "reading"
        /\ UNCHANGED <<asked, sent, fate, request, answer>>
        /\ handler[s] = "none"
        /\ \A z \in Senders : z # s =>
             handler'[z] = handler[z] /\ sender'[z] = sender[z]
    BY <1>1, <1>3 DEF Connect, TypeOK, FreshSenders
  <2>2. Asking(s)' = Asking(s) /\ Agreed(s)'
    BY <1>1, <2>1, <1>3 DEF Agreed, Asking, Connect
  <2> QED
    BY <2>1, <2>2, OthersAgree
<1>4. CASE Ask(s)
  BY <1>4, AskAgrees
<1>5. CASE Stop(s)
  <2>1. /\ sender'[s] = "dead"
        /\ UNCHANGED <<asked, sent, handler, request, answer>>
        /\ \A z \in Senders : z # s => sender'[z] = sender[z]
        /\ \A r \in Requests : r # Asking(s) => fate'[r] = fate[r]
    BY <1>1, <1>5 DEF Stop, TypeOK
  <2>2. Asking(s) # 0 => fate'[Asking(s)] = "gone"
    BY <1>1, <1>2, <1>5 DEF Stop, Agreed, TypeOK
  <2>3. Asking(s)' = Asking(s) /\ Agreed(s)'
    BY <1>1, <2>1, <2>2 DEF Agreed, Asking
  <2> QED
    BY <2>1, <2>3, OthersAgree
<1>6. ASSUME responseTx' = s, asked' = asked, answer' = answer,
             sent' = [sent EXCEPT ![s] = 0],
             \A z \in Senders : z # s =>
               /\ request'[z] = request[z] /\ sender'[z] = sender[z]
               /\ handler'[z] = Displaced[z],
             \A r \in Requests : r # Asking(s) => fate'[r] = fate[r],
             Agreed(s)', Asking(s)' \in {0, Asking(s)}
      PROVE  (\A z \in Senders : Agreed(z)') /\ OneSender' /\ Unasked'
  <2>1. ASSUME NEW z \in Senders
        PROVE  \/ Displaced[z] = handler[z]
               \/ handler[z] = "waiting" /\ Displaced[z] = "cancelled"
    BY <1>1 DEF Displaced, TypeOK
  <2>2. \A z \in Senders : z # s => sent'[z] = sent[z]
    BY <1>1, <1>6 DEF TypeOK
  <2> QED
    BY <1>6, <2>1, <2>2, OthersAgree
<1>7. CASE Forward(s)
  <2>1. Displaced \in [Senders -> {"none", "reading", "waiting", "answered",
                                   "cancelled", "ended"}]
    BY <1>1, DisplacedType
  <2>2. /\ handler[s] = "reading" /\ sent[s] # 0
        /\ sent'[s] = 0 /\ request'[s] = sent[s] /\ handler'[s] = "waiting"
        /\ UNCHANGED <<asked, sender, fate, answer>> /\ responseTx' = s
        /\ sent' = [sent EXCEPT ![s] = 0]
        /\ \A z \in Senders : z # s =>
             request'[z] = request[z] /\ handler'[z] = Displaced[z]
    BY <1>1, <1>7, <2>1 DEF Forward, TypeOK
  <2>3. Asking(s)' = Asking(s)
    BY <1>2, <2>2 DEF Asking
  <2>4. Agreed(s)'
    BY <1>1, <1>2, <2>2, <2>3 DEF Agreed
  <2> QED
    BY <1>6, <2>2, <2>3, <2>4
<1>8. CASE Refuse(s)
  <2>1. Displaced \in [Senders -> {"none", "reading", "waiting", "answered",
                                   "cancelled", "ended"}]
    BY <1>1, DisplacedType
  <2>2. /\ handler[s] = "reading" /\ sent[s] # 0
        /\ sent'[s] = 0 /\ handler'[s] = "ended"
        /\ UNCHANGED <<asked, request, answer>> /\ responseTx' = s
        /\ sent' = [sent EXCEPT ![s] = 0]
        /\ \A z \in Senders : z # s =>
             sender'[z] = sender[z] /\ handler'[z] = Displaced[z]
    BY <1>1, <1>8, <2>1 DEF Refuse, TypeOK, pageVars
  <2>3. /\ \A r \in Requests : r # Asking(s) => fate'[r] = fate[r]
        /\ sender'[s] \in {"broken", "dead"}
    BY <1>1, <1>2, <1>8, <2>2 DEF Refuse, TypeOK, Agreed
  <2>4. Asking(s)' = 0
    BY <1>2, <2>2 DEF Asking
  <2>5. Agreed(s)'
    BY <1>1, <1>2, <2>2, <2>3, <2>4 DEF Agreed
  <2> QED
    BY <1>6, <2>2, <2>3, <2>4, <2>5
<1>9. CASE Reply(s)
  <2>1. /\ handler[s] \in {"answered", "cancelled"}
        /\ request'[s] = 0 /\ answer'[s] = 0
        /\ UNCHANGED <<asked, sent>>
        /\ \A z \in Senders : z # s =>
             /\ sender'[z] = sender[z] /\ handler'[z] = handler[z]
             /\ request'[z] = request[z] /\ answer'[z] = answer[z]
    BY <1>1, <1>9 DEF Reply, TypeOK
  <2>2. request[s] # 0 /\ sent[s] = 0
    BY <1>1, <2>1 DEF Agreed
  <2>3. \A r \in Requests : r # Asking(s) => fate'[r] = fate[r]
    BY <1>1, <1>2, <1>9, <2>2 DEF Reply, TypeOK
  <2>4. \/ handler'[s] = "reading" /\ sender'[s] = "idle"
        \/ handler'[s] = "ended" /\ sender'[s] = "dead"
    BY <1>1, <1>9 DEF Reply, TypeOK
  <2>5. Asking(s)' = 0
    BY <2>1, <2>2 DEF Asking
  <2>6. Agreed(s)'
    BY <1>1, <2>1, <2>2, <2>4, <2>5 DEF Agreed
  <2> QED
    BY <2>1, <2>3, <2>5, <2>6, OthersAgree
<1>10. CASE Disconnect(s)
  <2>1. /\ handler[s] = "reading" /\ sent[s] = 0 /\ handler'[s] = "ended"
        /\ UNCHANGED <<asked, sent, fate, request, answer, sender>>
        /\ sender[s] = "dead"
        /\ \A z \in Senders : z # s => handler'[z] = handler[z]
    BY <1>1, <1>10 DEF Disconnect, TypeOK, senderVars
  <2>2. Asking(s)' = Asking(s) /\ Agreed(s)'
    BY <1>1, <2>1 DEF Agreed, Asking
  <2> QED
    BY <2>1, <2>2, OthersAgree
<1> QED
  BY <1>3, <1>4, <1>5, <1>7, <1>8, <1>9, <1>10 DEF SenderNext

\* A waiter that is answered holds an answer.
LEMMA ReceiveAgrees ==
  ASSUME RInv, NEW b \in Browsers, ReceiveAnswer(b)
  PROVE  (\A z \in Senders : Agreed(z)') /\ OneSender' /\ Unasked'
<1>1. /\ TypeOK /\ asked \in Nat /\ UNCHANGED <<asked, sender, sent, fate, request>>
      /\ asked' \in Nat /\ asked <= asked'
  BY Counts DEF RInv, IInv, ReceiveAnswer, senderVars
<1>2. Head(toBridge[b]) \in Requests /\ Head(toBridge[b]) # 0
  <2>1. toBridge[b] \in Seq(Requests) /\ toBridge[b] # <<>>
    BY <1>1 DEF ReceiveAnswer, TypeOK
  <2>2. Head(toBridge[b]) \in Requests
    BY <2>1
  <2> QED
    BY <2>2, BridgeAssumption DEF Requests
<1>3. \A z \in Senders : Asking(z)' = Asking(z)
  BY <1>1 DEF Asking
<1>4. ASSUME NEW z \in Senders PROVE Agreed(z)'
  <2>1. Agreed(z)
    BY DEF RInv
  <2>2. CASE z = responseTx /\ handler[z] = "waiting" /\ z # None
    <3>1. handler'[z] = "answered" /\ answer'[z] = Head(toBridge[b])
      BY <1>1, <2>2 DEF ReceiveAnswer, TypeOK
    <3> QED
      BY <1>1, <1>2, <1>3, <2>1, <2>2, <3>1 DEF Agreed
  <2>3. CASE ~(z = responseTx /\ handler[z] = "waiting" /\ z # None)
    <3>1. handler'[z] = handler[z] /\ answer'[z] = answer[z]
      BY <1>1, <2>3 DEF ReceiveAnswer, TypeOK
    <3> QED
      BY <1>1, <3>1, StaysAgreed
  <2> QED
    BY <2>2, <2>3
<1> QED
  BY <1>1, <1>3, <1>4, StaysApart DEF RInv, Unasked

LEMMA RelayStep == RInv /\ [Next]_vars => RInv'
<1> SUFFICES ASSUME RInv, [Next]_vars PROVE RInv'
  OBVIOUS
<1>1. IInv'
  BY WaiterStep DEF RInv
<1>2. (\A z \in Senders : Agreed(z)') /\ OneSender' /\ Unasked'
  <2>1. CASE \E s \in Senders : SenderNext(s)
    BY <2>1, SenderAgrees
  <2>2. CASE \E b \in Browsers : ReceiveAnswer(b)
    BY <2>2, ReceiveAgrees
  <2>3. CASE UNCHANGED <<senderVars, handler, request, answer>>
    BY <2>3 DEF senderVars, RInv, Agreed, Asking, OneSender, Unasked
  <2> QED
    BY <2>1, <2>2, <2>3 DEF Next, PageNext, OpenPage, StreamEnds, SignerAnswers,
       Scan, ClosePage, vars
<1> QED
  BY <1>1, <1>2 DEF RInv

LEMMA RelayInit == Init => RInv
<1> SUFFICES ASSUME Init PROVE RInv
  OBVIOUS
<1>1. IInv /\ asked \in Nat
  BY WaiterInit DEF Init
<1>2. ASSUME NEW s \in Senders PROVE Agreed(s) /\ Asking(s) = 0
  <2>1. /\ sent[s] = 0 /\ request[s] = 0 /\ answer[s] = 0 /\ asked = 0
        /\ handler[s] = "none" /\ sender[s] = "off"
    BY DEF Init
  <2> QED
    BY <2>1 DEF Agreed, Asking
<1>3. OneSender /\ Unasked
  BY <1>2 DEF OneSender, Unasked, Init
<1> QED
  BY <1>1, <1>2, <1>3 DEF RInv

\* What is in flight changes only with the waiters.
LEMMA SameFlight ==
  ASSUME RInv, responseTx' = responseTx,
         \A z \in Senders : /\ handler'[z] = "waiting" <=> handler[z] = "waiting"
                            /\ handler[z] = "waiting" => request'[z] = request[z]
  PROVE  Flight' = Flight
BY DEF RInv, IInv, TypeOK, Flight

\* What was won changes only with the tasks that were answered.
LEMMA SameWon ==
  ASSUME \A z \in Senders :
            /\ handler'[z] = "answered" <=> handler[z] = "answered"
            /\ handler[z] = "answered" => request'[z] = request[z]
                                          /\ answer'[z] = answer[z]
  PROVE  Won' = Won
<1>1. ASSUME NEW r \in Requests PROVE Won'[r] = Won[r]
  <2>1. Answered(r)' = Answered(r)
    BY DEF Answered
  <2>2. Answered(r) # {} => (CHOOSE z \in Answered(r) : TRUE) \in Answered(r)
    OBVIOUS
  <2>3. \A z \in Answered(r) : answer'[z] = answer[z]
    BY DEF Answered
  <2> QED
    BY <2>1, <2>2, <2>3 DEF Won
<1> QED
  BY <1>1 DEF Won

\* A request that waits is in flight, and no other is.
LEMMA InFlight ==
  ASSUME RInv
  PROVE  /\ Flight # 0 => /\ responseTx \in Senders
                          /\ handler[responseTx] = "waiting"
                          /\ Flight = request[responseTx]
         /\ \A s \in Senders : handler[s] # "waiting" /\ request[s] # 0
                               => Flight # request[s]
<1>1. \A s \in Senders : /\ Agreed(s)
                         /\ request[s] # 0 => Asking(s) = request[s]
  BY AskingOne DEF RInv
<1>2. Flight # 0 => /\ responseTx \in Senders /\ handler[responseTx] = "waiting"
                    /\ Flight = request[responseTx]
  BY DEF RInv, IInv, TypeOK, Flight
<1> QED
  BY <1>1, <1>2 DEF RInv, OneSender

\* The task that was answered with a request's answer is the only one.
LEMMA OneAnswered ==
  ASSUME RInv, NEW s \in Senders, handler[s] = "answered"
  PROVE  /\ Answered(request[s]) = {s}
         /\ Won[request[s]] = answer[s] /\ answer[s] # 0
         /\ request[s] \in Requests
<1>1. \A z \in Senders : /\ Agreed(z)
                         /\ request[z] # 0 => Asking(z) = request[z]
                                              /\ Asking(z) \in Requests
  BY AskingOne DEF RInv
<1>2. request[s] # 0 /\ answer[s] # 0 /\ request[s] \in Requests
  BY <1>1 DEF Agreed
<1>3. Answered(request[s]) = {s}
  BY <1>1, <1>2 DEF Answered, RInv, OneSender
<1> QED
  BY <1>2, <1>3 DEF Won

\* Without an answered task a request has won nothing.
LEMMA NothingWon ==
  ASSUME RInv, NEW s \in Senders, handler[s] # "answered", request[s] \in Requests
  PROVE  Won[request[s]] = 0
<1>1. request[s] # 0
  BY BridgeAssumption DEF Requests
<1>2. \A z \in Senders : request[z] # 0 => Asking(z) = request[z]
  BY AskingOne
<1>3. Answered(request[s]) = {}
  BY <1>1, <1>2 DEF Answered, RInv, OneSender
<1> QED
  BY <1>3 DEF Won

\* Forward and Refuse take the request from the socket.
LEMMA TakenFromSocket ==
  ASSUME RInv, NEW s \in Senders, sent[s] # 0, asked' = asked,
         sent' = [sent EXCEPT ![s] = 0]
  PROVE  /\ sent[s] \in Requests /\ sent[s] \notin Seen
         /\ Seen' = Seen \cup {sent[s]}
<1>1. /\ sent[s] \in 1..asked /\ sent[s] \in Requests
      /\ \A z \in Senders : z # s => sent[z] # sent[s]
  <2>1. Asking(s) = sent[s] /\ sent[s] \in 1..asked /\ sent[s] \in Requests
    BY AskingOne
  <2>2. \A z \in Senders : sent[z] # 0 => Asking(z) = sent[z]
    BY AskingOne
  <2> QED
    BY <2>1, <2>2 DEF RInv, OneSender
<1>2. \A z \in Senders : sent'[z] = IF z = s THEN 0 ELSE sent[z]
  BY DEF RInv, IInv, TypeOK
<1>3. \A r \in 1..asked : r # 0
  BY Counts DEF RInv, IInv
<1> QED
  BY <1>1, <1>2, <1>3 DEF Seen

\* What a displaced task does not touch.
LEMMA DisplacedWon ==
  ASSUME RInv, NEW z \in Senders
  PROVE  Displaced[z] = "answered" <=> handler[z] = "answered"
BY DEF RInv, IInv, TypeOK, Displaced

\* Every step of a sender or of its connection is one of the relay's, or none.
LEMMA SenderRelays ==
  ASSUME RInv, NEW s \in Senders, SenderNext(s)
  PROVE  Relay!Next \/ UNCHANGED Relay!vars
<1>1. /\ TypeOK /\ Agreed(s) /\ asked \in Nat /\ None \notin Senders
      /\ FreshSenders /\ WaiterHoldsTx
      /\ handler \in [Senders -> {"none", "reading", "waiting", "answered",
                                  "cancelled", "ended"}]
  BY Counts, BridgeAssumption DEF RInv, IInv, TypeOK
<1>2. /\ sent[s] # 0 => request[s] = 0 /\ Asking(s) = sent[s]
      /\ request[s] # 0 => sent[s] = 0 /\ Asking(s) = request[s]
      /\ Asking(s) # 0 => Asking(s) \in 1..asked /\ Asking(s) \in Requests
  BY AskingOne
<1>3. CASE Connect(s)
  <2>1. /\ handler[s] = "none" /\ handler' = [handler EXCEPT ![s] = "reading"]
        /\ UNCHANGED <<asked, sent, fate, got, request, answer, responseTx>>
    BY <1>1, <1>3 DEF Connect, FreshSenders, state
  <2>2. Flight' = Flight /\ Won' = Won
    BY <1>1, <2>1, SameFlight, SameWon
  <2>3. Seen' = Seen
    BY <2>1 DEF Seen
  <2> QED
    BY <2>1, <2>2, <2>3 DEF Relay!vars
<1>4. CASE Ask(s)
  <2>1. /\ UNCHANGED <<fate, got, handler, request, answer, responseTx>>
        /\ asked' = asked + 1 /\ sent' = [sent EXCEPT ![s] = asked + 1]
        /\ sent[s] = 0
    BY <1>1, <1>4 DEF Ask, state, Agreed, Asking
  <2>2. Flight' = Flight /\ Won' = Won
    BY <2>1, SameFlight, SameWon
  <2>3. sent' \in [Senders -> Nat] /\ sent'[s] = asked + 1
        /\ \A z \in Senders : z # s => sent'[z] = sent[z]
    BY <1>1, <2>1 DEF TypeOK
  <2>4. Seen' = Seen
    BY <1>1, <2>1, <2>3 DEF Seen
  <2> QED
    BY <2>1, <2>2, <2>4 DEF Relay!vars
<1>5. CASE Stop(s)
  <2>1. UNCHANGED <<asked, sent, got, handler, request, answer, responseTx>>
    BY <1>5 DEF Stop, state
  <2>2. Flight' = Flight /\ Won' = Won /\ Seen' = Seen
    BY <2>1, SameFlight, SameWon DEF Seen
  <2>3. CASE sender[s] = "asking"
    <3>1. /\ fate[Asking(s)] = "open" /\ Asking(s) \in Requests
          /\ fate' = [fate EXCEPT ![Asking(s)] = "gone"]
      BY <1>1, <1>2, <1>5, <2>3 DEF Stop, Agreed
    <3>2. Relay!Leave(Asking(s))
      BY <2>1, <2>2, <3>1 DEF Relay!Leave
    <3> QED
      BY <3>1, <3>2 DEF Relay!Next
  <2>4. CASE sender[s] # "asking"
    BY <1>5, <2>1, <2>2, <2>4 DEF Stop, Relay!vars
  <2> QED
    BY <2>3, <2>4
<1>6. CASE Forward(s)
  <2>1. /\ sent[s] # 0 /\ sent' = [sent EXCEPT ![s] = 0]
        /\ responseTx' = s /\ handler' = [Displaced EXCEPT ![s] = "waiting"]
        /\ request' = [request EXCEPT ![s] = sent[s]]
        /\ handler[s] = "reading"
        /\ UNCHANGED <<asked, fate, got, answer>>
    BY <1>6 DEF Forward
  <2>2. Flight' = sent[s]
    <3>1. handler'[s] = "waiting" /\ request'[s] = sent[s]
      BY <1>1, <2>1, DisplacedType DEF TypeOK
    <3> QED
      BY <1>1, <2>1, <3>1 DEF Flight
  <2>3. Won' = Won
    <3>1. \A z \in Senders : /\ z # s => handler'[z] = Displaced[z]
                                         /\ request'[z] = request[z]
                             /\ handler'[s] = "waiting"
      BY <1>1, <2>1, DisplacedType DEF TypeOK
    <3> QED
      BY <2>1, <3>1, DisplacedWon, SameWon
  <2>4. Relay!Admit(sent[s])
    BY <2>1, <2>2, <2>3, TakenFromSocket DEF Relay!Admit
  <2> QED
    BY <2>1, <2>4, TakenFromSocket DEF Relay!Next
<1>7. CASE Refuse(s)
  <2>1. /\ sent[s] # 0 /\ sent' = [sent EXCEPT ![s] = 0]
        /\ responseTx' = s /\ handler' = [Displaced EXCEPT ![s] = "ended"]
        /\ handler[s] = "reading"
        /\ UNCHANGED <<asked, got, answer, request>>
    BY <1>7 DEF Refuse
  <2>2. \A z \in Senders : /\ z # s => handler'[z] = Displaced[z]
                           /\ handler'[s] = "ended"
    BY <1>1, <2>1, DisplacedType
  <2>3. Flight' = 0
    BY <2>1, <2>2 DEF Flight
  <2>4. Won' = Won
    BY <2>1, <2>2, DisplacedWon, SameWon
  <2>5. fate' = IF fate[sent[s]] = "gone" THEN fate
                ELSE [fate EXCEPT ![sent[s]] = "failed"]
    BY <1>1, <1>2, <1>7, <2>1 DEF Refuse, Agreed, TypeOK
  <2>6. Relay!Refuse(sent[s])
    BY <2>1, <2>3, <2>4, <2>5, TakenFromSocket DEF Relay!Refuse
  <2> QED
    BY <2>1, <2>6, TakenFromSocket DEF Relay!Next
<1>8. CASE Reply(s)
  <2>1. /\ handler[s] \in {"answered", "cancelled"}
        /\ request' = [request EXCEPT ![s] = 0]
        /\ answer' = [answer EXCEPT ![s] = 0]
        /\ UNCHANGED <<asked, sent, responseTx>>
        /\ \/ handler' = [handler EXCEPT ![s] = "reading"]
           \/ handler' = [handler EXCEPT ![s] = "ended"]
    BY <1>8 DEF Reply, state
  <2>2. /\ request[s] # 0 /\ sent[s] = 0 /\ Asking(s) = request[s]
        /\ request[s] \in Requests /\ request[s] \in 1..asked
    BY <1>1, <1>2, <2>1 DEF Agreed
  <2>3. /\ \A z \in Senders : z # s => /\ handler'[z] = handler[z]
                                       /\ request'[z] = request[z]
                                       /\ answer'[z] = answer[z]
        /\ handler'[s] \in {"reading", "ended"} /\ request'[s] = 0
    BY <1>1, <2>1 DEF TypeOK
  <2>4. Flight' = Flight /\ Seen' = Seen
    BY <2>1, <2>3, SameFlight DEF Seen
  <2>5. CASE handler[s] = "cancelled"
    <3>1. Won' = Won
      BY <2>3, <2>5, SameWon
    <3>2. CASE sender[s] = "dead"
      BY <1>8, <2>4, <3>1, <3>2 DEF Reply, Relay!vars
    <3>3. CASE sender[s] # "dead"
      <4>1. sender[s] = "asking" /\ fate[request[s]] = "open"
        BY <1>1, <2>2, <3>3 DEF Agreed, TypeOK
      <4>2. request[s] \in Seen
        <5>1. \A z \in Senders : sent[z] # 0 => Asking(z) = sent[z]
          BY AskingOne
        <5>2. \A z \in Senders : sent[z] # request[s]
          BY <2>2, <5>1 DEF RInv, OneSender
        <5> QED
          BY <2>2, <5>2 DEF Seen
      <4>3. request[s] # Flight /\ Won[request[s]] = 0
        BY <2>2, <2>5, InFlight, NothingWon
      <4>4. fate' = [fate EXCEPT ![request[s]] = "failed"] /\ got' = got
        BY <1>8, <2>5, <3>3 DEF Reply
      <4>5. Relay!Fail(request[s])
        BY <2>4, <3>1, <4>1, <4>2, <4>3, <4>4 DEF Relay!Fail
      <4> QED
        BY <2>2, <4>5 DEF Relay!Next
    <3> QED
      BY <3>2, <3>3
  <2>6. CASE handler[s] = "answered"
    <3>1. /\ Answered(request[s]) = {s} /\ Won[request[s]] = answer[s]
          /\ answer[s] # 0
      BY <2>6, OneAnswered
    <3>2. PICK q \in Requests : q = request[s]
      BY <2>2
    <3>3. Won' = [Won EXCEPT ![q] = 0]
      <4>1. Answered(q)' = {}
        <5>1. \A z \in Senders : z # s => ~(handler[z] = "answered"
                                             /\ request[z] = q)
          BY <3>1, <3>2 DEF Answered
        <5> QED
          BY <2>3, <5>1 DEF Answered
      <4>2. ASSUME NEW r \in Requests, r # q
            PROVE  /\ Answered(r)' = Answered(r)
                   /\ \A z \in Answered(r) : answer'[z] = answer[z]
        BY <2>3, <3>2, <4>2 DEF Answered
      <4>3. ASSUME NEW r \in Requests, r # q PROVE Won'[r] = Won[r]
        <5>1. Answered(r) # {} => (CHOOSE z \in Answered(r) : TRUE) \in Answered(r)
          OBVIOUS
        <5> QED
          BY <4>2, <4>3, <5>1 DEF Won
      <4>4. Won'[q] = 0
        BY <4>1 DEF Won
      <4>5. DOMAIN Won = Requests /\ Won' = [r \in Requests |-> Won'[r]]
            /\ Won = [r \in Requests |-> Won[r]]
        BY DEF Won
      <4> QED
        BY <4>3, <4>4, <4>5
    <3>4. fate[q] = "gone" <=> sender[s] = "dead"
      BY <1>1, <2>2, <3>2 DEF Agreed, TypeOK
    <3>5. IF fate[q] = "gone" THEN UNCHANGED <<fate, got>>
          ELSE /\ fate' = [fate EXCEPT ![q] = "done"]
               /\ got' = [got EXCEPT ![q] = Won[q]]
      BY <1>8, <2>6, <3>1, <3>2, <3>4 DEF Reply
    <3>6. Relay!Deliver(q)
      BY <2>4, <3>1, <3>2, <3>3, <3>5 DEF Relay!Deliver
    <3> QED
      BY <3>6 DEF Relay!Next
  <2> QED
    BY <2>1, <2>5, <2>6
<1>9. CASE Disconnect(s)
  <2>1. /\ handler[s] = "reading" /\ handler' = [handler EXCEPT ![s] = "ended"]
        /\ UNCHANGED <<asked, sent, fate, got, request, answer, responseTx>>
    BY <1>9 DEF Disconnect, senderVars, state
  <2>2. Flight' = Flight /\ Won' = Won
    BY <1>1, <2>1, SameFlight, SameWon
  <2>3. Seen' = Seen
    BY <2>1 DEF Seen
  <2> QED
    BY <2>1, <2>2, <2>3 DEF Relay!vars
<1> QED
  BY <1>3, <1>4, <1>5, <1>6, <1>7, <1>8, <1>9 DEF SenderNext

\* An answer goes to the request in flight, or nowhere.
LEMMA ReceiveRelays ==
  ASSUME RInv, NEW b \in Browsers, ReceiveAnswer(b)
  PROVE  Relay!Next \/ UNCHANGED Relay!vars
<1>1. /\ TypeOK /\ None \notin Senders
      /\ UNCHANGED <<asked, sent, fate, got, request>> /\ responseTx' = None
  BY BridgeAssumption DEF RInv, IInv, ReceiveAnswer, senderVars
<1>2. Seen' = Seen /\ Flight' = 0
  BY <1>1 DEF Seen, Flight
<1>3. CASE responseTx # None /\ handler[responseTx] = "waiting"
  <2>1. PICK w \in Senders : w = responseTx
    BY <1>1, <1>3 DEF TypeOK
  <2>2. PICK n : n = Head(toBridge[b])
    OBVIOUS
  <2>3. n \in Requests
    <3>1. toBridge[b] \in Seq(Requests) /\ toBridge[b] # <<>>
      BY <1>1 DEF ReceiveAnswer, TypeOK
    <3> QED
      BY <2>2, <3>1
  <2>4. /\ handler[w] = "waiting" /\ handler' = [handler EXCEPT ![w] = "answered"]
        /\ answer' = [answer EXCEPT ![w] = n]
    BY <1>3, <2>1, <2>2 DEF ReceiveAnswer
  <2>5. /\ \A z \in Senders : z # w => handler'[z] = handler[z]
                                       /\ answer'[z] = answer[z]
        /\ handler'[w] = "answered" /\ answer'[w] = n
    BY <1>1, <2>4 DEF TypeOK
  <2>6. Asking(w) = request[w] /\ request[w] # 0 /\ request[w] \in Requests
    BY <2>4, AskingOne DEF RInv, Agreed
  <2>7. PICK q \in Requests : q = request[w]
    BY <2>6
  <2>8. Flight = q /\ q # 0
    BY <1>3, <2>1, <2>6, <2>7 DEF Flight
  <2>9. \A z \in Senders : z # w => request[z] # q
    BY <2>6, <2>7, AskingOne DEF RInv, OneSender
  <2>10. Won' = [Won EXCEPT ![q] = n]
    <3>1. Answered(q)' = {w}
      BY <1>1, <2>5, <2>7, <2>9 DEF Answered
    <3>2. ASSUME NEW r \in Requests, r # q
          PROVE  /\ Answered(r)' = Answered(r)
                 /\ \A z \in Answered(r) : answer'[z] = answer[z]
      BY <1>1, <2>4, <2>5, <2>7, <3>2 DEF Answered
    <3>3. ASSUME NEW r \in Requests, r # q PROVE Won'[r] = Won[r]
      <4>1. Answered(r) # {} => (CHOOSE z \in Answered(r) : TRUE) \in Answered(r)
        OBVIOUS
      <4> QED
        BY <3>2, <3>3, <4>1 DEF Won
    <3>4. Won'[q] = n
      BY <2>5, <3>1 DEF Won
    <3>5. /\ DOMAIN Won = Requests /\ Won' = [r \in Requests |-> Won'[r]]
          /\ Won = [r \in Requests |-> Won[r]]
      BY DEF Won
    <3> QED
      BY <3>3, <3>4, <3>5
  <2>11. Relay!Answer(n)
    BY <1>1, <1>2, <2>8, <2>10 DEF Relay!Answer
  <2> QED
    BY <2>3, <2>11 DEF Relay!Next
<1>4. CASE ~(responseTx # None /\ handler[responseTx] = "waiting")
  <2>1. UNCHANGED <<handler, answer>>
    BY <1>4 DEF ReceiveAnswer
  <2>2. Won' = Won
    BY <1>1, <2>1, SameWon
  <2>3. Flight = 0
    BY <1>4 DEF Flight
  <2> QED
    BY <1>1, <1>2, <2>2, <2>3 DEF Relay!vars
<1> QED
  BY <1>3, <1>4

\* The bridge is a single-flight relay (`handle_ipc_connection` and the
\* session of `ws` in src/bridge/src/lib.rs over SingleFlight): an answer, of
\* whichever session, goes to the latest request only, once, and a request
\* fails only when a later one displaced it or no browser was there.
THEOREM BridgeRelaysOneRequest == Spec => RelaysOneRequest
<1>1. Init => Relay!Init
  <2> SUFFICES ASSUME Init PROVE Relay!Init
    OBVIOUS
  <2>1. /\ asked = 0 /\ responseTx = None
        /\ \A s \in Senders : handler[s] = "none"
    BY DEF Init
  <2>2. Flight = 0 /\ Seen = {}
    BY <2>1 DEF Flight, Seen
  <2>3. \A r \in Requests : Answered(r) = {}
    BY <2>1 DEF Answered
  <2>4. Won = [r \in Requests |-> 0]
    BY <2>3 DEF Won
  <2> QED
    BY <2>2, <2>4 DEF Relay!Init, Init
<1>2. RInv /\ [Next]_vars => [Relay!Next]_(Relay!vars)
  <2> SUFFICES ASSUME RInv, [Next]_vars PROVE Relay!Next \/ UNCHANGED Relay!vars
    OBVIOUS
  <2>1. CASE \E s \in Senders : SenderNext(s)
    BY <2>1, SenderRelays
  <2>2. CASE \E b \in Browsers : ReceiveAnswer(b)
    BY <2>2, ReceiveRelays
  <2>3. CASE UNCHANGED <<senderVars, handler, request, answer, responseTx>>
    BY <2>3 DEF senderVars, Relay!vars, Flight, Seen, Won, Answered
  <2> QED
    BY <2>1, <2>2, <2>3 DEF Next, PageNext, OpenPage, StreamEnds, SignerAnswers,
       Scan, ClosePage, vars, state
<1> QED
  BY <1>1, <1>2, RelayInit, RelayStep, PTL DEF Spec, RelaysOneRequest, Relay!Spec
=============================================================================

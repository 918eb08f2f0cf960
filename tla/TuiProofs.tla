------------------------------ MODULE TuiProofs ------------------------------
(* Proofs about Tui for every number of TUIs, phrases, passwords and       *)
(* screens on a stack.                                                     *)
EXTENDS Tui, SequenceTheorems, TLAPS

\* The screens that only ever open over another one.
Over == {"help", "assets", "send", "receive", "history"}

First(r, s) == r.screens # <<>> /\ r.screens[1] = s

\* Screen s is at the bottom of the stack, or the splash screen leads to it.
From(r, s) == First(r, s) \/ (First(r, "splash") /\ r.next = s)

\* A request is made by the screen at the bottom with nothing over it.
Stacked(r) ==
    /\ \A n \in 2..Len(r.screens) : r.screens[n] \in Over
    /\ r.doing # "nothing" => Len(r.screens) = 1
    /\ r.doing = "restore" => First(r, "setup")
    /\ r.doing = "register" => First(r, "connect")
    /\ First(r, "splash") => r.next \in {"setup", "greeting", "connect", "home"}

\* While the set-up screen is there, the slot of the API has the phrase that
\* it shows; from the step that asks for the password on, and in the grid and
\* in a request, there are only words that a person entered (set b).
Worded(r, b) ==
    /\ r.doing = "restore" => r.phrase \in b
    /\ r.typed \in b \cup {None}
    /\ r.step = "importpassword" => r.typed # None
    /\ r.step \in {"setpassword", "creating"} => r.shown \in b
    /\ First(r, "setup") => r.pending \in {None, r.shown}

\* The way to the home screen, to set-up and to the connect screen, in a
\* wallet that has accounts (a) and runs with the offline signer (o) or not.
Led(r, a, o) ==
    /\ From(r, "home") => a
    /\ From(r, "setup") => ~o /\ ~(r.found /\ r.connected)
    /\ From(r, "connect") => o

Good(r, b, a, o) == Stacked(r) /\ Worded(r, b) /\ Led(r, a, o)

Typed(r) == /\ r \in Process
            /\ Len(r.screens) <= MaxDepth
            /\ r.doing = "restore" => r.phrase # None

\* The marker and the accounts are made together but for two steps: set-up
\* sets the marker first, and registration, which only the offline signer
\* does, the accounts.
Together == /\ offline /\ marker => accounts
            /\ ~offline /\ accounts => marker

\* The inductive invariant.
TuiInv == /\ TypeOK
          /\ \A t \in Tuis : Good(tui[t], backed, accounts, offline)
          /\ Together
          /\ StoredWasBackedUp

\* A process record that keeps all of it.
Fine(r, b, a, o) == Typed(r) /\ Good(r, b, a, o)

\* A stack with anything on it has a bottom.
LEMMA Opened == \A q \in Seq(Screens) : /\ Len(q) \in Nat
                                        /\ q # <<>> <=> Len(q) > 0
<1> SUFFICES ASSUME NEW q \in Seq(Screens)
             PROVE  Len(q) \in Nat /\ (q # <<>> <=> Len(q) > 0)
  OBVIOUS
<1> QED
  BY EmptySeq, LenProperties

LEMMA Renamed ==
  ASSUME NEW q \in Seq(Screens), Len(q) = 1, NEW s \in Screens
  PROVE  LET x == [q EXCEPT ![1] = s] IN
         x \in Seq(Screens) /\ Len(x) = 1 /\ x[1] = s /\ x # <<>>
<1> DEFINE x == [q EXCEPT ![1] = s]
<1>1. x \in Seq(Screens) /\ Len(x) = 1 /\ x[1] = s
  BY ExceptSeq
<1> QED
  BY <1>1, Opened

LEMMA AllFine ==
  ASSUME TuiInv, NEW t \in Tuis
  PROVE  Fine(tui[t], backed, accounts, offline)
BY DEF TuiInv, TypeOK, Fine, Typed

\* Nothing of it is lost when words are entered and accounts are made.
LEMMA FineLater ==
  ASSUME NEW r, NEW b, NEW a, NEW o, Fine(r, b, a, o),
         NEW b2, NEW a2, b \subseteq b2, a => a2
  PROVE  Fine(r, b2, a2, o)
<1>1. Worded(r, b2)
  BY DEF Fine, Good, Worded
<1>2. Led(r, a2, o)
  BY DEF Fine, Good, Led
<1> QED
  BY <1>1, <1>2 DEF Fine, Good

LEMMA OffFine ==
  ASSUME NEW b, NEW a, NEW o
  PROVE  Fine(Off, b, a, o)
<1>1. Off \in Process /\ Len(Off.screens) = 0
  BY DEF Off, Process, Screens, Steps, OptPhrase, OptPassword
<1> QED
  BY <1>1, TuiAssumption DEF Off, Fine, Good, Typed, Stacked, Worded, Led, From, First

\* A screen of its own opens over the others.
LEMMA PushedFine ==
  ASSUME NEW r, NEW b, NEW a, NEW o, Fine(r, b, a, o), NEW s \in Over,
         r.screens # <<>>, r.doing = "nothing", Len(r.screens) < MaxDepth
  PROVE  Fine(Pushed(r, s), b, a, o)
<1> DEFINE q == Pushed(r, s)
<1>1. r \in Process /\ r.screens \in Seq(Screens) /\ s \in Screens
  BY DEF Fine, Typed, Process, Over, Screens
<1>2. q = [r EXCEPT !.screens = Append(r.screens, s)]
  BY DEF Pushed
<1>a. Append(r.screens, s) \in Seq(Screens)
  BY <1>1
<1>3. q.screens = Append(r.screens, s) /\ q \in Process
  BY <1>1, <1>2, <1>a DEF Process
<1>4. /\ q.doing = r.doing /\ q.next = r.next /\ q.step = r.step
      /\ q.pending = r.pending /\ q.shown = r.shown /\ q.typed = r.typed
      /\ q.found = r.found /\ q.connected = r.connected
  BY <1>1, <1>2 DEF Process
<1> HIDE DEF q
<1>5. /\ Len(q.screens) = Len(r.screens) + 1 /\ Len(r.screens) \in Nat
      /\ q.screens[1] = r.screens[1]
      /\ \A n \in 2..Len(r.screens) : q.screens[n] = r.screens[n]
      /\ q.screens[Len(r.screens) + 1] = s /\ q.screens # <<>>
  BY <1>1, <1>3
<1>6. \A x \in Screens : First(q, x) <=> First(r, x)
  BY <1>5 DEF First
<1>7. Typed(q)
  BY <1>3, <1>4, <1>5, TuiAssumption DEF Typed
<1>8. Stacked(q)
  BY <1>4, <1>5, <1>6 DEF Stacked, Fine, Good, Screens
<1>9. Worded(q, b) /\ Led(q, a, o)
  BY <1>4, <1>6 DEF Fine, Good, Worded, Led, From, Screens
<1> QED
  BY <1>7, <1>8, <1>9 DEF Fine, Good, q

\* The top of several screens is closed.
LEMMA PoppedFine ==
  ASSUME NEW r, NEW b, NEW a, NEW o, Fine(r, b, a, o),
         r.screens # <<>>, r.doing = "nothing", Len(r.screens) # 1
  PROVE  Fine(Popped(r), b, a, o)
<1> DEFINE q == Popped(r)
<1>1. r \in Process /\ r.screens \in Seq(Screens)
  BY DEF Fine, Typed, Process
<1>2. q = [r EXCEPT !.screens = SubSeq(r.screens, 1, Len(r.screens) - 1)]
  BY DEF Popped
<1>3. Len(r.screens) \in Nat /\ Len(r.screens) > 1
  <2> DEFINE n == Len(r.screens)
  <2>1. n \in Nat /\ n > 0 /\ n # 1
    BY <1>1, Opened
  <2> HIDE DEF n
  <2>2. n > 1
    BY <2>1
  <2> QED
    BY <2>1, <2>2 DEF n
<1>4. SubSeq(r.screens, 1, Len(r.screens) - 1) \in Seq(Screens)
  BY <1>1, <1>3
<1>5. /\ q.screens = SubSeq(r.screens, 1, Len(r.screens) - 1) /\ q \in Process
  BY <1>1, <1>2, <1>4 DEF Process
<1>6. /\ q.doing = r.doing /\ q.next = r.next /\ q.step = r.step
      /\ q.pending = r.pending /\ q.shown = r.shown /\ q.typed = r.typed
      /\ q.found = r.found /\ q.connected = r.connected
  BY <1>1, <1>2 DEF Process
<1> HIDE DEF q
<1>7. /\ Len(q.screens) = Len(r.screens) - 1
      /\ \A n \in 1..Len(q.screens) : q.screens[n] = r.screens[n]
  BY <1>1, <1>3, <1>5
<1>8. q.screens # <<>> /\ q.screens[1] = r.screens[1]
  BY <1>3, <1>7
<1>9. \A x \in Screens : First(q, x) <=> First(r, x)
  BY <1>8 DEF First
<1>10. Typed(q)
  BY <1>3, <1>5, <1>6, <1>7, TuiAssumption DEF Typed, Fine
<1>11. Stacked(q)
  BY <1>3, <1>6, <1>7, <1>9 DEF Stacked, Fine, Good, Screens
<1>12. Worded(q, b) /\ Led(q, a, o)
  BY <1>6, <1>9 DEF Fine, Good, Worded, Led, From, Screens
<1> QED
  BY <1>10, <1>11, <1>12 DEF Fine, Good, q

\* The only screen is replaced by another one.
LEMMA ReplacedFields ==
  ASSUME NEW r \in Process, Len(r.screens) = 1, NEW s \in Screens
  PROVE  LET q == Replaced(r, s) IN
         /\ q \in Process /\ Len(q.screens) = 1
         /\ q.screens # <<>> /\ q.screens[1] = s
         /\ q.step = "choice" /\ q.next = "setup"
         /\ q.shown = None /\ q.typed = None
         /\ q.doing = r.doing /\ q.pending = r.pending /\ q.phrase = r.phrase
         /\ q.found = r.found /\ q.connected = r.connected
         /\ q.password = r.password
<1> DEFINE q == Replaced(r, s)
<1>1. r.screens \in Seq(Screens)
  BY DEF Process
<1>2. q = [r EXCEPT !.screens = [r.screens EXCEPT ![1] = s], !.step = "choice",
                    !.next = "setup", !.shown = None, !.typed = None]
  BY DEF Replaced
<1>3. /\ [r.screens EXCEPT ![1] = s] \in Seq(Screens)
      /\ Len([r.screens EXCEPT ![1] = s]) = 1
      /\ [r.screens EXCEPT ![1] = s][1] = s
      /\ [r.screens EXCEPT ![1] = s] # <<>>
  BY <1>1, Renamed
<1>4. "choice" \in Steps /\ "setup" \in Screens /\ None \in OptPhrase
  BY DEF Steps, Screens, OptPhrase
<1>5. q \in Process /\ q.screens = [r.screens EXCEPT ![1] = s]
  BY <1>2, <1>3, <1>4 DEF Process
<1>6. /\ q.step = "choice" /\ q.next = "setup"
      /\ q.shown = None /\ q.typed = None
      /\ q.doing = r.doing /\ q.pending = r.pending /\ q.phrase = r.phrase
      /\ q.found = r.found /\ q.connected = r.connected
      /\ q.password = r.password
  BY <1>2 DEF Process
<1> QED
  BY <1>3, <1>5, <1>6

-----------------------------------------------------------------------------
(* Steps                                                                   *)

\* What a step of one TUI has to show: its own record, and what it does to
\* the wallet.
LEMMA OneTui ==
  ASSUME TuiInv, NEW t \in Tuis, tui' = [tui EXCEPT ![t] = tui'[t]],
         Fine(tui'[t], backed', accounts', offline),
         offline' = offline, marker' \in BOOLEAN, accounts' \in BOOLEAN,
         accounts => accounts', backed \subseteq backed',
         backed' \subseteq Phrases, generated' \subseteq Fresh,
         seed' \in [phrase : OptPhrase, password : OptPassword],
         StoredWasBackedUp', Together'
  PROVE  TuiInv'
<1>t. TypeOK /\ tui \in [Tuis -> Process]
  BY DEF TuiInv, TypeOK
<1>1. ASSUME NEW u \in Tuis PROVE Fine(tui'[u], backed', accounts', offline')
  <2>1. CASE u = t
    BY <2>1
  <2>2. CASE u # t
    <3>1. tui'[u] = tui[u]
      BY <2>2, <1>t
    <3>2. Fine(tui[u], backed, accounts, offline)
      BY AllFine
    <3> QED
      BY <3>1, <3>2, FineLater
  <2> QED
    BY <2>1, <2>2
<1>2. \A u \in Tuis : /\ tui'[u] \in Process
                      /\ Len(tui'[u].screens) <= MaxDepth
                      /\ tui'[u].doing = "restore" => tui'[u].phrase # None
                      /\ Good(tui'[u], backed', accounts', offline')
  BY <1>1 DEF Fine, Typed
<1>3. tui' \in [Tuis -> Process]
  BY <1>2, <1>t
<1>4. TypeOK'
  BY <1>2, <1>3, <1>t DEF TypeOK
<1> QED
  BY <1>2, <1>4 DEF TuiInv

\* A step of one TUI that leaves the wallet as it is.
LEMMA OnlyTui ==
  ASSUME TuiInv, NEW t \in Tuis, tui' = [tui EXCEPT ![t] = tui'[t]],
         Fine(tui'[t], backed', accounts, offline),
         UNCHANGED <<offline, seed, marker, accounts>>,
         backed \subseteq backed', backed' \subseteq Phrases,
         generated' \subseteq Fresh
  PROVE  TuiInv'
<1>1. /\ marker \in BOOLEAN /\ accounts \in BOOLEAN
      /\ seed \in [phrase : OptPhrase, password : OptPassword]
  BY DEF TuiInv, TypeOK
<1>2. StoredWasBackedUp'
  BY DEF TuiInv, StoredWasBackedUp
<1>3. Together'
  BY DEF TuiInv, Together
<1> QED
  BY <1>1, <1>2, <1>3, OneTui

\* Keys of one TUI.
LEMMA NavigateStep ==
  ASSUME TuiInv, NEW t \in Tuis, NEW r, Navigate(t, r),
         Fine(r, backed, accounts, offline)
  PROVE  TuiInv'
<1>1. tui' = [tui EXCEPT ![t] = r] /\ tui \in [Tuis -> Process]
  BY DEF Navigate, TuiInv, TypeOK
<1>2. tui'[t] = r
  BY <1>1
<1>3. /\ UNCHANGED <<offline, seed, marker, accounts, generated, backed>>
      /\ backed \subseteq Phrases /\ generated \subseteq Fresh
  BY DEF Navigate, TuiInv, TypeOK
<1> QED
  BY <1>1, <1>2, <1>3, OnlyTui

\* A screen has its place, and only the bottom one lies over none.
LEMMA OnTop ==
  ASSUME TuiInv, NEW t \in Tuis, On(t)
  PROVE  /\ tui[t] \in Process /\ tui[t].screens \in Seq(Screens)
         /\ Len(tui[t].screens) \in Nat /\ Len(tui[t].screens) > 0
         /\ Top(t) \notin Over => /\ Len(tui[t].screens) = 1
                                  /\ First(tui[t], Top(t))
         /\ tui[t].screens # <<>>
<1>1. /\ tui[t] \in Process /\ tui[t].screens \in Seq(Screens)
      /\ tui[t].screens # <<>>
  BY DEF TuiInv, TypeOK, On, Process
<1> DEFINE n == Len(tui[t].screens)
<1>2. n \in Nat /\ n > 0
  BY <1>1, Opened
<1>3. \A m \in 2..n : tui[t].screens[m] \in Over
  BY AllFine DEF Fine, Good, Stacked
<1>4. Top(t) = tui[t].screens[n]
  BY DEF Top
<1> HIDE DEF n
<1>5. n = 1 \/ n \in 2..n
  BY <1>2
<1>6. Top(t) \notin Over => n = 1
  BY <1>3, <1>4, <1>5
<1> QED
  BY <1>1, <1>2, <1>4, <1>6 DEF First, n

LEMMA ReadyAt ==
  ASSUME TuiInv, NEW t \in Tuis, NEW s, s \notin Over, Ready(t, s)
  PROVE  /\ tui[t] \in Process /\ Len(tui[t].screens) = 1
         /\ First(tui[t], s) /\ tui[t].doing = "nothing"
         /\ tui[t].screens[1] = s /\ tui[t].screens # <<>>
BY OnTop DEF Ready, First

\* The stack of screens.
LEMMA StartStep ==
  ASSUME TuiInv, NEW t \in Tuis, StartTui(t)
  PROVE  TuiInv'
<1>1. PICK live \in BOOLEAN :
        LET exists == live /\ marker IN
        Navigate(t, [Off EXCEPT
            !.screens = <<"splash">>,
            !.next = IF exists THEN IF offline THEN "home" ELSE "greeting"
                     ELSE IF offline THEN "connect" ELSE "setup",
            !.found = accounts,
            !.connected = live])
  BY DEF StartTui
<1> DEFINE n == IF live /\ marker THEN IF offline THEN "home" ELSE "greeting"
                ELSE IF offline THEN "connect" ELSE "setup"
           q == [Off EXCEPT !.screens = <<"splash">>, !.next = n,
                            !.found = accounts, !.connected = live]
<1>2. Navigate(t, q)
  BY <1>1
<1>3. <<"splash">> \in Seq(Screens) /\ Len(<<"splash">>) = 1
  BY DEF Screens
<1>4. n \in Screens /\ accounts \in BOOLEAN
  BY DEF Screens, TuiInv, TypeOK
<1>5. /\ n \in {"setup", "greeting", "connect", "home"}
      /\ n = "home" => accounts
      /\ n = "setup" => ~offline /\ ~(accounts /\ live)
      /\ n = "connect" => offline
  BY <1>4 DEF TuiInv, Together
<1> HIDE DEF n
<1>6. Off \in Process
  BY OffFine DEF Fine, Typed
<1>7. /\ q \in Process /\ q.screens = <<"splash">> /\ q.next = n
      /\ q.found = accounts /\ q.connected = live
  BY <1>3, <1>4, <1>6 DEF Process
<1>8. q.step = "choice" /\ q.typed = None /\ q.doing = "nothing"
  BY DEF Off
<1> HIDE DEF q
<1>9. Typed(q)
  BY <1>3, <1>7, <1>8, TuiAssumption DEF Typed
<1>10. First(q, "splash") /\ \A x : First(q, x) => x = "splash"
  BY <1>7 DEF First
<1>11. Stacked(q)
  BY <1>3, <1>5, <1>7, <1>8, <1>10 DEF Stacked
<1>12. Worded(q, backed)
  BY <1>8, <1>10 DEF Worded
<1>13. Led(q, accounts, offline)
  BY <1>5, <1>7, <1>10 DEF Led, From
<1> QED
  BY <1>2, <1>9, <1>11, <1>12, <1>13, NavigateStep DEF Fine, Good

\* get_setup: the slot and the screen have the same new phrase.
LEMMA GetSetupStep ==
  ASSUME TuiInv, NEW t \in Tuis, ~offline,
         Ready(t, "splash"), tui[t].next = "setup",
         GetSetup(t, Replaced(tui[t], "setup"))
  PROVE  TuiInv'
<1> DEFINE r == Replaced(tui[t], "setup")
<1>1. /\ tui[t] \in Process /\ Len(tui[t].screens) = 1
      /\ First(tui[t], "splash") /\ tui[t].doing = "nothing"
  BY ReadyAt DEF Over
<1>2. "setup" \in Screens
  BY DEF Screens
<1>3. /\ r \in Process /\ Len(r.screens) = 1
      /\ r.screens # <<>> /\ r.screens[1] = "setup"
      /\ r.step = "choice" /\ r.next = "setup" /\ r.typed = None
      /\ r.doing = "nothing"
      /\ r.found = tui[t].found /\ r.connected = tui[t].connected
  BY <1>1, <1>2, ReplacedFields
<1>4. PICK p \in Fresh \ generated :
        /\ tui' = [tui EXCEPT ![t] = [r EXCEPT !.pending = p, !.shown = p]]
        /\ generated' = generated \cup {p}
        /\ UNCHANGED <<offline, seed, marker, accounts, backed>>
  BY DEF GetSetup
<1> HIDE DEF r
<1> DEFINE q == [r EXCEPT !.pending = p, !.shown = p]
<1>5. p \in OptPhrase
  BY DEF OptPhrase, Phrases
<1>6. /\ q \in Process /\ q.screens = r.screens /\ q.pending = p /\ q.shown = p
      /\ q.step = "choice" /\ q.next = "setup" /\ q.typed = None
      /\ q.doing = "nothing"
      /\ q.found = r.found /\ q.connected = r.connected
  BY <1>3, <1>5 DEF Process
<1>7. tui' = [tui EXCEPT ![t] = q] /\ tui'[t] = q
  BY <1>4 DEF TuiInv, TypeOK
<1> HIDE DEF q
<1>z. First(q, "setup") /\ \A x : First(q, x) => x = "setup"
  BY <1>3, <1>6 DEF First
<1>l. Len(q.screens) = 1
  BY <1>3, <1>6
<1>s. Typed(q)
  BY <1>l, <1>6, TuiAssumption DEF Typed
<1>w. Stacked(q)
  BY <1>3, <1>6, <1>z DEF Stacked
<1>8. Worded(q, backed)
  BY <1>6, <1>z DEF Worded
<1>9. ~(tui[t].found /\ tui[t].connected)
  BY <1>1, AllFine DEF Fine, Good, Led, From
<1>10. Led(q, accounts, offline)
  BY <1>3, <1>6, <1>9 DEF Led, From, First
<1>11. Fine(q, backed, accounts, offline)
  BY <1>s, <1>w, <1>8, <1>10 DEF Fine, Good
<1>12. backed \subseteq Phrases /\ generated \subseteq Fresh
  BY DEF TuiInv, TypeOK
<1> QED
  BY <1>4, <1>7, <1>11, <1>12, OnlyTui

LEMMA SplashEndsStep ==
  ASSUME TuiInv, NEW t \in Tuis, SplashEnds(t)
  PROVE  TuiInv'
<1> DEFINE n == tui[t].next
           q == Replaced(tui[t], n)
<1>1. /\ tui[t] \in Process /\ Len(tui[t].screens) = 1
      /\ First(tui[t], "splash") /\ tui[t].doing = "nothing"
      /\ Ready(t, "splash")
  BY ReadyAt DEF Over, SplashEnds
<1>2. n \in Screens /\ n \in {"setup", "greeting", "connect", "home"}
  BY <1>1, AllFine DEF Fine, Good, Stacked, Screens
<1>3. /\ n = "home" => accounts
      /\ n = "setup" => ~offline
      /\ n = "connect" => offline
  BY <1>1, AllFine DEF Fine, Good, Led, From
<1>4. CASE n = "setup"
  <2>1. GetSetup(t, Replaced(tui[t], "setup"))
    BY <1>4 DEF SplashEnds
  <2> QED
    BY <1>1, <1>3, <1>4, <2>1, GetSetupStep
<1>5. CASE n # "setup"
  <2>1. Navigate(t, q)
    BY <1>5 DEF SplashEnds
  <2>2. /\ q \in Process /\ Len(q.screens) = 1
        /\ q.screens # <<>> /\ q.screens[1] = n /\ q.next = "setup"
        /\ q.step = "choice" /\ q.typed = None /\ q.doing = "nothing"
        /\ q.found = tui[t].found /\ q.connected = tui[t].connected
    BY <1>1, <1>2, ReplacedFields
  <2> HIDE DEF q
  <2>3. \A x : First(q, x) <=> x = n
    BY <2>2 DEF First
  <2>4. Typed(q) /\ Stacked(q)
    BY <1>2, <2>2, <2>3, TuiAssumption DEF Typed, Stacked
  <2>5. Worded(q, backed)
    BY <1>5, <2>2, <2>3 DEF Worded
  <2>6. Led(q, accounts, offline)
    BY <1>2, <1>3, <1>5, <2>3 DEF Led, From
  <2> QED
    BY <2>1, <2>4, <2>5, <2>6, NavigateStep DEF Fine, Good
<1> QED
  BY <1>4, <1>5

LEMMA StackSteps ==
  ASSUME TuiInv, NEW t \in Tuis,
         \/ OpenHelp(t) \/ Back(t) \/ Quit(t)
         \/ \E s \in Screens : Open(t, s)
  PROVE  TuiInv'
<1>f. Fine(tui[t], backed, accounts, offline) /\ On(t)
  BY AllFine DEF OpenHelp, Back, Quit, Open, Ready
<1>o. /\ tui[t].screens # <<>>
      /\ Len(tui[t].screens) \in Nat /\ Len(tui[t].screens) > 0
  BY <1>f, OnTop
<1>1. ASSUME NEW s \in Over, tui[t].doing = "nothing",
             Len(tui[t].screens) < MaxDepth, Navigate(t, Pushed(tui[t], s))
      PROVE  TuiInv'
  <2>1. Fine(Pushed(tui[t], s), backed, accounts, offline)
    BY <1>1, <1>f, <1>o, PushedFine
  <2> QED
    BY <1>1, <2>1, NavigateStep
<1>2. CASE OpenHelp(t)
  BY <1>1, <1>2 DEF OpenHelp, Over
<1>3. ASSUME NEW s \in Screens, Open(t, s) PROVE TuiInv'
  BY <1>1, <1>3 DEF Open, Ready, OpensHome, OpensAssets, Over
<1>4. CASE Quit(t)
  BY <1>4, OffFine, NavigateStep DEF Quit
<1>5. CASE Back(t)
  <2>1. CASE Len(tui[t].screens) = 1
    BY <1>5, <2>1, OffFine, NavigateStep DEF Back
  <2>2. CASE Len(tui[t].screens) # 1
    <3>1. Fine(Popped(tui[t]), backed, accounts, offline)
      BY <1>5, <1>f, <1>o, <2>2, PoppedFine DEF Back
    <3> QED
      BY <1>5, <2>2, <3>1, NavigateStep DEF Back
  <2> QED
    BY <2>1, <2>2
<1> QED
  BY <1>2, <1>3, <1>4, <1>5

LEMMA LeaveSetupStep ==
  ASSUME TuiInv, NEW t \in Tuis, NEW s \in Screens, LeaveSetup(t, s)
  PROVE  TuiInv'
<1> DEFINE q == Replaced(tui[t], s)
<1>1. /\ tui[t] \in Process /\ Len(tui[t].screens) = 1
      /\ tui[t].doing = "nothing" /\ s \in {"assets", "demo"}
  BY ReadyAt DEF Over, LeaveSetup
<1>2. Navigate(t, q)
  BY DEF LeaveSetup
<1>3. /\ q \in Process /\ Len(q.screens) = 1
      /\ q.screens # <<>> /\ q.screens[1] = s /\ q.next = "setup"
      /\ q.step = "choice" /\ q.typed = None /\ q.doing = "nothing"
  BY <1>1, ReplacedFields
<1> HIDE DEF q
<1>4. \A x : First(q, x) <=> x = s
  BY <1>3 DEF First
<1>5. Typed(q) /\ Stacked(q)
  BY <1>1, <1>3, <1>4, TuiAssumption DEF Typed, Stacked
<1>6. Worded(q, backed) /\ Led(q, accounts, offline)
  BY <1>1, <1>3, <1>4 DEF Worded, Led, From
<1> QED
  BY <1>2, <1>5, <1>6, NavigateStep DEF Fine, Good

-----------------------------------------------------------------------------
(* Set-up                                                                  *)

\* What a step on the screen itself leaves alone; a connection can be lost.
SameStack(q, r) == /\ q.screens = r.screens /\ q.next = r.next
                   /\ q.found = r.found
                   /\ q.connected => r.connected

LEMMA SameLed ==
  ASSUME NEW r, NEW q, NEW a, NEW o, Led(r, a, o), SameStack(q, r)
  PROVE  Led(q, a, o)
BY DEF Led, From, First, SameStack

LEMMA StepStep ==
  ASSUME TuiInv, NEW t \in Tuis, Step(t)
  PROVE  TuiInv'
<1> DEFINE r == tui[t]
<1>1. r \in Process /\ r.doing = "nothing" /\ Fine(r, backed, accounts, offline)
  BY ReadyAt, AllFine DEF Over, Step
<1>2. PICK s \in Steps : /\ <<r.step, s>> \in Moves
                         /\ Navigate(t, [r EXCEPT !.step = s])
  BY DEF Step
<1> DEFINE q == [r EXCEPT !.step = s]
<1>3. /\ q \in Process /\ q.step = s /\ q.doing = "nothing"
      /\ q.typed = r.typed /\ q.shown = r.shown /\ q.pending = r.pending
      /\ SameStack(q, r)
  BY <1>1 DEF Process, SameStack
<1>4. s \notin {"setpassword", "creating", "importpassword"}
  BY <1>2 DEF Moves
<1> HIDE DEF q
<1>5. Typed(q) /\ Stacked(q)
  BY <1>1, <1>3 DEF Fine, Good, Typed, Stacked, First, SameStack
<1>6. Worded(q, backed)
  BY <1>1, <1>3, <1>4 DEF Fine, Good, Worded, First, SameStack
<1>7. Led(q, accounts, offline)
  BY <1>1, <1>3, SameLed DEF Fine, Good
<1>8. Navigate(t, q)
  BY <1>2 DEF q
<1> QED
  BY <1>5, <1>6, <1>7, <1>8, NavigateStep DEF Fine, Good

\* The words on the screen are entered, or others in the grid.
LEMMA VerifyWordsStep ==
  ASSUME TuiInv, NEW t \in Tuis, VerifyWords(t)
  PROVE  TuiInv'
<1> DEFINE r == tui[t]
           q == [r EXCEPT !.step = "setpassword"]
           b == backed \cup {r.shown}
<1>1. r \in Process /\ r.doing = "nothing" /\ Fine(r, backed, accounts, offline)
  BY ReadyAt, AllFine DEF Over, VerifyWords
<1>2. /\ tui' = [tui EXCEPT ![t].step = "setpassword"] /\ r.shown # None
      /\ backed' = b
      /\ UNCHANGED <<offline, seed, marker, accounts, generated>>
  BY DEF VerifyWords
<1>3. tui' = [tui EXCEPT ![t] = q] /\ tui'[t] = q
  BY <1>2 DEF TuiInv, TypeOK
<1>4. /\ q \in Process /\ q.step = "setpassword" /\ q.doing = "nothing"
      /\ q.typed = r.typed /\ q.shown = r.shown /\ q.pending = r.pending
      /\ SameStack(q, r)
  BY <1>1 DEF Process, Steps, SameStack
<1> HIDE DEF q
<1>5. Typed(q) /\ Stacked(q)
  BY <1>1, <1>4 DEF Fine, Good, Typed, Stacked, First, SameStack
<1>6. Worded(q, b)
  BY <1>1, <1>4 DEF Fine, Good, Worded, First, SameStack
<1>7. Led(q, accounts, offline)
  BY <1>1, <1>4, SameLed DEF Fine, Good
<1>8. b \subseteq Phrases /\ generated \subseteq Fresh
  BY <1>1, <1>2 DEF TuiInv, TypeOK, Process, OptPhrase
<1> QED
  BY <1>2, <1>3, <1>5, <1>6, <1>7, <1>8, OnlyTui DEF Fine, Good

LEMMA FillPhraseStep ==
  ASSUME TuiInv, NEW t \in Tuis, FillPhrase(t)
  PROVE  TuiInv'
<1> DEFINE r == tui[t]
<1>1. r \in Process /\ r.doing = "nothing" /\ Fine(r, backed, accounts, offline)
  BY ReadyAt, AllFine DEF Over, FillPhrase
<1>2. PICK p \in Written \cup backed :
        tui' = [tui EXCEPT ![t].typed = p] /\ backed' = backed \cup {p}
  BY DEF FillPhrase
<1>3. /\ r.step = "import"
      /\ UNCHANGED <<offline, seed, marker, accounts, generated>>
      /\ backed \subseteq Phrases /\ p \in Phrases
  BY DEF FillPhrase, TuiInv, TypeOK, Phrases
<1> DEFINE q == [r EXCEPT !.typed = p]
           b == backed \cup {p}
<1>4. tui' = [tui EXCEPT ![t] = q] /\ tui'[t] = q
  BY <1>2 DEF TuiInv, TypeOK
<1>5. /\ q \in Process /\ q.step = "import" /\ q.doing = "nothing"
      /\ q.typed = p /\ q.shown = r.shown /\ q.pending = r.pending
      /\ SameStack(q, r)
  BY <1>1, <1>3 DEF Process, OptPhrase, SameStack
<1> HIDE DEF q
<1>6. Typed(q) /\ Stacked(q)
  BY <1>1, <1>5 DEF Fine, Good, Typed, Stacked, First, SameStack
<1>7. Worded(q, b)
  BY <1>1, <1>5 DEF Fine, Good, Worded, First, SameStack
<1>8. Led(q, accounts, offline)
  BY <1>1, <1>5, SameLed DEF Fine, Good
<1>9. generated \subseteq Fresh
  BY DEF TuiInv, TypeOK
<1> QED
  BY <1>2, <1>3, <1>4, <1>6, <1>7, <1>8, <1>9, OnlyTui DEF Fine, Good

LEMMA EnterPhraseStep ==
  ASSUME TuiInv, NEW t \in Tuis, EnterPhrase(t)
  PROVE  TuiInv'
<1> DEFINE r == tui[t]
           q == [r EXCEPT !.step = "importpassword"]
<1>1. /\ r \in Process /\ r.doing = "nothing" /\ r.typed # None
      /\ Fine(r, backed, accounts, offline) /\ Navigate(t, q)
  BY ReadyAt, AllFine DEF Over, EnterPhrase
<1>2. /\ q \in Process /\ q.step = "importpassword" /\ q.doing = "nothing"
      /\ q.typed = r.typed /\ q.shown = r.shown /\ q.pending = r.pending
      /\ SameStack(q, r)
  BY <1>1 DEF Process, Steps, SameStack
<1> HIDE DEF q
<1>3. Typed(q) /\ Stacked(q)
  BY <1>1, <1>2 DEF Fine, Good, Typed, Stacked, First, SameStack
<1>4. Worded(q, backed)
  BY <1>1, <1>2 DEF Fine, Good, Worded, First, SameStack
<1>5. Led(q, accounts, offline)
  BY <1>1, <1>2, SameLed DEF Fine, Good
<1> QED
  BY <1>1, <1>3, <1>4, <1>5, NavigateStep DEF Fine, Good

\* A request starts on the bottom screen; what a restore takes with it was
\* entered by a person.
LEMMA AskFine ==
  ASSUME NEW r, NEW b, NEW a, NEW o, Fine(r, b, a, o), Len(r.screens) = 1,
         NEW q \in Process, SameStack(q, r),
         q.typed = r.typed, q.shown = r.shown,
         q.step \in {r.step, "creating"},
         q.step = "creating" => r.step \in {"setpassword", "creating"},
         q.pending \in {None, r.pending},
         q.doing = "restore" => /\ q.phrase \in b /\ q.phrase # None
                                /\ First(r, "setup"),
         q.doing = "register" => First(r, "connect")
  PROVE  Fine(q, b, a, o)
<1>1. \A x : First(q, x) <=> First(r, x)
  BY DEF First, SameStack
<1>2. Typed(q)
  BY DEF Fine, Typed, SameStack
<1>3. Stacked(q)
  BY <1>1 DEF Fine, Good, Stacked, SameStack
<1>4. Worded(q, b)
  BY <1>1 DEF Fine, Good, Worded
<1>5. Led(q, a, o)
  BY SameLed DEF Fine, Good
<1> QED
  BY <1>2, <1>3, <1>4, <1>5 DEF Fine, Good

LEMMA SubmitCreateStep ==
  ASSUME TuiInv, NEW t \in Tuis, SubmitCreate(t)
  PROVE  TuiInv'
<1> DEFINE r == tui[t]
<1>1. /\ r \in Process /\ Len(r.screens) = 1 /\ First(r, "setup")
      /\ Fine(r, backed, accounts, offline)
      /\ r.step = "setpassword" /\ r.pending # None
  BY ReadyAt, AllFine DEF Over, SubmitCreate, Submitted
<1>2. PICK w \in Passwords :
        Navigate(t, [r EXCEPT !.step = "creating", !.pending = None,
                              !.doing = "restore", !.phrase = r.pending,
                              !.password = w])
  BY DEF SubmitCreate, Submitted
<1> DEFINE q == [r EXCEPT !.step = "creating", !.pending = None,
                          !.doing = "restore", !.phrase = r.pending,
                          !.password = w]
<1>3. /\ q \in Process /\ SameStack(q, r)
      /\ q.typed = r.typed /\ q.shown = r.shown /\ q.step = "creating"
      /\ q.pending = None /\ q.doing = "restore" /\ q.phrase = r.pending
  BY <1>1 DEF Process, OptPhrase, OptPassword, Steps, SameStack
<1>4. r.pending \in backed
  BY <1>1 DEF Fine, Good, Worded
<1>5. Navigate(t, q)
  BY <1>2
<1> HIDE DEF q
<1>6. Fine(q, backed, accounts, offline)
  BY <1>1, <1>3, <1>4, AskFine
<1> QED
  BY <1>5, <1>6, NavigateStep

LEMMA SubmitImportStep ==
  ASSUME TuiInv, NEW t \in Tuis, SubmitImport(t)
  PROVE  TuiInv'
<1> DEFINE r == tui[t]
<1>1. /\ r \in Process /\ Len(r.screens) = 1 /\ First(r, "setup")
      /\ Fine(r, backed, accounts, offline) /\ r.step = "importpassword"
  BY ReadyAt, AllFine DEF Over, SubmitImport, Submitted
<1>2. PICK w \in Passwords :
        Navigate(t, [r EXCEPT !.doing = "restore", !.phrase = r.typed,
                              !.password = w])
  BY DEF SubmitImport, Submitted
<1> DEFINE q == [r EXCEPT !.doing = "restore", !.phrase = r.typed,
                          !.password = w]
<1>3. /\ q \in Process /\ SameStack(q, r)
      /\ q.typed = r.typed /\ q.shown = r.shown /\ q.step = r.step
      /\ q.pending = r.pending /\ q.doing = "restore" /\ q.phrase = r.typed
  BY <1>1 DEF Process, OptPhrase, OptPassword, SameStack
<1>4. r.typed \in backed /\ r.typed # None
  BY <1>1 DEF Fine, Good, Worded
<1>5. Navigate(t, q)
  BY <1>2
<1> HIDE DEF q
<1>6. Fine(q, backed, accounts, offline)
  BY <1>1, <1>3, <1>4, AskFine
<1> QED
  BY <1>5, <1>6, NavigateStep

LEMMA SubmitSteps ==
  ASSUME TuiInv, NEW t \in Tuis, SubmitUnlock(t) \/ SubmitConnect(t)
  PROVE  TuiInv'
<1> DEFINE r == tui[t]
<1>1. /\ r \in Process /\ Len(r.screens) = 1
      /\ Fine(r, backed, accounts, offline)
  BY ReadyAt, AllFine DEF Over, SubmitUnlock, SubmitConnect
<1>2. ASSUME SubmitUnlock(t) PROVE TuiInv'
  <2>1. PICK w \in Passwords :
          Navigate(t, [r EXCEPT !.doing = "unlock", !.password = w])
    BY <1>2 DEF SubmitUnlock
  <2> DEFINE q == [r EXCEPT !.doing = "unlock", !.password = w]
  <2>2. /\ q \in Process /\ SameStack(q, r)
        /\ q.typed = r.typed /\ q.shown = r.shown /\ q.step = r.step
        /\ q.pending = r.pending /\ q.doing = "unlock"
    BY <1>1 DEF Process, OptPassword, SameStack
  <2>3. Navigate(t, q)
    BY <2>1
  <2> HIDE DEF q
  <2>4. Fine(q, backed, accounts, offline)
    BY <1>1, <2>2, AskFine DEF Fine, Good, Worded
  <2> QED
    BY <2>3, <2>4, NavigateStep
<1>3. ASSUME SubmitConnect(t) PROVE TuiInv'
  <2> DEFINE q == [r EXCEPT !.doing = "register"]
  <2>1. Navigate(t, q) /\ First(r, "connect")
    BY <1>3, ReadyAt DEF SubmitConnect, Over
  <2>2. /\ q \in Process /\ SameStack(q, r)
        /\ q.typed = r.typed /\ q.shown = r.shown /\ q.step = r.step
        /\ q.pending = r.pending /\ q.doing = "register"
    BY <1>1 DEF Process, SameStack
  <2> HIDE DEF q
  <2>3. Fine(q, backed, accounts, offline)
    BY <1>1, <2>1, <2>2, AskFine DEF Fine, Good, Worded
  <2> QED
    BY <2>1, <2>3, NavigateStep
<1> QED
  BY <1>2, <1>3

-----------------------------------------------------------------------------
(* Requests                                                                *)

\* An error: the request is over, on the screen that made it.
LEMMA FailedFine ==
  ASSUME TuiInv, NEW t \in Tuis, tui[t].doing # "nothing",
         NEW c \in BOOLEAN, c => tui[t].connected
  PROVE  Fine(Failed(t, c), backed, accounts, offline)
<1> DEFINE r == tui[t]
           q == Failed(t, c)
<1>1. r \in Process /\ Fine(r, backed, accounts, offline) /\ Len(r.screens) = 1
  BY AllFine DEF Fine, Good, Stacked, Typed
<1>2. q = [r EXCEPT !.doing = "nothing", !.phrase = None, !.password = None,
                    !.step = IF r.step = "creating" THEN "setpassword" ELSE r.step,
                    !.connected = c]
  BY DEF Failed
<1> DEFINE s == IF r.step = "creating" THEN "setpassword" ELSE r.step
<1>3. s \in Steps
  BY <1>1 DEF Process, Steps
<1>4. q = [r EXCEPT !.doing = "nothing", !.phrase = None, !.password = None,
                    !.step = s, !.connected = c]
  BY <1>2
<1>5. /\ s = "importpassword" => r.step = "importpassword"
      /\ s \in {"setpassword", "creating"} => r.step \in {"setpassword", "creating"}
  OBVIOUS
<1> HIDE DEF s
<1>6. /\ q \in Process /\ SameStack(q, r)
      /\ q.typed = r.typed /\ q.shown = r.shown /\ q.step = s
      /\ q.pending = r.pending /\ q.doing = "nothing"
  BY <1>1, <1>3, <1>4 DEF Process, OptPhrase, OptPassword, SameStack
<1> HIDE DEF q
<1>7. \A x : First(q, x) <=> First(r, x)
  BY <1>6 DEF First, SameStack
<1>8. Typed(q) /\ Stacked(q)
  BY <1>1, <1>6, <1>7 DEF Fine, Good, Typed, Stacked, SameStack
<1>9. Worded(q, backed)
  BY <1>1, <1>5, <1>6, <1>7 DEF Fine, Good, Worded
<1>10. Led(q, accounts, offline)
  BY <1>1, <1>6, SameLed DEF Fine, Good
<1> QED
  BY <1>8, <1>9, <1>10 DEF Fine, Good, q

LEMMA RefusedFine ==
  ASSUME TuiInv, NEW t \in Tuis, tui[t].doing # "nothing",
         Refused(t) \/ Unanswered(t)
  PROVE  /\ tui' = [tui EXCEPT ![t] = tui'[t]]
         /\ Fine(tui'[t], backed, accounts, offline)
<1>1. PICK c \in BOOLEAN : /\ c => tui[t].connected
                           /\ tui' = [tui EXCEPT ![t] = Failed(t, c)]
  BY DEF Refused, Unanswered
<1>2. tui'[t] = Failed(t, c)
  BY <1>1 DEF TuiInv, TypeOK
<1> QED
  BY <1>1, <1>2, FailedFine

\* The home screen of a wallet with accounts.
LEMMA HomeFine ==
  ASSUME TuiInv, NEW t \in Tuis, tui[t].doing # "nothing", GoHome(t)
  PROVE  /\ tui' = [tui EXCEPT ![t] = tui'[t]]
         /\ Fine(tui'[t], backed, TRUE, offline)
<1> DEFINE r == tui[t]
           h == Replaced(r, "home")
           q == [h EXCEPT !.doing = "nothing", !.phrase = None,
                          !.password = None]
<1>1. r \in Process /\ Fine(r, backed, accounts, offline) /\ Len(r.screens) = 1
  BY AllFine DEF Fine, Good, Stacked, Typed
<1>2. tui' = [tui EXCEPT ![t] = q] /\ tui'[t] = q
  BY DEF GoHome, TuiInv, TypeOK
<1>3. "home" \in Screens
  BY DEF Screens
<1>4. /\ h \in Process /\ Len(h.screens) = 1
      /\ h.screens # <<>> /\ h.screens[1] = "home"
      /\ h.step = "choice" /\ h.next = "setup" /\ h.typed = None
  BY <1>1, <1>3, ReplacedFields
<1> HIDE DEF h
<1>5. /\ q \in Process /\ q.screens = h.screens /\ q.step = "choice"
      /\ q.typed = None /\ q.doing = "nothing"
  BY <1>4 DEF Process, OptPhrase, OptPassword
<1> HIDE DEF q
<1>6. \A x : First(q, x) <=> x = "home"
  BY <1>4, <1>5 DEF First
<1>l. Len(q.screens) = 1
  BY <1>4, <1>5
<1>7. Typed(q)
  BY <1>l, <1>5, TuiAssumption DEF Typed
<1>8. Stacked(q)
  BY <1>4, <1>5, <1>6 DEF Stacked
<1>9. Worded(q, backed) /\ Led(q, TRUE, offline)
  BY <1>5, <1>6 DEF Worded, Led, From
<1> QED
  BY <1>2, <1>7, <1>8, <1>9 DEF Fine, Good

\* keypunkd stores what was entered; the marker may be set before the
\* accounts are there, but not with the offline signer.
LEMMA RestoreSeedStep ==
  ASSUME TuiInv, NEW t \in Tuis, RestoreSeed(t)
  PROVE  TuiInv'
<1> DEFINE r == tui[t]
<1>1. /\ r \in Process /\ Fine(r, backed, accounts, offline)
      /\ r.doing = "restore" /\ Len(r.screens) = 1 /\ First(r, "setup")
      /\ r.phrase \in backed /\ ~offline
  BY AllFine DEF RestoreSeed, Fine, Good, Stacked, Worded, Led, From, Typed
<1>2. /\ UNCHANGED <<offline, accounts, generated, backed>>
      /\ backed \subseteq Phrases /\ generated \subseteq Fresh
      /\ marker \in BOOLEAN /\ accounts \in BOOLEAN
  BY DEF RestoreSeed, TuiInv, TypeOK
<1>3. /\ seed' \in {seed, [phrase |-> r.phrase, password |-> r.password]}
      /\ marker' = marker \/ marker' = TRUE
  BY DEF RestoreSeed
<1>4. seed' \in [phrase : OptPhrase, password : OptPassword]
  BY <1>1, <1>3 DEF TuiInv, TypeOK, Process
<1>5. StoredWasBackedUp'
  BY <1>1, <1>2, <1>3 DEF StoredWasBackedUp, TuiInv
<1>6. Together'
  BY <1>1, <1>2, <1>3 DEF Together, TuiInv
<1>7. /\ tui' = [tui EXCEPT ![t] = tui'[t]]
      /\ Fine(tui'[t], backed, accounts, offline)
  <2>1. CASE Refused(t) \/ Unanswered(t)
    BY <1>1, <2>1, RefusedFine
  <2>2. CASE tui' = [tui EXCEPT ![t].doing = "unlock"]
    <3> DEFINE q == [r EXCEPT !.doing = "unlock"]
    <3>1. tui' = [tui EXCEPT ![t] = q] /\ tui'[t] = q
      BY <2>2 DEF TuiInv, TypeOK
    <3>2. /\ q \in Process /\ SameStack(q, r)
          /\ q.typed = r.typed /\ q.shown = r.shown /\ q.step = r.step
          /\ q.pending = r.pending /\ q.doing = "unlock"
      BY <1>1 DEF Process, SameStack
    <3> HIDE DEF q
    <3>3. Fine(q, backed, accounts, offline)
      BY <1>1, <3>2, AskFine
    <3> QED
      BY <3>1, <3>3
  <2> QED
    BY <2>1, <2>2 DEF RestoreSeed
<1> QED
  BY <1>2, <1>3, <1>4, <1>5, <1>6, <1>7, OneTui

\* unlock and register_signer make the accounts, and the marker.
LEMMA AccountSteps ==
  ASSUME TuiInv, NEW t \in Tuis, Unlock(t) \/ Register(t)
  PROVE  TuiInv'
<1>1. /\ Fine(tui[t], backed, accounts, offline)
      /\ tui[t].doing # "nothing" /\ (tui[t].doing = "register" => offline)
  BY AllFine DEF Unlock, Register, Fine, Good, Stacked, Led, From
<1>2. /\ UNCHANGED <<offline, seed, generated, backed>>
      /\ backed \subseteq Phrases /\ generated \subseteq Fresh
      /\ seed \in [phrase : OptPhrase, password : OptPassword]
      /\ marker \in BOOLEAN /\ accounts \in BOOLEAN
  BY DEF Unlock, Register, TuiInv, TypeOK
<1>3. StoredWasBackedUp'
  BY <1>2 DEF StoredWasBackedUp, TuiInv
<1>4. CASE /\ Refused(t) /\ marker' = marker
           /\ accounts' = accounts \/ (accounts' \in BOOLEAN /\ offline /\ (accounts => accounts'))
  <2>1. /\ tui' = [tui EXCEPT ![t] = tui'[t]]
        /\ Fine(tui'[t], backed, accounts, offline)
    BY <1>1, <1>4, RefusedFine
  <2>2. accounts' \in BOOLEAN /\ (accounts => accounts')
    BY <1>2, <1>4
  <2>3. Fine(tui'[t], backed, accounts', offline)
    BY <2>1, <2>2, FineLater
  <2>4. Together'
    BY <1>2, <1>4 DEF Together, TuiInv
  <2> QED
    BY <1>2, <1>3, <1>4, <2>1, <2>2, <2>3, <2>4, OneTui
<1>5. CASE marker' = TRUE /\ accounts' = TRUE /\ (GoHome(t) \/ Unanswered(t))
  <2>1. /\ tui' = [tui EXCEPT ![t] = tui'[t]]
        /\ \/ Fine(tui'[t], backed, accounts, offline)
           \/ Fine(tui'[t], backed, TRUE, offline)
    BY <1>1, <1>5, RefusedFine, HomeFine
  <2>2. Fine(tui'[t], backed, accounts', offline)
    BY <1>5, <2>1, FineLater
  <2>3. Together'
    BY <1>5 DEF Together
  <2> QED
    BY <1>2, <1>3, <1>5, <2>1, <2>2, <2>3, OneTui
<1>6. CASE Unlock(t)
  BY <1>4, <1>5, <1>6 DEF Unlock
<1>7. CASE Register(t)
  <2>1. offline
    BY <1>1, <1>7 DEF Register
  <2>2. tui[t].connected \in BOOLEAN
    BY DEF TuiInv, TypeOK, Process
  <2> QED
    BY <1>2, <1>4, <1>5, <1>7, <2>1, <2>2 DEF Register
<1> QED
  BY <1>6, <1>7

\* Every connection is lost.
LEMMA RestartDaemonsStep ==
  ASSUME TuiInv, RestartDaemons
  PROVE  TuiInv'
<1>1. ASSUME NEW t \in Tuis PROVE Fine(tui'[t], backed, accounts, offline)
  <2> DEFINE r == tui[t]
             q == [r EXCEPT !.connected = FALSE]
  <2>1. r \in Process /\ Fine(r, backed, accounts, offline) /\ tui'[t] = q
    BY AllFine DEF RestartDaemons, Fine, Typed
  <2>2. /\ q \in Process /\ SameStack(q, r)
        /\ q.typed = r.typed /\ q.shown = r.shown /\ q.step = r.step
        /\ q.pending = r.pending /\ q.doing = r.doing /\ q.phrase = r.phrase
    BY <2>1 DEF Process, SameStack
  <2> HIDE DEF q
  <2>3. \A x : First(q, x) <=> First(r, x)
    BY <2>2 DEF First, SameStack
  <2>4. Typed(q) /\ Stacked(q)
    BY <2>1, <2>2, <2>3 DEF Fine, Good, Typed, Stacked, SameStack
  <2>5. Worded(q, backed)
    BY <2>1, <2>2, <2>3 DEF Fine, Good, Worded
  <2>6. Led(q, accounts, offline)
    BY <2>1, <2>2, SameLed DEF Fine, Good
  <2> QED
    BY <2>1, <2>4, <2>5, <2>6 DEF Fine, Good
<1>2. UNCHANGED <<offline, seed, marker, accounts, generated, backed>>
  BY DEF RestartDaemons
<1>3. tui' \in [Tuis -> Process]
  <2>1. tui' = [t \in Tuis |-> [tui[t] EXCEPT !.connected = FALSE]]
    BY DEF RestartDaemons
  <2> HIDE DEF Process
  <2> QED
    BY <1>1, <2>1 DEF Fine, Typed
<1>4. TypeOK'
  BY <1>1, <1>2, <1>3 DEF TuiInv, TypeOK, Fine, Typed
<1> QED
  BY <1>1, <1>2, <1>4 DEF TuiInv, Fine, Together, StoredWasBackedUp

LEMMA TuiInit == Init => TuiInv
<1> SUFFICES ASSUME Init PROVE TuiInv
  OBVIOUS
<1>1. \A t \in Tuis : tui[t] = Off
  BY DEF Init
<1>2. \A t \in Tuis : Fine(tui[t], backed, accounts, offline)
  BY <1>1, OffFine
<1>3. tui \in [Tuis -> Process]
  BY OffFine DEF Init, Fine, Typed
<1>4. NoSeed \in [phrase : OptPhrase, password : OptPassword]
  BY DEF NoSeed, OptPhrase, OptPassword
<1>5. TypeOK
  BY <1>2, <1>3, <1>4 DEF Init, TypeOK, Fine, Typed
<1> QED
  BY <1>2, <1>5 DEF Init, TuiInv, Fine, Together, StoredWasBackedUp, NoSeed

LEMMA TuiStep == TuiInv /\ [Next]_vars => TuiInv'
<1> SUFFICES ASSUME TuiInv, [Next]_vars PROVE TuiInv'
  OBVIOUS
<1>1. CASE UNCHANGED vars
  BY <1>1 DEF vars, TuiInv, TypeOK, Together, StoredWasBackedUp
<1>2. CASE RestartDaemons
  BY <1>2, RestartDaemonsStep
<1>3. ASSUME NEW t \in Tuis,
             \/ StartTui(t) \/ SplashEnds(t) \/ OpenHelp(t) \/ Back(t) \/ Quit(t)
             \/ Step(t) \/ VerifyWords(t) \/ FillPhrase(t) \/ EnterPhrase(t)
             \/ SubmitCreate(t) \/ SubmitImport(t)
             \/ SubmitUnlock(t) \/ SubmitConnect(t)
             \/ RestoreSeed(t) \/ Unlock(t) \/ Register(t)
             \/ \E s \in Screens : Open(t, s)
             \/ \E s \in Screens : LeaveSetup(t, s)
      PROVE  TuiInv'
  BY <1>3, StartStep, SplashEndsStep, StackSteps, LeaveSetupStep, StepStep,
     VerifyWordsStep, FillPhraseStep, EnterPhraseStep, SubmitCreateStep,
     SubmitImportStep, SubmitSteps, RestoreSeedStep, AccountSteps
<1> QED
  BY <1>1, <1>2, <1>3 DEF Next

-----------------------------------------------------------------------------
(* Theorems                                                                *)

\* Every variable stays in its set.
THEOREM TuiTypeCorrect == Spec => []TypeOK
<1>1. TuiInv => TypeOK
  BY DEF TuiInv
<1> QED
  BY TuiInit, TuiStep, <1>1, PTL DEF Spec

\* What keypunkd stores is a phrase whose words a person entered, whatever is
\* opened over the set-up screen and whatever fails.
THEOREM TuiStoredWasBackedUp == Spec => []StoredWasBackedUp
<1>1. TuiInv => StoredWasBackedUp
  BY DEF TuiInv
<1> QED
  BY TuiInit, TuiStep, <1>1, PTL DEF Spec

\* The home screen is never that of a wallet without accounts.
THEOREM TuiHomeHasAccounts == Spec => []HomeHasAccounts
<1>1. TuiInv => HomeHasAccounts
  <2> SUFFICES ASSUME TuiInv, NEW t \in Tuis,
                      NEW n \in 1..Len(tui[t].screens),
                      tui[t].screens[n] = "home"
               PROVE  accounts
    BY DEF HomeHasAccounts
  <2>1. Good(tui[t], backed, accounts, offline) /\ tui[t].screens \in Seq(Screens)
    BY DEF TuiInv, TypeOK, Process
  <2>2. Len(tui[t].screens) \in Nat
    BY <2>1
  <2>3. n = 1
    BY <2>1, <2>2 DEF Good, Stacked, Over
  <2>4. tui[t].screens # <<>>
    BY <2>2, <2>3, EmptySeq
  <2> QED
    BY <2>1, <2>3, <2>4 DEF Good, Led, From, First
<1> QED
  BY TuiInit, TuiStep, <1>1, PTL DEF Spec

\* A TUI that saw accounts when it started replaces no seed.
THEOREM TuiSetupReplacesNoWallet == Spec => SetupReplacesNoWallet
<1>1. TuiInv /\ [Next]_vars =>
        [\A t \in Tuis : seed' # seed /\ tui'[t] # tui[t] => ~tui[t].found]_vars
  <2> SUFFICES ASSUME TuiInv, Next, NEW t \in Tuis, seed' # seed, tui'[t] # tui[t]
               PROVE  ~tui[t].found
    OBVIOUS
  <2>1. PICK u \in Tuis : RestoreSeed(u)
    BY DEF Next, StartTui, SplashEnds, OpenHelp, Back, Quit, Step, VerifyWords,
           FillPhrase, EnterPhrase, SubmitCreate, Submitted, SubmitImport, SubmitUnlock,
           SubmitConnect, Unlock, Register, Open, LeaveSetup, RestartDaemons,
           Navigate, GetSetup
  <2>2. tui[u].connected /\ tui[u].doing = "restore"
    BY <2>1 DEF RestoreSeed
  <2>3. \E q : tui' = [tui EXCEPT ![u] = q]
    BY <2>1 DEF RestoreSeed, Refused, Unanswered
  <2>4. u = t
    BY <2>3 DEF TuiInv, TypeOK
  <2> QED
    BY <2>2, <2>4 DEF TuiInv, Good, Stacked, Led, From
<1> QED
  BY TuiInit, TuiStep, <1>1, PTL DEF Spec, SetupReplacesNoWallet
=============================================================================

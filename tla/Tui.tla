-------------------------------- MODULE Tui --------------------------------
(***************************************************************************)
(* The screens of the TUI and the set-up of a wallet, for several TUIs     *)
(* that share one paypunkd.                                                *)
(*                                                                         *)
(* A TUI handles one key at a time and awaits its requests in the handler, *)
(* so a screen sees no key between a request and its answer; but create    *)
(* and import are two requests each, and other TUIs' requests come between *)
(* them.  Either all TUIs and paypunkd run with the offline signer or none *)
(* do.  Accounts are there or not; Wallet.tla has how they come about, and *)
(* Signer.tla the registration that the connect screen asks for.           *)
(***************************************************************************)
EXTENDS Naturals, Sequences

CONSTANTS Tuis,
          Fresh,      \* phrases that generate_mnemonic can return
          Written,    \* phrases that someone has on paper to import
          Passwords,
          MaxDepth,   \* bound: screens on a stack
          None

Phrases == Fresh \cup Written
OptPhrase == Phrases \cup {None}

ASSUME TuiAssumption == /\ MaxDepth \in Nat \ {0}
                        /\ None \notin Phrases \cup Passwords

VARIABLES offline,    \* paypunkd and the TUIs use the offline signer
          seed,       \* what keypunkd stores
          marker,     \* what HasSeed answers
          accounts,   \* paypunkd has accounts
          tui,        \* the TUI processes
          generated,  \* phrases that were generated, none of them twice
          backed      \* history: phrases whose words a person entered

vars == <<offline, seed, marker, accounts, tui, generated, backed>>

Screens == {"splash", "setup", "greeting", "connect", "home", "help",
            "assets", "demo", "send", "receive", "history"}
Steps == {"choice", "show", "verify", "setpassword", "creating", "import",
          "importpassword"}
OptPassword == Passwords \cup {None}
NoSeed == [phrase |-> None, password |-> None]
Process == [screens : Seq(Screens),   \* screen_stack, the top last
            next : Screens,           \* what the splash screen leads to
            step : Steps,
            pending : OptPhrase,      \* pending_mnemonic of the API
            shown : OptPhrase,        \* new_mnemonic of the set-up screen
            typed : OptPhrase,        \* the words of the import grid
            doing : {"nothing", "restore", "unlock", "register"},
            phrase : OptPhrase, password : OptPassword,  \* of the request
            found : BOOLEAN,          \* history: accounts existed at start
            connected : BOOLEAN]
Off == [screens |-> <<>>, next |-> "setup", step |-> "choice",
        pending |-> None, shown |-> None, typed |-> None, doing |-> "nothing",
        phrase |-> None, password |-> None, found |-> FALSE,
        connected |-> FALSE]

Init == /\ offline \in BOOLEAN
        /\ seed = NoSeed
        /\ marker = FALSE
        /\ accounts = FALSE
        /\ tui = [t \in Tuis |-> Off]
        /\ generated = {}
        /\ backed = {}

On(t) == tui[t].screens # <<>>
Top(t) == tui[t].screens[Len(tui[t].screens)]

\* Screen s is on top and a key is handled.
Ready(t, s) == On(t) /\ Top(t) = s /\ tui[t].doing = "nothing"

-----------------------------------------------------------------------------
(* The stack of screens                                                    *)

Pushed(r, s) == [r EXCEPT !.screens = Append(@, s)]
Popped(r) == [r EXCEPT !.screens = SubSeq(@, 1, Len(@) - 1)]
Replaced(r, s) == [r EXCEPT !.screens[Len(r.screens)] = s, !.step = "choice",
                            !.next = "setup", !.shown = None, !.typed = None]

Navigate(t, r) == /\ tui' = [tui EXCEPT ![t] = r]
                  /\ UNCHANGED <<offline, seed, marker, accounts, generated,
                                 backed>>

\* Mutant: the connection is good although HasSeed had no answer.
StartTuiAnyway(t) ==
    /\ ~On(t)
    /\ \E live \in BOOLEAN :
         LET exists == live /\ marker IN
         Navigate(t, [Off EXCEPT
             !.screens = <<"splash">>,
             !.next = IF exists THEN IF offline THEN "home" ELSE "greeting"
                      ELSE IF offline THEN "connect" ELSE "setup",
             !.found = accounts,
             !.connected = TRUE])

\* run_tui: HasSeed decides what follows the splash screen.  An answer that
\* does not come counts as no, and then no other answer will come either.
StartTui(t) ==
    /\ ~On(t)
    /\ \E live \in BOOLEAN :
         LET exists == live /\ marker IN
         Navigate(t, [Off EXCEPT
             !.screens = <<"splash">>,
             !.next = IF exists THEN IF offline THEN "home" ELSE "greeting"
                      ELSE IF offline THEN "connect" ELSE "setup",
             !.found = accounts,
             !.connected = live])

\* get_setup: a new phrase is in the API's slot and on the screen.
GetSetup(t, r) ==
    \E p \in Fresh \ generated :
      /\ tui' = [tui EXCEPT ![t] = [r EXCEPT !.pending = p, !.shown = p]]
      /\ generated' = generated \cup {p}
      /\ UNCHANGED <<offline, seed, marker, accounts, backed>>

\* The splash screen's tick replaces it; init of the set-up screen.
SplashEnds(t) ==
    /\ Ready(t, "splash")
    /\ LET r == Replaced(tui[t], tui[t].next) IN
       IF tui[t].next = "setup" THEN GetSetup(t, r) ELSE Navigate(t, r)

\* '?' on every screen but the splash screen and help itself.
OpenHelp(t) ==
    /\ On(t) /\ Top(t) \notin {"splash", "help"} /\ tui[t].doing = "nothing"
    /\ Len(tui[t].screens) < MaxDepth
    /\ Navigate(t, Pushed(tui[t], "help"))

\* Mutant: a set-up screen that is shown again is set up again.
BackAgain(t) ==
    /\ On(t) /\ Top(t) \in {"help", "assets", "demo", "send", "receive", "history"}
    /\ tui[t].doing = "nothing"
    /\ LET r == Popped(tui[t]) IN
       IF r.screens # <<>> /\ r.screens[Len(r.screens)] = "setup"
       THEN GetSetup(t, r) ELSE Navigate(t, r)

\* Nav::Pop of the screens that have it; the set-up screen has no
\* on_reactivate.  An empty stack ends the TUI.
Back(t) ==
    /\ On(t) /\ Top(t) \in {"help", "assets", "demo", "send", "receive", "history"}
    /\ tui[t].doing = "nothing"
    /\ Navigate(t, IF Len(tui[t].screens) = 1 THEN Off ELSE Popped(tui[t]))

\* What the keys of the home screen open, and the buttons of the assets.
OpensHome == {"assets", "send", "receive"}
OpensAssets == {"send", "receive", "history"}

Open(t, s) ==
    /\ \/ Ready(t, "home") /\ s \in OpensHome
       \/ Ready(t, "assets") /\ s \in OpensAssets
    /\ Len(tui[t].screens) < MaxDepth
    /\ Navigate(t, Pushed(tui[t], s))

\* Ctrl+A and Ctrl+D in set-up: the set-up screen and its words are gone.
LeaveSetup(t, s) ==
    /\ Ready(t, "setup")
    /\ s \in {"assets", "demo"}
    /\ Navigate(t, Replaced(tui[t], s))

\* q on the home screen, Ctrl+C, or the terminal is closed.
Quit(t) == On(t) /\ Navigate(t, Off)

-----------------------------------------------------------------------------
(* Set-up                                                                  *)

\* Enter and Esc between the steps that need nothing from the person.
Moves == {<<"choice", "show">>, <<"choice", "import">>, <<"show", "verify">>,
          <<"show", "choice">>, <<"verify", "show">>,
          <<"setpassword", "verify">>, <<"import", "choice">>,
          <<"importpassword", "import">>}

Step(t) ==
    /\ Ready(t, "setup")
    /\ \E s \in Steps : /\ <<tui[t].step, s>> \in Moves
                        /\ Navigate(t, [tui[t] EXCEPT !.step = s])

\* Enter with the three words as they are in new_mnemonic.
VerifyWords(t) ==
    /\ Ready(t, "setup") /\ tui[t].step = "verify"
    /\ tui[t].shown # None
    /\ tui' = [tui EXCEPT ![t].step = "setpassword"]
    /\ backed' = backed \cup {tui[t].shown}
    /\ UNCHANGED <<offline, seed, marker, accounts, generated>>

\* Words are typed or pasted into the import grid; Esc does not clear them.
FillPhrase(t) ==
    /\ Ready(t, "setup") /\ tui[t].step = "import"
    /\ \E p \in Written \cup backed :
         /\ tui' = [tui EXCEPT ![t].typed = p]
         /\ backed' = backed \cup {p}
    /\ UNCHANGED <<offline, seed, marker, accounts, generated>>

\* Enter on the grid, if there is anything in it.
EnterPhrase(t) ==
    /\ Ready(t, "setup") /\ tui[t].step = "import" /\ tui[t].typed # None
    /\ Navigate(t, [tui[t] EXCEPT !.step = "importpassword"])

\* The first request of submit_setup_create and submit_setup_import.
Submitted(r, phrase, w) ==
    [r EXCEPT !.doing = "restore", !.phrase = phrase, !.password = w]

\* Mutant: the empty slot is not an error.
SubmitCreateEmpty(t) ==
    /\ Ready(t, "setup") /\ tui[t].step = "setpassword"
    /\ \E w \in Passwords :
         Navigate(t, [Submitted(tui[t], tui[t].pending, w) EXCEPT
                         !.step = "creating", !.pending = None])

\* submit_setup_create takes the phrase out of the API's slot; without one
\* it fails at once.
SubmitCreate(t) ==
    /\ Ready(t, "setup") /\ tui[t].step = "setpassword"
    /\ tui[t].pending # None
    /\ \E w \in Passwords :
         Navigate(t, [Submitted(tui[t], tui[t].pending, w) EXCEPT
                         !.step = "creating", !.pending = None])

SubmitImport(t) ==
    /\ Ready(t, "setup") /\ tui[t].step = "importpassword"
    /\ \E w \in Passwords :
         Navigate(t, Submitted(tui[t], tui[t].typed, w))

-----------------------------------------------------------------------------
(* Requests                                                                *)

\* The request's error is shown; Creating goes back to SetPassword.
Failed(t, connected) ==
    [tui[t] EXCEPT !.doing = "nothing", !.phrase = None, !.password = None,
                   !.step = IF @ = "creating" THEN "setpassword" ELSE @,
                   !.connected = connected]

\* An answer never comes, and the connection is lost or lost already.
Unanswered(t) == tui' = [tui EXCEPT ![t] = Failed(t, FALSE)]

\* An error comes back over a good connection, or none at all.
Refused(t) == \/ tui[t].connected /\ tui' = [tui EXCEPT ![t] = Failed(t, TRUE)]
              \/ Unanswered(t)

\* Nav::Replace(HomeScreen)
GoHome(t) == tui' = [tui EXCEPT
    ![t] = [Replaced(tui[t], "home") EXCEPT
               !.doing = "nothing", !.phrase = None, !.password = None]]

\* keypunkd replaces whatever seed it has; then paypunkd sets the marker.
\* An error may come after the seed was stored, and after the marker too.
RestoreSeed(t) ==
    /\ tui[t].doing = "restore"
    /\ \/ Refused(t) /\ UNCHANGED <<seed, marker>>
       \/ /\ tui[t].connected
          /\ seed' = [phrase |-> tui[t].phrase, password |-> tui[t].password]
          /\ \/ marker' = TRUE /\ tui' = [tui EXCEPT ![t].doing = "unlock"]
             \/ marker' = marker /\ Refused(t)
             \/ marker' = TRUE /\ Unanswered(t)
    /\ UNCHANGED <<offline, accounts, generated, backed>>

\* keypunkd exports viewing keys to who has the password of its seed.
ExportsKeys(w) == seed # NoSeed /\ seed.password = w

\* With accounts paypunkd asks keypunkd for nothing, so any password does.
CanUnlock(t) == accounts \/ ExportsKeys(tui[t].password)

\* Mutant: the home screen follows whatever the answer is.
UnlockAnyway(t) ==
    /\ tui[t].doing = "unlock"
    /\ \/ GoHome(t) /\ UNCHANGED <<marker, accounts>>
       \/ /\ tui[t].connected /\ CanUnlock(t)
          /\ marker' = TRUE
          /\ accounts' = TRUE
          /\ GoHome(t) \/ Unanswered(t)
    /\ UNCHANGED <<offline, seed, generated, backed>>

\* The second request of set-up, or the greeting screen's.
Unlock(t) ==
    /\ tui[t].doing = "unlock"
    /\ \/ Refused(t) /\ UNCHANGED <<marker, accounts>>
       \/ /\ tui[t].connected /\ CanUnlock(t)
          /\ marker' = TRUE
          /\ accounts' = TRUE
          /\ GoHome(t) \/ Unanswered(t)
    /\ UNCHANGED <<offline, seed, generated, backed>>

\* register_signer, in place of unlock; the rows come before the marker.
Register(t) ==
    /\ tui[t].doing = "register"
    /\ \/ /\ Refused(t) /\ marker' = marker
          /\ accounts' \in {accounts, accounts \/ tui[t].connected}
       \/ /\ tui[t].connected
          /\ marker' = TRUE
          /\ accounts' = TRUE
          /\ GoHome(t) \/ Unanswered(t)
    /\ UNCHANGED <<offline, seed, generated, backed>>

\* Enter on the greeting screen and on the connect screen.
SubmitUnlock(t) ==
    /\ Ready(t, "greeting")
    /\ \E w \in Passwords :
         Navigate(t, [tui[t] EXCEPT !.doing = "unlock", !.password = w])

SubmitConnect(t) ==
    /\ Ready(t, "connect")
    /\ Navigate(t, [tui[t] EXCEPT !.doing = "register"])

\* The daemons restart: no TUI connects a second time.
RestartDaemons ==
    /\ tui' = [t \in Tuis |-> [tui[t] EXCEPT !.connected = FALSE]]
    /\ UNCHANGED <<offline, seed, marker, accounts, generated, backed>>

Next ==
    \/ \E t \in Tuis :
         \/ StartTui(t) \/ SplashEnds(t) \/ OpenHelp(t) \/ Back(t) \/ Quit(t)
         \/ Step(t) \/ VerifyWords(t) \/ FillPhrase(t) \/ EnterPhrase(t)
         \/ SubmitCreate(t) \/ SubmitImport(t)
         \/ SubmitUnlock(t) \/ SubmitConnect(t)
         \/ RestoreSeed(t) \/ Unlock(t) \/ Register(t)
         \/ \E s \in Screens : Open(t, s)
         \/ \E s \in Screens : LeaveSetup(t, s)
    \/ RestartDaemons

Spec == Init /\ [][Next]_vars

-----------------------------------------------------------------------------
(* Properties                                                              *)

\* Every variable stays in its set, no stack outgrows its bound, and no seed
\* is restored from an empty phrase.
TypeOK ==
    /\ offline \in BOOLEAN
    /\ seed \in [phrase : OptPhrase, password : OptPassword]
    /\ marker \in BOOLEAN
    /\ accounts \in BOOLEAN
    /\ tui \in [Tuis -> Process]
    /\ \A t \in Tuis :
         /\ Len(tui[t].screens) <= MaxDepth
         /\ tui[t].doing = "restore" => tui[t].phrase # None
    /\ generated \subseteq Fresh
    /\ backed \subseteq Phrases

\* The seed that is stored is one whose words a person entered: the slot of
\* the API still has the phrase that was shown and verified, whichever
\* screens were opened in between and whatever failed and was tried again.
\* Of any other phrase there would be no copy but the encrypted one.
StoredWasBackedUp == seed.phrase \in backed \cup {None}

\* The home screen, under whatever is on top of it, is the screen of a wallet
\* with accounts: a wallet whose set-up stopped half way is not shown as an
\* empty one.
HomeHasAccounts ==
    \A t \in Tuis : \A n \in 1..Len(tui[t].screens) :
        tui[t].screens[n] = "home" => accounts

\* No seed is replaced by a TUI that was started when the wallet had accounts
\* already: it may fail to see that, but then it reaches no paypunkd.
SetupReplacesNoWallet ==
    [][\A t \in Tuis : seed' # seed /\ tui'[t] # tui[t] => ~tui[t].found]_vars
=============================================================================

------------------------------- MODULE Daemons -------------------------------
(***************************************************************************)
(* How a `paypunk` process comes to a paypunkd: it looks whether one       *)
(* answers at the socket, and starts a key service (keypunkd, or the       *)
(* bridge in signer mode) and a paypunkd if none does.  Nothing locks the  *)
(* two socket files; whoever binds a socket removes the file that is       *)
(* there, and a file stays behind when its daemon dies.                    *)
(*                                                                         *)
(* Left out: daemons started by hand, the half of a second in which an     *)
(* attempt is repeated, and a socket of which bind fails.                  *)
(***************************************************************************)
EXTENDS Naturals

CONSTANTS Clis,         \* `paypunk` processes
          Faults,       \* of "kill", "crash", "slow": what may go wrong
          MaxDaemons,   \* bound: daemons ever spawned
          None

Kinds == {"key", "pay"}

ASSUME DaemonsAssumption == /\ Faults \subseteq {"kill", "crash", "slow"}
                            /\ MaxDaemons \in Nat
                            /\ None \notin Clis

VARIABLES cli,        \* each `paypunk` process
          daemons,    \* the daemons, in the order they were spawned
          sock,       \* of each kind, the daemon whose socket file there is
          disturbed   \* history: starts met each other, or a fault occurred

vars == <<cli, daemons, sock, disturbed>>

Ids == 1..MaxDaemons
States == {"none", "starting", "opening", "serving", "dead"}
Steps == {"off", "probe", "key", "wait_key", "pay", "wait_pay",
          "connect", "run", "drop"}
Starting == {"probe", "key", "wait_key", "pay", "wait_pay"}

NoChildren == [k \in Kinds |-> 0]
Idle == [step |-> "off", guard |-> NoChildren, conn |-> 0]
Unborn == [kind |-> "key", owner |-> None, state |-> "none", link |-> 0]
Dead == [Unborn EXCEPT !.state = "dead"]

Init == /\ cli = [c \in Clis |-> Idle]
        /\ daemons = [d \in Ids |-> Unborn]
        /\ sock = NoChildren
        /\ disturbed = FALSE

Alive(d) == daemons[d].state \in {"starting", "opening", "serving"}

\* Connecting to the file succeeds when its daemon still serves.
Answers(k) == sock[k] # 0 /\ daemons[sock[k]].state = "serving"

\* The daemons of c, all but those of which the guard knows nothing.
Children(c) == {cli[c].guard[k] : k \in Kinds} \ {0}

Go(c, step) == cli' = [cli EXCEPT ![c].step = step]

-----------------------------------------------------------------------------
(* `paypunk`: main and ensure_daemons                                      *)

\* A client command or the TUI, with daemons to be launched if need be, or
\* `paypunk tui`, which never launches any.
Start(c) ==
    /\ cli[c].step = "off"
    /\ \/ /\ Go(c, "probe")
          /\ disturbed' = (disturbed \/ \E o \in Clis :
                                cli[o].step \in Starting \cup {"drop"})
       \/ /\ Go(c, "connect")
          /\ UNCHANGED disturbed
    /\ UNCHANGED <<daemons, sock>>

\* Mutant: daemons are launched whoever answers.
ProbeNothing(c) ==
    /\ cli[c].step = "probe"
    /\ Go(c, "key")
    /\ UNCHANGED <<daemons, sock, disturbed>>

\* An answer within 500 ms is as good as daemons of one's own.
Probe(c) ==
    /\ cli[c].step = "probe"
    /\ \/ /\ Answers("pay")
          /\ Go(c, "connect")
          /\ UNCHANGED <<sock, disturbed>>
       \/ /\ Answers("pay") => "slow" \in Faults
          /\ Go(c, "key")
          /\ sock' = IF sock["pay"] # 0 THEN NoChildren ELSE sock
          /\ disturbed' = (disturbed \/ Answers("pay"))
    /\ UNCHANGED daemons

\* The process of `paypunk keypunkd`, `paypunk bridge` or `paypunk paypunkd`,
\* whose main has yet to call run.
Child(c, kind) == [kind |-> kind, owner |-> c, state |-> "starting", link |-> 0]

\* Command::spawn and DaemonGuard::add_child.
Spawn(c, kind, step) ==
    \E d \in Ids :
       /\ daemons[d].state = "none"
       /\ \A e \in Ids : e < d => daemons[e].state # "none"
       /\ daemons' = [daemons EXCEPT ![d] = Child(c, kind)]
       /\ cli' = [cli EXCEPT ![c].step = step, ![c].guard[kind] = d]

\* Whatever socket files there are by now are removed first.
LaunchKey(c) ==
    /\ cli[c].step = "key"
    /\ Spawn(c, "key", "wait_key")
    /\ sock' = NoChildren
    /\ UNCHANGED disturbed

\* wait_for_sockets: any file will do.
WaitKey(c) ==
    /\ cli[c].step = "wait_key" /\ sock["key"] # 0
    /\ Go(c, "pay")
    /\ UNCHANGED <<daemons, sock, disturbed>>

LaunchPay(c) ==
    /\ cli[c].step = "pay"
    /\ Spawn(c, "pay", "wait_pay")
    /\ UNCHANGED <<sock, disturbed>>

WaitPay(c) ==
    /\ cli[c].step = "wait_pay" /\ sock["pay"] # 0
    /\ Go(c, "connect")
    /\ UNCHANGED <<daemons, sock, disturbed>>

\* Mutant: an error returns past the guard.
TimeOutLeaves(c) ==
    /\ \/ cli[c].step \in {"key", "wait_key", "pay", "wait_pay"}
       \/ cli[c].step = "connect" /\ ~Answers("pay")
    /\ cli' = [cli EXCEPT ![c] = Idle]
    /\ UNCHANGED <<daemons, sock, disturbed>>

\* Mutant: the wait for the key service has no end.
TimeOutLater(c) ==
    /\ \/ cli[c].step \in {"key", "pay", "wait_pay"}
       \/ cli[c].step = "connect" /\ ~Answers("pay")
    /\ Go(c, "drop")
    /\ UNCHANGED <<daemons, sock, disturbed>>

\* A spawn fails, a file does not appear within 30 s, or no paypunkd answers:
\* a client command tries once, the TUI for 30 s.
TimeOut(c) ==
    /\ \/ cli[c].step \in {"key", "wait_key", "pay", "wait_pay"}
       \/ cli[c].step = "connect" /\ ~Answers("pay")
    /\ Go(c, "drop")
    /\ UNCHANGED <<daemons, sock, disturbed>>

Connect(c) ==
    /\ cli[c].step = "connect" /\ Answers("pay")
    /\ cli' = [cli EXCEPT ![c].step = "run", ![c].conn = sock["pay"]]
    /\ UNCHANGED <<daemons, sock, disturbed>>

\* The command is done, or the user leaves the TUI.
Exit(c) ==
    /\ cli[c].step = "run"
    /\ cli' = [cli EXCEPT ![c].step = "drop", ![c].conn = 0]
    /\ UNCHANGED <<daemons, sock, disturbed>>

\* DaemonGuard::drop: the key service first, then paypunkd.
Drop(c) ==
    /\ cli[c].step = "drop"
    /\ LET kind == IF cli[c].guard["key"] # 0 THEN "key" ELSE "pay"
           d == cli[c].guard[kind] IN
       IF d = 0
       THEN cli' = [cli EXCEPT ![c] = Idle] /\ UNCHANGED daemons
       ELSE /\ cli' = [cli EXCEPT ![c].guard[kind] = 0]
            /\ daemons' = [daemons EXCEPT ![d] = Dead]
    /\ UNCHANGED <<sock, disturbed>>

\* Control-C in the terminal: it goes to the daemons as well, and no guard
\* is dropped.  (A running TUI reads it as a key and exits.)
Interrupt(c) ==
    /\ cli[c].step \in Starting \cup {"connect", "run"}
    /\ cli' = [cli EXCEPT ![c] = Idle]
    /\ daemons' = [d \in Ids |-> IF d \in Children(c) THEN Dead
                                 ELSE daemons[d]]
    /\ UNCHANGED <<sock, disturbed>>

\* Killed, the process leaves its daemons to run on.
Kill(c) ==
    /\ "kill" \in Faults /\ cli[c].step # "off"
    /\ cli' = [cli EXCEPT ![c] = Idle]
    /\ daemons' = [d \in Ids |-> IF daemons[d].owner = c
                                 THEN [daemons[d] EXCEPT !.owner = None]
                                 ELSE daemons[d]]
    /\ disturbed' = TRUE
    /\ UNCHANGED sock

-----------------------------------------------------------------------------
(* The daemons                                                             *)

\* bind_with, over whatever file there is.
Bind(d, kind, from) ==
    /\ daemons[d].kind = kind /\ daemons[d].state = from
    /\ daemons' = [daemons EXCEPT ![d].state = "serving"]
    /\ sock' = [sock EXCEPT ![kind] = d]
    /\ UNCHANGED <<cli, disturbed>>

KeyServes(d) == Bind(d, "key", "starting")
PayServes(d) == Bind(d, "pay", "opening")

\* paypunkd connects to the key service once, to the one that is there.
PayConnects(d) ==
    /\ daemons[d].kind = "pay" /\ daemons[d].state = "starting"
    /\ Answers("key")
    /\ daemons' = [daemons EXCEPT ![d].state = "opening",
                                  ![d].link = sock["key"]]
    /\ UNCHANGED <<cli, sock, disturbed>>

\* paypunkd ends by itself: no key service answers for 15 s, or the wallet or
\* the database does not open.
PayFails(d) ==
    /\ daemons[d].kind = "pay"
    /\ \/ daemons[d].state = "starting" /\ ~Answers("key")
       \/ daemons[d].state = "opening"
    /\ daemons' = [daemons EXCEPT ![d] = Dead]
    /\ UNCHANGED <<cli, sock, disturbed>>

Crash(d) ==
    /\ "crash" \in Faults /\ Alive(d)
    /\ daemons' = [daemons EXCEPT ![d] = Dead]
    /\ disturbed' = TRUE
    /\ UNCHANGED <<cli, sock>>

Step(c) == \/ Probe(c) \/ LaunchKey(c) \/ WaitKey(c) \/ LaunchPay(c)
           \/ WaitPay(c) \/ Connect(c) \/ TimeOut(c) \/ Drop(c)

Next == \/ \E c \in Clis : Start(c) \/ Step(c) \/ Exit(c)
                           \/ Interrupt(c) \/ Kill(c)
        \/ \E d \in Ids : \/ KeyServes(d) \/ PayServes(d) \/ PayConnects(d)
                          \/ PayFails(d) \/ Crash(d)

Spec == Init /\ [][Next]_vars

\* A `paypunk` that is not stopped goes on by itself until the user's turn.
FairSpec == Spec /\ \A c \in Clis : WF_vars(Step(c))

-----------------------------------------------------------------------------
(* Properties                                                              *)

\* Every variable stays in its set.
TypeOK ==
    /\ cli \in [Clis -> [step : Steps,
                         guard : [Kinds -> 0..MaxDaemons],
                         conn : 0..MaxDaemons]]
    /\ daemons \in [Ids -> [kind : Kinds, owner : Clis \cup {None},
                            state : States, link : 0..MaxDaemons]]
    /\ sock \in [Kinds -> 0..MaxDaemons]
    /\ disturbed \in BOOLEAN

\* Unless a `paypunk` is killed, it leaves no daemon behind: neither when it
\* ends nor when its start fails or is interrupted half way.
NoOrphans ==
    \A d \in Ids : Alive(d) /\ daemons[d].owner # None =>
        cli[daemons[d].owner].guard[daemons[d].kind] = d

\* As long as no start meets another or the end of a session, no daemon dies
\* by itself and paypunkd answers in time, there is one pair of daemons, and
\* who launched it runs with its own paypunkd, connected to its own key
\* service, although the socket files of earlier daemons are still there.
OnePair ==
    ~disturbed =>
      /\ \A d, e \in Ids :
           Alive(d) /\ Alive(e) /\ daemons[d].kind = daemons[e].kind => d = e
      /\ \A c \in Clis : cli[c].step = "run" /\ Children(c) # {} =>
           /\ cli[c].conn = cli[c].guard["pay"] /\ Alive(cli[c].conn)
           /\ daemons[cli[c].conn].link = cli[c].guard["key"]
           /\ Alive(cli[c].guard["key"])

\* A start ends, with a session or with all that it launched taken down, even
\* if no daemon ever comes up.
StartEnds == \A c \in Clis :
    cli[c].step \in Starting \cup {"connect"} ~> cli[c].step \in {"run", "off"}
=============================================================================

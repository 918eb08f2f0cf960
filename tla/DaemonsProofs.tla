---------------------------- MODULE DaemonsProofs ----------------------------
(* Proofs about Daemons for any number of `paypunk` processes and daemons  *)
(* and for every set of faults.                                            *)
EXTENDS Daemons, TLAPS

CliRec == [step : Steps, guard : [Kinds -> 0..MaxDaemons], conn : 0..MaxDaemons]
DaemonRec == [kind : Kinds, owner : Clis \cup {None}, state : States,
              link : 0..MaxDaemons]

\* What a guard holds was spawned for it, and is still its own if it lives.
Guarded ==
    \A c \in Clis, k \in Kinds, d \in Ids : cli[c].guard[k] = d =>
        /\ daemons[d].state # "none"
        /\ Alive(d) => daemons[d].owner = c /\ daemons[d].kind = k

\* Who has not come so far has nothing of the kind.
NotYet ==
    \A c \in Clis :
        /\ cli[c].step \in {"off", "probe", "key"} => cli[c].guard["key"] = 0
        /\ cli[c].step \in {"off", "probe", "key", "wait_key", "pay"} =>
              cli[c].guard["pay"] = 0

\* The inductive invariant.
DInv == TypeOK /\ Guarded /\ NotYet /\ NoOrphans

\* The constants of the daemons are records of their kind.
LEMMA Records ==
  /\ Idle \in CliRec
  /\ Unborn \in DaemonRec
  /\ Dead \in DaemonRec
<1>1. MaxDaemons \in Nat
  BY DaemonsAssumption
<1>2. Idle \in CliRec
  BY <1>1 DEF Idle, CliRec, NoChildren, Steps
<1>3. Unborn \in DaemonRec
  BY <1>1 DEF Unborn, DaemonRec, Kinds, States
<1>4. Dead \in DaemonRec
  BY <1>1 DEF Unborn, Dead, DaemonRec, Kinds, States
<1> QED
  BY <1>2, <1>3, <1>4

LEMMA DInit == Init => DInv
<1> SUFFICES ASSUME Init PROVE DInv
  OBVIOUS
<1>1. TypeOK
  <2>1. cli \in [Clis -> CliRec] /\ daemons \in [Ids -> DaemonRec]
    BY Records DEF Init
  <2>2. sock \in [Kinds -> 0..MaxDaemons]
    BY DaemonsAssumption DEF Init, NoChildren
  <2>3. disturbed \in BOOLEAN
    BY DEF Init
  <2> QED
    BY <2>1, <2>2, <2>3 DEF TypeOK, CliRec, DaemonRec
<1>2. Guarded /\ NotYet
  BY DEF Init, Idle, NoChildren, Guarded, NotYet, Kinds, Ids
<1>3. NoOrphans
  BY DEF Init, Unborn, NoOrphans
<1> QED
  BY <1>1, <1>2, <1>3 DEF DInv

\* A step that only moves a process on, to where it may have what it has.
LEMMA Moves ==
  ASSUME DInv, NEW c \in Clis, NEW r \in CliRec,
         cli' = [cli EXCEPT ![c] = r], r.guard = cli[c].guard,
         UNCHANGED daemons,
         sock' \in [Kinds -> 0..MaxDaemons], disturbed' \in BOOLEAN,
         r.step \in {"off", "probe", "key"} => r.guard["key"] = 0,
         r.step \in {"off", "probe", "key", "wait_key", "pay"} =>
            r.guard["pay"] = 0
  PROVE  DInv'
<1>1. cli \in [Clis -> CliRec] /\ TypeOK
  BY DEF DInv, TypeOK, CliRec
<1>2. cli'[c] = r /\ \A o \in Clis \ {c} : cli'[o] = cli[o]
  BY <1>1
<1>3. \A o \in Clis : cli'[o].guard = cli[o].guard
  BY <1>2
<1>4. TypeOK'
  <2>1. cli' \in [Clis -> CliRec]
    BY <1>1
  <2> QED
    BY <1>1, <2>1 DEF TypeOK, CliRec
<1>5. Guarded'
  BY <1>3 DEF DInv, Guarded, Alive
<1>6. NotYet'
  BY <1>2 DEF DInv, NotYet
<1>7. NoOrphans'
  <2> SUFFICES ASSUME NEW d \in Ids, Alive(d), daemons[d].owner # None
               PROVE  cli'[daemons[d].owner].guard[daemons[d].kind] = d
    BY DEF NoOrphans, Alive
  <2>1. daemons[d].owner \in Clis
    BY <1>1 DEF TypeOK
  <2> QED
    BY <2>1, <1>3 DEF DInv, NoOrphans
<1> QED
  BY <1>4, <1>5, <1>6, <1>7 DEF DInv

\* A step of one daemon that keeps whose it is and of what kind.
LEMMA Lives ==
  ASSUME DInv, NEW d \in Ids, NEW r \in DaemonRec,
         daemons' = [daemons EXCEPT ![d] = r], UNCHANGED cli,
         sock' \in [Kinds -> 0..MaxDaemons], disturbed' \in BOOLEAN,
         r.state # "none",
         r.state \in {"starting", "opening", "serving"} =>
            Alive(d) /\ r.owner = daemons[d].owner /\ r.kind = daemons[d].kind
  PROVE  DInv'
<1>1. daemons \in [Ids -> DaemonRec] /\ TypeOK
  BY DEF DInv, TypeOK, DaemonRec
<1>2. daemons'[d] = r /\ \A e \in Ids \ {d} : daemons'[e] = daemons[e]
  BY <1>1
<1>3. TypeOK'
  <2>1. daemons' \in [Ids -> DaemonRec]
    BY <1>1
  <2> QED
    BY <1>1, <2>1 DEF TypeOK, DaemonRec
<1>4. \A e \in Ids : Alive(e)' => /\ Alive(e)
                                  /\ daemons'[e].owner = daemons[e].owner
                                  /\ daemons'[e].kind = daemons[e].kind
  BY <1>2 DEF Alive
<1>5. Guarded'
  BY <1>2, <1>4 DEF DInv, Guarded
<1>6. NotYet'
  BY DEF DInv, NotYet
<1>7. NoOrphans'
  BY <1>4 DEF DInv, NoOrphans
<1> QED
  BY <1>3, <1>5, <1>6, <1>7 DEF DInv

\* A daemon is spawned by a process that has none of its kind.
LEMMA Spawns ==
  ASSUME DInv, NEW c \in Clis, NEW k \in Kinds, NEW s \in Steps,
         Spawn(c, k, s), cli[c].guard[k] = 0,
         sock' \in [Kinds -> 0..MaxDaemons], UNCHANGED disturbed,
         \/ k = "key" /\ s = "wait_key" /\ cli[c].guard["pay"] = 0
         \/ k = "pay" /\ s = "wait_pay"
  PROVE  DInv'
<1>1. PICK d \in Ids :
        /\ daemons[d].state = "none"
        /\ daemons' = [daemons EXCEPT ![d] =
              [kind |-> k, owner |-> c, state |-> "starting", link |-> 0]]
        /\ cli' = [cli EXCEPT ![c].step = s, ![c].guard[k] = d]
  BY DEF Spawn, Child
<1>2. /\ cli \in [Clis -> CliRec] /\ daemons \in [Ids -> DaemonRec] /\ TypeOK
      /\ MaxDaemons \in Nat
  BY DaemonsAssumption DEF DInv, TypeOK, CliRec, DaemonRec
<1>3. /\ cli'[c] \in CliRec /\ cli'[c].step = s
      /\ cli'[c].guard = [cli[c].guard EXCEPT ![k] = d]
      /\ cli' = [cli EXCEPT ![c] = cli'[c]]
  <2> DEFINE r == [cli[c] EXCEPT !.step = s, !.guard = [@ EXCEPT ![k] = d]]
  <2>1. cli' = [cli EXCEPT ![c] = r]
    BY <1>1
  <2>2. cli[c] \in CliRec /\ d \in 0..MaxDaemons
    BY <1>2 DEF Ids
  <2>3. [cli[c].guard EXCEPT ![k] = d] \in [Kinds -> 0..MaxDaemons]
    BY <2>2 DEF CliRec
  <2>4. r \in CliRec /\ r.step = s /\ r.guard = [cli[c].guard EXCEPT ![k] = d]
    BY <2>2, <2>3 DEF CliRec
  <2> HIDE DEF r
  <2> QED
    BY <1>2, <2>1, <2>4
<1>4. [kind |-> k, owner |-> c, state |-> "starting", link |-> 0] \in DaemonRec
  BY <1>2 DEF DaemonRec, States
<1>5. TypeOK'
  <2>1. cli' \in [Clis -> CliRec]
    BY <1>2, <1>3
  <2>2. daemons' \in [Ids -> DaemonRec]
    BY <1>1, <1>2, <1>4
  <2> QED
    BY <1>2, <2>1, <2>2 DEF TypeOK, CliRec, DaemonRec
<1>6. /\ cli'[c].guard[k] = d
      /\ \A o \in Clis, h \in Kinds : o # c \/ h # k =>
            cli'[o].guard[h] = cli[o].guard[h]
      /\ \A o \in Clis \ {c} : cli'[o] = cli[o]
  BY <1>2, <1>3 DEF CliRec
<1>7. /\ daemons'[d] = [kind |-> k, owner |-> c, state |-> "starting", link |-> 0]
      /\ \A e \in Ids \ {d} : daemons'[e] = daemons[e]
  BY <1>1, <1>2
<1>8. \A o \in Clis, h \in Kinds : cli[o].guard[h] # d
  BY <1>1 DEF DInv, Guarded
<1>9. Guarded'
  <2> SUFFICES ASSUME NEW o \in Clis, NEW h \in Kinds, NEW e \in Ids,
                      cli'[o].guard[h] = e
               PROVE  /\ daemons'[e].state # "none"
                      /\ Alive(e)' => daemons'[e].owner = o /\ daemons'[e].kind = h
    BY DEF Guarded
  <2>1. CASE o = c /\ h = k
    BY <2>1, <1>6, <1>7
  <2>2. CASE o # c \/ h # k
    <3>1. cli[o].guard[h] = e /\ e # d
      BY <1>6, <1>8, <2>2
    <3>2. daemons'[e] = daemons[e]
      BY <1>7, <3>1
    <3> QED
      BY <3>1, <3>2 DEF DInv, Guarded, Alive
  <2> QED
    BY <2>1, <2>2
<1>10. NotYet'
  BY <1>3, <1>6 DEF DInv, NotYet, Kinds
<1>11. NoOrphans'
  <2> SUFFICES ASSUME NEW e \in Ids, Alive(e)', daemons'[e].owner # None
               PROVE  cli'[daemons'[e].owner].guard[daemons'[e].kind] = e
    BY DEF NoOrphans
  <2>1. CASE e = d
    BY <2>1, <1>6, <1>7
  <2>2. CASE e # d
    <3>1. daemons'[e] = daemons[e]
      BY <2>2, <1>7
    <3>2. /\ daemons[e].owner \in Clis /\ daemons[e].kind \in Kinds
          /\ cli[daemons[e].owner].guard[daemons[e].kind] = e
      BY <3>1, <1>2 DEF DInv, NoOrphans, Alive, DaemonRec
    <3>3. daemons[e].owner # c \/ daemons[e].kind # k
      BY <3>2, <1>2, <2>2 DEF Ids
    <3> QED
      BY <3>1, <3>2, <3>3, <1>6
  <2> QED
    BY <2>1, <2>2
<1> QED
  BY <1>5, <1>9, <1>10, <1>11 DEF DInv

\* Go moves a process and leaves its guard.
LEMMA Goes ==
  ASSUME DInv, NEW c \in Clis, NEW s \in Steps, Go(c, s), UNCHANGED daemons,
         sock' \in [Kinds -> 0..MaxDaemons], disturbed' \in BOOLEAN,
         s \in {"off", "probe", "key"} => cli[c].guard["key"] = 0,
         s \in {"off", "probe", "key", "wait_key", "pay"} =>
            cli[c].guard["pay"] = 0
  PROVE  DInv'
<1> DEFINE r == [cli[c] EXCEPT !.step = s]
<1>1. cli' = [cli EXCEPT ![c] = r]
  BY DEF Go
<1>2. cli[c] \in CliRec
  BY DEF DInv, TypeOK, CliRec
<1>3. r \in CliRec /\ r.guard = cli[c].guard /\ r.step = s
  BY <1>2 DEF CliRec
<1> HIDE DEF r
<1> QED
  BY <1>1, <1>3, Moves

\* A process ends: none of the daemons that live are its own.
LEMMA Ends ==
  ASSUME DInv, NEW c \in Clis,
         cli' = [cli EXCEPT ![c] = Idle],
         daemons' \in [Ids -> DaemonRec], UNCHANGED sock,
         disturbed' \in BOOLEAN,
         \A d \in Ids :
            /\ daemons[d].state # "none" => daemons'[d].state # "none"
            /\ Alive(d)' => /\ Alive(d) /\ daemons'[d].kind = daemons[d].kind
                            /\ daemons'[d].owner # c
                            /\ \/ daemons'[d].owner = daemons[d].owner
                               \/ daemons'[d].owner = None /\ daemons[d].owner = c
  PROVE  DInv'
<1>1. cli \in [Clis -> CliRec] /\ TypeOK /\ None \notin Clis
  BY DaemonsAssumption DEF DInv, TypeOK, CliRec
<1>2. cli'[c] = Idle /\ \A o \in Clis \ {c} : cli'[o] = cli[o]
  BY <1>1
<1>3. TypeOK'
  <2>1. cli' \in [Clis -> CliRec]
    BY <1>1, Records
  <2> QED
    BY <1>1, <2>1 DEF TypeOK, CliRec, DaemonRec
<1>4. NotYet'
  BY <1>2 DEF DInv, NotYet, Idle, NoChildren, Kinds
<1>5. Guarded'
  <2> SUFFICES ASSUME NEW o \in Clis, NEW h \in Kinds, NEW e \in Ids,
                      cli'[o].guard[h] = e
               PROVE  /\ daemons'[e].state # "none"
                      /\ Alive(e)' => daemons'[e].owner = o /\ daemons'[e].kind = h
    BY DEF Guarded
  <2>1. o # c
    BY <1>2 DEF Idle, NoChildren, Ids
  <2>2. cli[o].guard[h] = e
    BY <1>2, <2>1
  <2>3. /\ daemons[e].state # "none"
        /\ Alive(e) => daemons[e].owner = o /\ daemons[e].kind = h
    BY <2>2 DEF DInv, Guarded
  <2> QED
    BY <2>1, <2>3
<1>6. NoOrphans'
  <2> SUFFICES ASSUME NEW e \in Ids, Alive(e)', daemons'[e].owner # None
               PROVE  cli'[daemons'[e].owner].guard[daemons'[e].kind] = e
    BY DEF NoOrphans
  <2>1. /\ Alive(e) /\ daemons'[e].kind = daemons[e].kind
        /\ daemons'[e].owner # c /\ daemons'[e].owner = daemons[e].owner
    OBVIOUS
  <2>2. daemons[e].owner \in Clis \ {c}
    BY <1>1, <2>1 DEF TypeOK
  <2>3. cli[daemons[e].owner].guard[daemons[e].kind] = e
    BY <2>1 DEF DInv, NoOrphans
  <2> QED
    BY <1>2, <2>1, <2>2, <2>3
<1> QED
  BY <1>3, <1>4, <1>5, <1>6 DEF DInv

\* DaemonGuard::drop takes down what the guard holds, one at a time.
LEMMA Drops ==
  ASSUME DInv, NEW c \in Clis, Drop(c)
  PROVE  DInv'
<1>1. /\ cli \in [Clis -> CliRec] /\ daemons \in [Ids -> DaemonRec] /\ TypeOK
      /\ MaxDaemons \in Nat
  BY DaemonsAssumption DEF DInv, TypeOK, CliRec, DaemonRec
<1>2. cli[c].step = "drop" /\ UNCHANGED <<sock, disturbed>>
  BY DEF Drop
<1>3. PICK k \in Kinds, d \in 0..MaxDaemons :
        /\ cli[c].guard[k] = d
        /\ d = 0 => /\ cli[c].guard["key"] = 0 /\ cli[c].guard["pay"] = 0
                    /\ cli' = [cli EXCEPT ![c] = Idle] /\ UNCHANGED daemons
        /\ d # 0 => /\ cli' = [cli EXCEPT ![c].guard[k] = 0]
                    /\ daemons' = [daemons EXCEPT ![d] = Dead]
  <2>1. "key" \in Kinds /\ "pay" \in Kinds
    BY DEF Kinds
  <2>2. cli[c].guard \in [Kinds -> 0..MaxDaemons]
    BY <1>1 DEF CliRec
  <2>3. CASE cli[c].guard["key"] # 0
    <3>1. /\ cli' = [cli EXCEPT ![c].guard["key"] = 0]
          /\ daemons' = [daemons EXCEPT ![cli[c].guard["key"]] = Dead]
      BY <2>3 DEF Drop
    <3> QED
      BY <2>1, <2>2, <2>3, <3>1
  <2>4. CASE cli[c].guard["key"] = 0
    <3>1. IF cli[c].guard["pay"] = 0
          THEN cli' = [cli EXCEPT ![c] = Idle] /\ UNCHANGED daemons
          ELSE /\ cli' = [cli EXCEPT ![c].guard["pay"] = 0]
               /\ daemons' = [daemons EXCEPT ![cli[c].guard["pay"]] = Dead]
      BY <2>4 DEF Drop
    <3> QED
      BY <2>1, <2>2, <2>4, <3>1
  <2> QED
    BY <2>3, <2>4
<1>4. CASE d = 0
  <2>1. \A h \in Kinds : cli[c].guard[h] = 0
    BY <1>3, <1>4 DEF Kinds
  <2>2. ASSUME NEW e \in Ids, Alive(e) PROVE daemons[e].owner # c
    <3>1. SUFFICES ASSUME daemons[e].owner = c PROVE FALSE
      OBVIOUS
    <3>2. cli[c].guard[daemons[e].kind] = e /\ daemons[e].kind \in Kinds
      BY <2>2, <3>1, <1>1, DaemonsAssumption DEF DInv, NoOrphans, DaemonRec
    <3> QED
      BY <2>1, <3>2 DEF Ids
  <2>3. cli' = [cli EXCEPT ![c] = Idle] /\ UNCHANGED <<daemons, sock, disturbed>>
    BY <1>2, <1>3, <1>4
  <2>4. disturbed' \in BOOLEAN
    BY <1>1, <2>3 DEF TypeOK
  <2> QED
    BY <1>1, <2>2, <2>3, <2>4, Ends DEF Alive
<1>5. CASE d # 0
  <2>1. /\ cli' = [cli EXCEPT ![c].guard[k] = 0] /\ d \in Ids /\ k \in Kinds
        /\ daemons' = [daemons EXCEPT ![d] = Dead] /\ cli[c].guard[k] = d
    BY <1>3, <1>5 DEF Ids
  <2> DEFINE g == [cli[c].guard EXCEPT ![k] = 0]
             r == [cli[c] EXCEPT !.guard = g]
  <2>2. g \in [Kinds -> 0..MaxDaemons] /\ g[k] = 0
        /\ \A h \in Kinds \ {k} : g[h] = cli[c].guard[h]
    BY <1>1, <2>1 DEF CliRec
  <2>3. cli' = [cli EXCEPT ![c] = r]
    BY <2>1
  <2> HIDE DEF g
  <2>4. r \in CliRec /\ r.guard = g /\ r.step = cli[c].step
    BY <1>1, <2>2 DEF CliRec
  <2> HIDE DEF r
  <2>5. /\ cli'[c] = r /\ (\A o \in Clis \ {c} : cli'[o] = cli[o])
        /\ daemons'[d] = Dead
        /\ (\A e \in Ids \ {d} : daemons'[e] = daemons[e])
    BY <1>1, <2>1, <2>3
  <2>6. TypeOK'
    <3>1. cli' \in [Clis -> CliRec]
      BY <1>1, <2>3, <2>4
    <3>2. daemons' \in [Ids -> DaemonRec]
      BY <1>1, <2>1, Records
    <3> QED
      BY <1>1, <1>2, <3>1, <3>2 DEF TypeOK, CliRec, DaemonRec
  <2>7. ~Alive(d)' /\ daemons'[d].state # "none"
    BY <2>5 DEF Alive, Dead, Unborn
  <2>8. Guarded'
    <3> SUFFICES ASSUME NEW o \in Clis, NEW h \in Kinds, NEW e \in Ids,
                        cli'[o].guard[h] = e
                 PROVE  /\ daemons'[e].state # "none"
                        /\ Alive(e)' => daemons'[e].owner = o
                                        /\ daemons'[e].kind = h
      BY DEF Guarded
    <3>1. CASE e = d
      BY <2>7, <3>1
    <3>2. CASE e # d
      <4>1. cli[o].guard[h] = e
        BY <2>2, <2>4, <2>5 DEF Ids
      <4> QED
        BY <4>1, <3>2, <2>5 DEF DInv, Guarded, Alive
    <3> QED
      BY <3>1, <3>2
  <2>9. NotYet'
    BY <1>2, <2>4, <2>5 DEF DInv, NotYet
  <2>10. NoOrphans'
    <3> SUFFICES ASSUME NEW e \in Ids, Alive(e)', daemons'[e].owner # None
                 PROVE  cli'[daemons'[e].owner].guard[daemons'[e].kind] = e
      BY DEF NoOrphans
    <3>1. e # d /\ daemons'[e] = daemons[e]
      BY <2>5, <2>7
    <3>2. /\ daemons[e].owner \in Clis /\ daemons[e].kind \in Kinds
          /\ cli[daemons[e].owner].guard[daemons[e].kind] = e
      BY <3>1, <1>1 DEF DInv, NoOrphans, Alive, DaemonRec
    <3>3. daemons[e].owner # c \/ daemons[e].kind # k
      BY <3>1, <3>2, <2>1
    <3> QED
      BY <3>1, <3>2, <3>3, <2>2, <2>4, <2>5
  <2> QED
    BY <2>6, <2>8, <2>9, <2>10 DEF DInv
<1> QED
  BY <1>4, <1>5

\* Every step preserves the invariant.
LEMMA DStep == DInv /\ [Next]_vars => DInv'
<1> SUFFICES ASSUME DInv, [Next]_vars PROVE DInv'
  OBVIOUS
<1>t. /\ TypeOK /\ NotYet /\ MaxDaemons \in Nat
      /\ cli \in [Clis -> CliRec] /\ daemons \in [Ids -> DaemonRec]
      /\ sock \in [Kinds -> 0..MaxDaemons] /\ disturbed \in BOOLEAN
  BY DaemonsAssumption DEF DInv, TypeOK, CliRec, DaemonRec
<1>n. NoChildren \in [Kinds -> 0..MaxDaemons]
  BY <1>t DEF NoChildren
<1>1. ASSUME NEW c \in Clis, Start(c) PROVE DInv'
  <2>1. /\ cli[c].guard["key"] = 0 /\ cli[c].guard["pay"] = 0
        /\ UNCHANGED <<daemons, sock>>
    BY <1>1, <1>t DEF Start, NotYet
  <2>2. CASE Go(c, "probe") /\ disturbed' \in BOOLEAN
    BY <1>t, <2>1, <2>2, Goes DEF Steps
  <2>3. CASE Go(c, "connect") /\ UNCHANGED disturbed
    BY <1>t, <2>1, <2>3, Goes DEF Steps
  <2>4. disturbed' \in BOOLEAN
    BY <1>1, <1>t DEF Start
  <2> QED
    BY <1>1, <2>2, <2>3, <2>4 DEF Start
<1>2. ASSUME NEW c \in Clis, Probe(c) PROVE DInv'
  <2>1. cli[c].guard["key"] = 0 /\ cli[c].guard["pay"] = 0 /\ UNCHANGED daemons
    BY <1>2, <1>t DEF Probe, NotYet
  <2>2. disturbed' \in BOOLEAN
    BY <1>2, <1>t DEF Probe
  <2>3. sock' \in [Kinds -> 0..MaxDaemons]
    BY <1>2, <1>t, <1>n DEF Probe
  <2>4. Go(c, "connect") \/ Go(c, "key")
    BY <1>2 DEF Probe
  <2> QED
    BY <2>1, <2>2, <2>3, <2>4, Goes DEF Steps
<1>3. ASSUME NEW c \in Clis, LaunchKey(c) PROVE DInv'
  <2>1. /\ Spawn(c, "key", "wait_key") /\ sock' = NoChildren
        /\ UNCHANGED disturbed
        /\ cli[c].guard["key"] = 0 /\ cli[c].guard["pay"] = 0
    BY <1>3, <1>t DEF LaunchKey, NotYet
  <2> QED
    BY <2>1, <1>n, Spawns DEF Steps, Kinds
<1>4. ASSUME NEW c \in Clis, WaitKey(c) PROVE DInv'
  <2>1. /\ cli[c].guard["pay"] = 0 /\ Go(c, "pay")
        /\ UNCHANGED <<daemons, sock, disturbed>>
    BY <1>4, <1>t DEF WaitKey, NotYet
  <2> QED
    BY <2>1, <1>t, Goes DEF Steps
<1>5. ASSUME NEW c \in Clis, LaunchPay(c) PROVE DInv'
  <2>1. /\ Spawn(c, "pay", "wait_pay") /\ UNCHANGED <<sock, disturbed>>
        /\ cli[c].guard["pay"] = 0
    BY <1>5, <1>t DEF LaunchPay, NotYet
  <2> QED
    BY <2>1, <1>t, Spawns DEF Steps, Kinds
<1>6. ASSUME NEW c \in Clis, WaitPay(c) PROVE DInv'
  BY <1>6, <1>t, Goes DEF WaitPay, Steps
<1>7. ASSUME NEW c \in Clis, Connect(c) PROVE DInv'
  <2> DEFINE r == [cli[c] EXCEPT !.step = "run", !.conn = sock["pay"]]
  <2>1. /\ cli' = [cli EXCEPT ![c] = r]
        /\ UNCHANGED <<daemons, sock, disturbed>>
    BY <1>7 DEF Connect
  <2>2. r \in CliRec /\ r.guard = cli[c].guard /\ r.step = "run"
    BY <1>t DEF CliRec, Steps, Kinds
  <2> HIDE DEF r
  <2> QED
    BY <1>t, <2>1, <2>2, Moves
<1>8. ASSUME NEW c \in Clis, TimeOut(c) PROVE DInv'
  BY <1>8, <1>t, Goes DEF TimeOut, Steps
<1>9. ASSUME NEW c \in Clis, Exit(c) PROVE DInv'
  <2> DEFINE r == [cli[c] EXCEPT !.step = "drop", !.conn = 0]
  <2>1. /\ cli' = [cli EXCEPT ![c] = r]
        /\ UNCHANGED <<daemons, sock, disturbed>>
    BY <1>9 DEF Exit
  <2>2. r \in CliRec /\ r.guard = cli[c].guard /\ r.step = "drop"
    <3>1. "drop" \in Steps /\ 0 \in 0..MaxDaemons /\ cli[c] \in CliRec
      BY <1>t DEF Steps
    <3> QED
      BY <3>1 DEF CliRec
  <2> HIDE DEF r
  <2> QED
    BY <1>t, <2>1, <2>2, Moves
<1>10. ASSUME NEW c \in Clis, Drop(c) PROVE DInv'
  BY <1>10, Drops
<1>11. ASSUME NEW c \in Clis, Interrupt(c) PROVE DInv'
  <2>1. /\ cli' = [cli EXCEPT ![c] = Idle] /\ UNCHANGED <<sock, disturbed>>
        /\ daemons' = [d \in Ids |-> IF d \in Children(c) THEN Dead
                                     ELSE daemons[d]]
    BY <1>11 DEF Interrupt
  <2>2. daemons' \in [Ids -> DaemonRec]
    BY <1>t, <2>1, Records
  <2>3. ASSUME NEW d \in Ids, Alive(d)'
        PROVE  /\ daemons'[d] = daemons[d] /\ Alive(d) /\ daemons[d].owner # c
    <3>1. d \notin Children(c)
      BY <2>1, <2>3 DEF Alive, Dead, Unborn
    <3>2. daemons'[d] = daemons[d] /\ Alive(d)
      BY <2>1, <2>3, <3>1 DEF Alive
    <3>3. ASSUME daemons[d].owner = c PROVE FALSE
      <4>1. cli[c].guard[daemons[d].kind] = d /\ daemons[d].kind \in Kinds
        BY <1>t, <3>2, <3>3, DaemonsAssumption DEF DInv, NoOrphans, DaemonRec
      <4> QED
        BY <3>1, <4>1 DEF Children, Ids
    <3> QED
      BY <3>2, <3>3
  <2>4. \A d \in Ids : daemons[d].state # "none" => daemons'[d].state # "none"
    BY <2>1 DEF Dead, Unborn
  <2> QED
    BY <1>t, <2>1, <2>2, <2>3, <2>4, Ends
<1>12. ASSUME NEW c \in Clis, Kill(c) PROVE DInv'
  <2>1. /\ cli' = [cli EXCEPT ![c] = Idle] /\ UNCHANGED sock
        /\ disturbed' \in BOOLEAN
        /\ daemons' = [d \in Ids |-> IF daemons[d].owner = c
                                     THEN [daemons[d] EXCEPT !.owner = None]
                                     ELSE daemons[d]]
    BY <1>12 DEF Kill
  <2>2. ASSUME NEW d \in Ids
        PROVE  /\ daemons'[d] \in DaemonRec
               /\ daemons'[d].state = daemons[d].state
               /\ daemons'[d].kind = daemons[d].kind
               /\ daemons'[d].owner # c
               /\ \/ daemons'[d].owner = daemons[d].owner
                  \/ daemons'[d].owner = None /\ daemons[d].owner = c
    <3>1. CASE daemons[d].owner = c
      <4>1. daemons'[d] = [daemons[d] EXCEPT !.owner = None]
        BY <2>1, <3>1
      <4> QED
        BY <1>t, <3>1, <4>1, DaemonsAssumption DEF DaemonRec
    <3>2. CASE daemons[d].owner # c
      BY <1>t, <2>1, <3>2
    <3> QED
      BY <3>1, <3>2
  <2>3. daemons' \in [Ids -> DaemonRec]
    BY <2>1, <2>2
  <2>4. \A d \in Ids : Alive(d)' => Alive(d)
    BY <2>2 DEF Alive
  <2> QED
    BY <2>1, <2>2, <2>3, <2>4, Ends
<1>13. ASSUME NEW d \in Ids, KeyServes(d) \/ PayServes(d) PROVE DInv'
  <2> DEFINE r == [daemons[d] EXCEPT !.state = "serving"]
  <2>1. PICK k \in Kinds : /\ sock' = [sock EXCEPT ![k] = d]
                           /\ daemons' = [daemons EXCEPT ![d] = r]
                           /\ Alive(d) /\ UNCHANGED <<cli, disturbed>>
    BY <1>13 DEF KeyServes, PayServes, Bind, Alive, Kinds
  <2>2. /\ r \in DaemonRec /\ r.state = "serving"
        /\ r.owner = daemons[d].owner /\ r.kind = daemons[d].kind
    BY <1>t DEF DaemonRec, States
  <2>3. sock' \in [Kinds -> 0..MaxDaemons]
    BY <1>t, <2>1 DEF Ids
  <2> HIDE DEF r
  <2> QED
    BY <1>t, <2>1, <2>2, <2>3, Lives
<1>14. ASSUME NEW d \in Ids, PayConnects(d) PROVE DInv'
  <2> DEFINE r == [daemons[d] EXCEPT !.state = "opening", !.link = sock["key"]]
  <2>1. /\ daemons' = [daemons EXCEPT ![d] = r] /\ Alive(d)
        /\ UNCHANGED <<cli, sock, disturbed>>
    BY <1>14 DEF PayConnects, Alive
  <2>2. /\ r \in DaemonRec /\ r.state = "opening"
        /\ r.owner = daemons[d].owner /\ r.kind = daemons[d].kind
    BY <1>t DEF DaemonRec, States, Kinds
  <2> HIDE DEF r
  <2> QED
    BY <1>t, <2>1, <2>2, Lives
<1>15. ASSUME NEW d \in Ids, PayFails(d) \/ Crash(d) PROVE DInv'
  <2>1. /\ daemons' = [daemons EXCEPT ![d] = Dead]
        /\ UNCHANGED <<cli, sock>> /\ disturbed' \in BOOLEAN
    BY <1>15, <1>t DEF PayFails, Crash
  <2>2. /\ Dead.state # "none"
        /\ Dead.state \notin {"starting", "opening", "serving"}
    BY DEF Dead, Unborn
  <2>3. Dead \in DaemonRec
    BY Records
  <2>4. sock' \in [Kinds -> 0..MaxDaemons]
    BY <1>t, <2>1
  <2> QED
    BY <2>1, <2>2, <2>3, <2>4, Lives
<1>16. CASE UNCHANGED vars
  BY <1>16 DEF vars, DInv, TypeOK, Guarded, NotYet, NoOrphans, Alive
<1> QED
  BY <1>1, <1>2, <1>3, <1>4, <1>5, <1>6, <1>7, <1>8, <1>9, <1>10, <1>11,
     <1>12, <1>13, <1>14, <1>15, <1>16 DEF Next, Step

-----------------------------------------------------------------------------
(* As long as nothing disturbs: one pair of daemons                        *)

\* c has daemons of its own.
Holds(c) == cli[c].guard["key"] # 0 \/ cli[c].guard["pay"] # 0

\* The paypunkd of c serves at the socket.
PayUp(c) == /\ cli[c].guard["pay"] # 0
            /\ sock["pay"] = cli[c].guard["pay"]
            /\ daemons[sock["pay"]].state = "serving"

\* c has launched a key service and has not begun to take it down.
Launched(c) == \/ cli[c].step \in {"wait_key", "pay", "wait_pay"}
               \/ cli[c].step \in {"connect", "run"} /\ Holds(c)

\* The pair of c, as far as it has come.
PairOf(c) ==
    /\ cli[c].guard["key"] # 0 /\ Alive(cli[c].guard["key"])
    /\ sock["key"] # 0 \/ cli[c].step # "wait_key" =>
          /\ sock["key"] = cli[c].guard["key"]
          /\ daemons[sock["key"]].state = "serving"
    /\ sock["pay"] # 0 \/ cli[c].step \in {"connect", "run"} => PayUp(c)
    /\ cli[c].step = "wait_pay" => cli[c].guard["pay"] # 0
    /\ cli[c].step = "run" => cli[c].conn = cli[c].guard["pay"]
    /\ (/\ cli[c].guard["pay"] # 0
        /\ daemons[cli[c].guard["pay"]].state \in {"opening", "serving"})
       => daemons[cli[c].guard["pay"]].link = cli[c].guard["key"]

Owned == \A d \in Ids : Alive(d) => daemons[d].owner # None

OneHolder == \A c, o \in Clis : Holds(c) /\ Holds(o) => c = o

OneStarter ==
    \A c, o \in Clis :
        cli[c].step \in Starting /\ cli[o].step \in Starting => c = o

AloneLaunching ==
    \A c, o \in Clis :
        cli[c].step \in Starting \ {"probe"} /\ Holds(o) => c = o

ProbeMeetsPay ==
    \A c, o \in Clis : cli[c].step = "probe" /\ Holds(o) => PayUp(o)

PairsAreOwn == \A c \in Clis : Launched(c) => PairOf(c)

Calm == /\ Owned /\ OneHolder /\ OneStarter /\ AloneLaunching
        /\ ProbeMeetsPay /\ PairsAreOwn

\* The inductive invariant of the starts that nothing disturbs.
CInv == DInv /\ (~disturbed => Calm)

LEMMA CInit == Init => CInv
<1> SUFFICES ASSUME Init PROVE Calm
  BY DInit DEF CInv
<1>1. \A c \in Clis : cli[c].step = "off" /\ ~Holds(c)
  BY DEF Init, Idle, NoChildren, Kinds, Holds
<1>2. \A d \in Ids : ~Alive(d)
  BY DEF Init, Unborn, Alive
<1> QED
  BY <1>1, <1>2 DEF Calm, Owned, OneHolder, OneStarter, AloneLaunching,
     ProbeMeetsPay, PairsAreOwn, Launched, Starting

\* A daemon that lives is in the guard of its owner.
LEMMA OwnerHolds ==
  ASSUME DInv, Owned, NEW d \in Ids, Alive(d)
  PROVE  /\ daemons[d].owner \in Clis /\ daemons[d].kind \in Kinds
         /\ cli[daemons[d].owner].guard[daemons[d].kind] = d
         /\ Holds(daemons[d].owner)
<1>1. /\ daemons[d].owner \in Clis /\ daemons[d].kind \in Kinds
      /\ cli[daemons[d].owner].guard[daemons[d].kind] = d
  BY DEF DInv, TypeOK, NoOrphans, Owned
<1> QED BY <1>1 DEF Kinds, Ids, Holds

\* A process moves on and keeps its guard, its daemons and the sockets.
LEMMA CalmMoves ==
  ASSUME Calm, NEW c \in Clis,
         \A o \in Clis \ {c} : cli'[o] = cli[o],
         cli'[c].guard = cli[c].guard, UNCHANGED <<daemons, sock>>,
         cli'[c].step \in Starting =>
            \/ cli[c].step \in Starting
            \/ \A o \in Clis : cli[o].step \notin Starting,
         cli'[c].step \in Starting \ {"probe"} =>
            \/ cli[c].step \in Starting \ {"probe"}
            \/ \A o \in Clis \ {c} : ~Holds(o),
         cli'[c].step = "probe" => \A o \in Clis : Holds(o) => PayUp(o),
         Launched(c)' => PairOf(c)'
  PROVE  Calm'
<1>1. \A o \in Clis : /\ cli'[o].guard = cli[o].guard
                      /\ Holds(o)' <=> Holds(o)
                      /\ PayUp(o)' <=> PayUp(o)
  BY DEF Holds, PayUp
<1>2. \A d : Alive(d)' <=> Alive(d)
  BY DEF Alive
<1>3. \A o \in Clis \ {c} : /\ Launched(o)' <=> Launched(o)
                            /\ PairOf(o)' <=> PairOf(o)
  <2> SUFFICES ASSUME NEW o \in Clis \ {c}
               PROVE  /\ Launched(o)' <=> Launched(o)
                      /\ PairOf(o)' <=> PairOf(o)
    OBVIOUS
  <2>1. cli'[o] = cli[o]
    OBVIOUS
  <2> QED BY <2>1, <1>1, <1>2 DEF Launched, PairOf
<1>4. Owned' /\ OneHolder'
  BY <1>1, <1>2 DEF Calm, Owned, OneHolder
<1>5. OneStarter'
  BY DEF Calm, OneStarter
<1>6. AloneLaunching'
  BY <1>1 DEF Calm, AloneLaunching
<1>7. ProbeMeetsPay'
  BY <1>1 DEF Calm, ProbeMeetsPay
<1>8. PairsAreOwn'
  BY <1>3 DEF Calm, PairsAreOwn
<1> QED BY <1>4, <1>5, <1>6, <1>7, <1>8 DEF Calm

\* A daemon that lives goes on, ends without having served, or serves.
LEMMA CalmLives ==
  ASSUME CInv, ~disturbed, NEW d \in Ids, Alive(d), UNCHANGED cli,
         \A e \in Ids \ {d} : daemons'[e] = daemons[e],
         Alive(d)' => /\ daemons'[d].owner = daemons[d].owner
                      /\ daemons'[d].kind = daemons[d].kind,
         daemons[d].kind = "key" => Alive(d)',
         daemons[d].state = "serving" => daemons'[d].state = "serving",
         daemons[d].kind = "pay" /\ daemons'[d].state \in {"opening", "serving"} =>
            \/ daemons[d].state \in {"opening", "serving"} /\ daemons'[d].link = daemons[d].link
            \/ Answers("key") /\ daemons'[d].link = sock["key"],
         \/ UNCHANGED sock
         \/ /\ sock' = [sock EXCEPT ![daemons[d].kind] = d]
            /\ daemons'[d].state = "serving"
  PROVE  Calm'
<1>t. /\ DInv /\ Calm /\ TypeOK /\ MaxDaemons \in Nat
  BY DaemonsAssumption DEF CInv, DInv
<1>0. PICK c \in Clis : /\ Holds(c) /\ daemons[d].kind \in Kinds
                        /\ cli[c].guard[daemons[d].kind] = d
  BY <1>t, OwnerHolds DEF Calm
<1>1. \A o \in Clis \ {c} : ~Holds(o) /\ ~Launched(o)
  BY <1>t, <1>0 DEF Calm, OneHolder, PairsAreOwn, Launched, PairOf, Holds
<1>2. \A o \in Clis : (Holds(o)' <=> Holds(o)) /\ (Launched(o)' <=> Launched(o))
  BY DEF Holds, Launched
<1>3. Owned'
  BY <1>t DEF Calm, Owned, Alive
<1>4. OneHolder' /\ OneStarter' /\ AloneLaunching'
  BY <1>t, <1>2 DEF Calm, OneHolder, OneStarter, AloneLaunching
<1>d. d # 0 /\ "key" # "pay"
  BY DEF Ids
<1>g. cli[c].guard \in [Kinds -> 0..MaxDaemons] /\ sock \in [Kinds -> 0..MaxDaemons]
  BY <1>t DEF TypeOK
<1>5. PayUp(c) => PayUp(c)'
  <2> SUFFICES ASSUME PayUp(c) PROVE PayUp(c)'
    OBVIOUS
  <2>1. sock["pay"] \in Ids
    BY <1>g, <1>t DEF PayUp, Ids, Kinds
  <2>2. daemons'[sock["pay"]].state = "serving"
    BY <2>1 DEF PayUp
  <2>3. sock'["pay"] = sock["pay"]
    BY <1>g, <1>0 DEF PayUp, Kinds
  <2> QED BY <2>2, <2>3 DEF PayUp
<1>6. ProbeMeetsPay'
  BY <1>t, <1>1, <1>2, <1>5 DEF Calm, ProbeMeetsPay
<1>7. PairsAreOwn'
  <2> SUFFICES ASSUME Launched(c) PROVE PairOf(c)'
    BY <1>1, <1>2 DEF PairsAreOwn
  <2>1. PairOf(c)
    BY <1>t DEF Calm, PairsAreOwn
  <2> DEFINE k == cli[c].guard["key"]
             p == cli[c].guard["pay"]
  <2>2. k \in Ids /\ (p # 0 => p \in Ids) /\ k # p
    <3>1. k \in Ids /\ (p # 0 => p \in Ids)
      BY <1>g, <1>t, <2>1 DEF PairOf, Ids, Kinds
    <3>2. k # p
      BY <1>t, <2>1, <3>1 DEF DInv, Guarded, PairOf, Kinds
    <3> QED BY <3>1, <3>2
  <2>3. Alive(k) /\ Alive(k)' /\ daemons[k].kind = "key"
    BY <1>t, <2>1, <2>2 DEF DInv, Guarded, PairOf, Kinds, Alive
  <2>4. /\ sock'["key"] # 0 \/ cli[c].step # "wait_key" =>
             sock'["key"] = k /\ daemons'[k].state = "serving"
    BY <1>0, <1>g, <2>1, <2>2, <2>3 DEF PairOf, Kinds
  <2>5. sock'["pay"] # 0 \/ cli[c].step \in {"connect", "run"} => PayUp(c)'
    <3>1. CASE PayUp(c)
      BY <3>1, <1>5
    <3>2. CASE ~PayUp(c)
      <4>1. sock["pay"] = 0 /\ cli[c].step \notin {"connect", "run"}
        BY <3>2, <2>1 DEF PairOf
      <4>2. CASE sock'["pay"] # 0
        <5>1. sock'["pay"] = d /\ p = d /\ daemons'[d].state = "serving"
          BY <4>1, <4>2, <1>0, <1>g DEF Kinds
        <5> QED BY <5>1, <1>d DEF PayUp
      <4> QED BY <4>1, <4>2
    <3> QED BY <3>1, <3>2
  <2>6. p # 0 /\ daemons'[p].state \in {"opening", "serving"} =>
          daemons'[p].link = k
    <3> SUFFICES ASSUME p # 0, daemons'[p].state \in {"opening", "serving"}
                 PROVE  daemons'[p].link = k
      OBVIOUS
    <3>1. CASE p # d
      BY <3>1, <2>1, <2>2 DEF PairOf
    <3>2. CASE p = d
      <4>1. daemons[d].kind = "pay"
        BY <3>2, <1>t DEF DInv, Guarded, Kinds
      <4> QED BY <4>1, <3>2, <2>1 DEF PairOf, Answers
    <3> QED BY <3>1, <3>2
  <2> QED BY <2>1, <2>3, <2>4, <2>5, <2>6 DEF PairOf
<1> QED BY <1>3, <1>4, <1>6, <1>7 DEF Calm

\* A process takes down daemons of its own, and no others.
LEMMA CalmEnds ==
  ASSUME CInv, ~disturbed, NEW c \in Clis,
         \A o \in Clis \ {c} : cli'[o] = cli[o],
         cli'[c].step \in {"off", "drop"}, UNCHANGED sock,
         \A e \in Ids : \/ daemons'[e] = daemons[e]
                        \/ ~Alive(e)' /\ \E k \in Kinds : cli[c].guard[k] = e,
         Holds(c)' => Holds(c),
         Holds(c)' /\ PayUp(c) =>
            /\ cli'[c].guard["pay"] = cli[c].guard["pay"]
            /\ daemons'[cli[c].guard["pay"]] = daemons[cli[c].guard["pay"]]
  PROVE  Calm'
<1>t. /\ DInv /\ Calm /\ TypeOK /\ MaxDaemons \in Nat
  BY DaemonsAssumption DEF CInv, DInv
<1>g. \A o \in Clis, k \in Kinds : cli[o].guard[k] # 0 => cli[o].guard[k] \in Ids
  BY <1>t DEF TypeOK, Ids
<1>0. \A o \in Clis \ {c} : (Holds(o)' <=> Holds(o)) /\ (Launched(o)' <=> Launched(o))
  BY DEF Holds, Launched
<1>1. \A o \in Clis : Holds(o)' => Holds(o)
  BY <1>0
<1>2. ~Launched(c)'
  BY DEF Launched
<1>3. ASSUME NEW o \in Clis \ {c}, Holds(o)
      PROVE  \A e \in Ids : daemons'[e] = daemons[e]
  <2>1. ~Holds(c)
    BY <1>t, <1>3 DEF Calm, OneHolder
  <2> QED BY <2>1 DEF Holds, Kinds, Ids
<1>4. Owned'
  BY <1>t DEF Calm, Owned, Alive
<1>5. OneHolder'
  BY <1>t, <1>1 DEF Calm, OneHolder
<1>6. OneStarter' /\ AloneLaunching'
  BY <1>t, <1>1 DEF Calm, OneStarter, AloneLaunching, Starting
<1>7. ProbeMeetsPay'
  <2> SUFFICES ASSUME NEW x \in Clis, NEW o \in Clis,
                      cli'[x].step = "probe", Holds(o)'
               PROVE  PayUp(o)'
    BY DEF ProbeMeetsPay
  <2>1. PayUp(o) /\ cli[o].guard["pay"] \in Ids
    BY <1>1, <1>g, <1>t DEF Calm, ProbeMeetsPay, PayUp, Kinds
  <2>2. CASE o = c
    BY <2>1, <2>2 DEF PayUp
  <2>3. CASE o # c
    <3>1. daemons'[cli[o].guard["pay"]] = daemons[cli[o].guard["pay"]]
      BY <1>0, <1>3, <2>1, <2>3
    <3> QED BY <2>1, <2>3, <3>1 DEF PayUp
  <2> QED BY <2>2, <2>3
<1>8. PairsAreOwn'
  <2> SUFFICES ASSUME NEW o \in Clis, Launched(o)'
               PROVE  PairOf(o)'
    BY DEF PairsAreOwn
  <2>1. o # c /\ Launched(o) /\ cli'[o] = cli[o]
    BY <1>0, <1>2
  <2>2. PairOf(o) /\ Holds(o)
    BY <1>t, <2>1 DEF Calm, PairsAreOwn, PairOf, Holds
  <2>3. /\ cli[o].guard["key"] \in Ids
        /\ cli[o].guard["pay"] # 0 => cli[o].guard["pay"] \in Ids
    BY <1>g, <2>2 DEF PairOf, Kinds
  <2>4. /\ daemons'[cli[o].guard["key"]] = daemons[cli[o].guard["key"]]
        /\ cli[o].guard["pay"] # 0 =>
              daemons'[cli[o].guard["pay"]] = daemons[cli[o].guard["pay"]]
    BY <1>3, <2>1, <2>2, <2>3
  <2> QED BY <2>1, <2>2, <2>4 DEF PairOf, PayUp, Alive
<1> QED BY <1>4, <1>5, <1>6, <1>7, <1>8 DEF Calm

\* What a spawn does, pointwise.
LEMMA SpawnFacts ==
  ASSUME DInv, NEW c \in Clis, NEW k \in Kinds, NEW s \in Steps, Spawn(c, k, s)
  PROVE  \E d \in Ids :
            /\ daemons[d].state = "none" /\ ~Alive(d)
            /\ daemons'[d] = [kind |-> k, owner |-> c, state |-> "starting",
                              link |-> 0]
            /\ \A e \in Ids \ {d} : daemons'[e] = daemons[e]
            /\ cli'[c].step = s /\ cli'[c].guard[k] = d
            /\ \A h \in Kinds \ {k} : cli'[c].guard[h] = cli[c].guard[h]
            /\ \A o \in Clis \ {c} : cli'[o] = cli[o]
<1>1. PICK d \in Ids :
        /\ daemons[d].state = "none"
        /\ daemons' = [daemons EXCEPT ![d] =
              [kind |-> k, owner |-> c, state |-> "starting", link |-> 0]]
        /\ cli' = [cli EXCEPT ![c].step = s, ![c].guard[k] = d]
  BY DEF Spawn, Child
<1>2. cli \in [Clis -> CliRec] /\ daemons \in [Ids -> DaemonRec]
  BY DEF DInv, TypeOK, CliRec, DaemonRec
<1>3. /\ cli'[c].step = s
      /\ cli'[c].guard = [cli[c].guard EXCEPT ![k] = d]
      /\ \A o \in Clis \ {c} : cli'[o] = cli[o]
  BY <1>1, <1>2 DEF CliRec
<1>4. /\ cli'[c].guard[k] = d
      /\ \A h \in Kinds \ {k} : cli'[c].guard[h] = cli[c].guard[h]
  BY <1>2, <1>3 DEF CliRec
<1> QED BY <1>1, <1>2, <1>3, <1>4 DEF Alive

\* A key service is launched when no process has daemons.
LEMMA CalmKey ==
  ASSUME CInv, ~disturbed, NEW c \in Clis, LaunchKey(c)
  PROVE  Calm'
<1>t. DInv /\ Calm /\ TypeOK /\ None \notin Clis
  BY DaemonsAssumption DEF CInv, DInv
<1>1. PICK d \in Ids :
            /\ daemons[d].state = "none" /\ ~Alive(d)
            /\ daemons'[d] = [kind |-> "key", owner |-> c, state |-> "starting",
                              link |-> 0]
            /\ \A e \in Ids \ {d} : daemons'[e] = daemons[e]
            /\ cli'[c].step = "wait_key" /\ cli'[c].guard["key"] = d
            /\ cli'[c].guard["pay"] = cli[c].guard["pay"]
            /\ \A o \in Clis \ {c} : cli'[o] = cli[o]
  <2>1. Spawn(c, "key", "wait_key") /\ "key" \in Kinds /\ "wait_key" \in Steps
    BY DEF LaunchKey, Kinds, Steps
  <2>2. "pay" \in Kinds \ {"key"}
    BY DEF Kinds
  <2> QED BY <1>t, <2>1, <2>2, SpawnFacts
<1>2. /\ cli[c].step = "key" /\ sock'["key"] = 0 /\ sock'["pay"] = 0
      /\ cli[c].guard["key"] = 0 /\ cli[c].guard["pay"] = 0
  BY <1>t DEF LaunchKey, DInv, NotYet, NoChildren, Kinds
<1>3. \A o \in Clis : /\ ~Holds(o)
                      /\ o # c => ~Holds(o)' /\ cli[o].step \notin Starting
  BY <1>1, <1>2, <1>t
  DEF Holds, Calm, AloneLaunching, OneStarter, Starting
<1>4. \A e \in Ids : ~Alive(e)
  BY <1>t, <1>3, OwnerHolds DEF Calm
<1>5. Owned'
  BY <1>1, <1>4, <1>t DEF Owned, Alive
<1>6. OneHolder' /\ AloneLaunching'
  BY <1>1, <1>3 DEF OneHolder, AloneLaunching
<1>7. OneStarter'
  BY <1>1, <1>3 DEF OneStarter
<1>8. ProbeMeetsPay'
  BY <1>1, <1>3 DEF ProbeMeetsPay, Starting
<1>9. PairsAreOwn'
  <2>1. \A o \in Clis \ {c} : ~Launched(o)'
    BY <1>1, <1>3 DEF Launched, Starting
  <2>2. PairOf(c)'
    BY <1>1, <1>2 DEF PairOf, Alive, Ids
  <2> QED BY <2>1, <2>2 DEF PairsAreOwn
<1> QED BY <1>5, <1>6, <1>7, <1>8, <1>9 DEF Calm

\* A paypunkd is launched when its process has a key service and no other
\* process has daemons.
LEMMA CalmPay ==
  ASSUME CInv, ~disturbed, NEW c \in Clis, LaunchPay(c)
  PROVE  Calm'
<1>t. DInv /\ Calm /\ TypeOK /\ None \notin Clis /\ MaxDaemons \in Nat
  BY DaemonsAssumption DEF CInv, DInv
<1>1. PICK d \in Ids :
            /\ daemons[d].state = "none" /\ ~Alive(d)
            /\ daemons'[d] = [kind |-> "pay", owner |-> c, state |-> "starting",
                              link |-> 0]
            /\ \A e \in Ids \ {d} : daemons'[e] = daemons[e]
            /\ cli'[c].step = "wait_pay" /\ cli'[c].guard["pay"] = d
            /\ cli'[c].guard["key"] = cli[c].guard["key"]
            /\ \A o \in Clis \ {c} : cli'[o] = cli[o]
  <2>1. Spawn(c, "pay", "wait_pay") /\ "pay" \in Kinds /\ "wait_pay" \in Steps
    BY DEF LaunchPay, Kinds, Steps
  <2>2. "key" \in Kinds \ {"pay"}
    BY DEF Kinds
  <2> QED BY <1>t, <2>1, <2>2, SpawnFacts
<1>2. cli[c].step = "pay" /\ UNCHANGED sock /\ cli[c].guard["pay"] = 0
  BY <1>t DEF LaunchPay, DInv, NotYet
<1>p. PairOf(c) /\ sock["pay"] = 0 /\ Holds(c)
  BY <1>t, <1>2 DEF Calm, PairsAreOwn, Launched, PairOf, PayUp, Holds
<1>k. cli[c].guard["key"] \in Ids \ {d}
  <2>1. cli[c].guard["key"] \in Ids
    BY <1>p, <1>t DEF PairOf, TypeOK, Ids, Kinds
  <2> QED BY <2>1, <1>1, <1>p DEF PairOf
<1>3. \A o \in Clis \ {c} : /\ ~Holds(o) /\ ~Holds(o)'
                            /\ cli[o].step \notin Starting
  BY <1>1, <1>2, <1>p, <1>t DEF Holds, Calm, OneHolder, OneStarter, Starting
<1>5. Owned'
  BY <1>1, <1>t DEF Calm, Owned, Alive
<1>6. OneHolder' /\ AloneLaunching'
  BY <1>1, <1>3 DEF OneHolder, AloneLaunching
<1>7. OneStarter'
  BY <1>1, <1>3 DEF OneStarter
<1>8. ProbeMeetsPay'
  BY <1>1, <1>3 DEF ProbeMeetsPay, Starting
<1>9. PairsAreOwn'
  <2>1. \A o \in Clis \ {c} : ~Launched(o)'
    BY <1>1, <1>3 DEF Launched, Starting
  <2>2. PairOf(c)'
    BY <1>1, <1>2, <1>p, <1>k DEF PairOf, Alive, Ids
  <2> QED BY <2>1, <2>2 DEF PairsAreOwn
<1> QED BY <1>5, <1>6, <1>7, <1>8, <1>9 DEF Calm

\* What Go does, pointwise.
LEMMA GoFacts ==
  ASSUME DInv, NEW c \in Clis, NEW s, Go(c, s)
  PROVE  /\ cli'[c].step = s /\ cli'[c].guard = cli[c].guard
         /\ cli'[c].conn = cli[c].conn
         /\ \A o \in Clis \ {c} : cli'[o] = cli[o]
  BY DEF Go, DInv, TypeOK

\* Every step that does not disturb preserves the invariant.
LEMMA CStep == CInv /\ [Next]_vars => CInv'
<1> SUFFICES ASSUME CInv, [Next]_vars, ~disturbed' PROVE Calm'
  BY DStep DEF CInv
<1>t. DInv /\ TypeOK /\ NotYet /\ MaxDaemons \in Nat
  BY DaemonsAssumption DEF CInv, DInv
<1>d. ~disturbed
  BY <1>t DEF Next, Step, vars, TypeOK, Start, Probe, LaunchKey, WaitKey,
     LaunchPay, WaitPay, TimeOut, Connect, Exit, Drop, Interrupt, Kill,
     KeyServes, PayServes, Bind, PayConnects, PayFails, Crash
<1>c. Calm
  BY <1>d DEF CInv
<1>f. cli \in [Clis -> CliRec] /\ daemons \in [Ids -> DaemonRec]
      /\ sock \in [Kinds -> 0..MaxDaemons]
  BY <1>t DEF TypeOK, CliRec, DaemonRec
<1>1. ASSUME NEW c \in Clis, Start(c) PROVE Calm'
  <2>1. /\ cli[c].step = "off" /\ ~Holds(c) /\ UNCHANGED <<daemons, sock>>
    BY <1>1, <1>t DEF Start, NotYet, Holds
  <2>2. CASE Go(c, "connect")
    <3>1. ~Launched(c)'
      BY <2>1, <2>2, <1>t, GoFacts DEF Launched, Holds
    <3> QED BY <2>1, <2>2, <3>1, <1>c, <1>t, GoFacts, CalmMoves DEF Starting
  <2>3. CASE Go(c, "probe") /\ ~Go(c, "connect")
    <3>1. \A o \in Clis : cli[o].step \notin Starting \cup {"drop"}
      BY <1>1, <2>3 DEF Start
    <3>2. ASSUME NEW o \in Clis, Holds(o) PROVE PayUp(o)
      <4>1. cli[o].step \in Steps /\ cli[o].step # "off"
        BY <3>2, <1>t DEF TypeOK, NotYet, Holds
      <4>2. Launched(o) /\ cli[o].step \in {"connect", "run"}
        BY <4>1, <3>1, <3>2 DEF Launched, Steps, Starting
      <4> QED BY <4>2, <1>c DEF Calm, PairsAreOwn, PairOf
    <3>3. ~Launched(c)'
      BY <2>3, <1>t, GoFacts DEF Launched
    <3> QED BY <2>1, <2>3, <3>1, <3>2, <3>3, <1>c, <1>t, GoFacts, CalmMoves
  <2> QED BY <1>1, <2>2, <2>3 DEF Start
<1>2. ASSUME NEW c \in Clis, Probe(c) PROVE Calm'
  <2>1. /\ cli[c].step = "probe" /\ ~Holds(c) /\ UNCHANGED daemons
    BY <1>2, <1>t DEF Probe, NotYet, Holds
  <2>2. CASE Go(c, "connect") /\ UNCHANGED sock
    <3>1. ~Launched(c)'
      BY <2>1, <2>2, <1>t, GoFacts DEF Launched, Holds
    <3> QED BY <2>1, <2>2, <3>1, <1>c, <1>t, GoFacts, CalmMoves DEF Starting
  <2>3. CASE Go(c, "key") /\ ~Answers("pay")
    <3>1. \A o \in Clis : ~Holds(o)
      BY <2>1, <2>3, <1>c DEF Calm, ProbeMeetsPay, PayUp, Answers
    <3>2. /\ cli'[c].step = "key" /\ \A o \in Clis : cli'[o].guard = cli[o].guard
          /\ \A o \in Clis \ {c} : cli'[o].step = cli[o].step
      BY <2>3, <1>t, GoFacts
    <3>3. \A o \in Clis : ~Holds(o)'
      BY <3>1, <3>2 DEF Holds
    <3>4. \A o \in Clis : ~Launched(o)'
      BY <3>1, <3>2, <1>c DEF Launched, Calm, PairsAreOwn, PairOf, Holds
    <3>5. Owned' /\ OneStarter'
      BY <2>1, <3>2, <1>c DEF Owned, Alive, OneStarter, Calm, Starting
    <3> QED BY <3>3, <3>4, <3>5 DEF Calm, OneHolder, AloneLaunching,
               ProbeMeetsPay, PairsAreOwn
  <2> QED BY <1>2, <1>t, <2>2, <2>3 DEF Probe, TypeOK
<1>3. ASSUME NEW c \in Clis, LaunchKey(c) PROVE Calm'
  BY <1>3, <1>d, CalmKey
<1>4. ASSUME NEW c \in Clis, WaitKey(c) PROVE Calm'
  <2>1. /\ cli[c].step = "wait_key" /\ sock["key"] # 0 /\ Go(c, "pay")
        /\ UNCHANGED <<daemons, sock, disturbed>> /\ cli[c].guard["pay"] = 0
    BY <1>4, <1>t DEF WaitKey, NotYet
  <2>2. PairOf(c)
    BY <2>1, <1>c DEF Calm, PairsAreOwn, Launched
  <2>3. PairOf(c)'
    BY <2>1, <2>2, <1>t, GoFacts DEF PairOf, PayUp, Alive
  <2> QED BY <2>1, <2>3, <1>c, <1>t, GoFacts, CalmMoves DEF Starting
<1>5. ASSUME NEW c \in Clis, LaunchPay(c) PROVE Calm'
  BY <1>5, <1>d, CalmPay
<1>6. ASSUME NEW c \in Clis, WaitPay(c) PROVE Calm'
  <2>1. /\ cli[c].step = "wait_pay" /\ sock["pay"] # 0 /\ Go(c, "connect")
        /\ UNCHANGED <<daemons, sock, disturbed>>
    BY <1>6 DEF WaitPay
  <2>2. PairOf(c)
    BY <2>1, <1>c DEF Calm, PairsAreOwn, Launched
  <2>3. PairOf(c)'
    BY <2>1, <2>2, <1>t, GoFacts DEF PairOf, PayUp, Alive
  <2> QED BY <2>1, <2>3, <1>c, <1>t, GoFacts, CalmMoves DEF Starting
<1>7. ASSUME NEW c \in Clis, Connect(c) PROVE Calm'
  <2>1. /\ cli[c].step = "connect" /\ UNCHANGED <<daemons, sock, disturbed>>
        /\ cli'[c].step = "run" /\ cli'[c].conn = sock["pay"]
        /\ cli'[c].guard = cli[c].guard
        /\ \A o \in Clis \ {c} : cli'[o] = cli[o]
    BY <1>7, <1>f DEF Connect, CliRec
  <2>2. ASSUME Launched(c)' PROVE PairOf(c)'
    <3>1. PairOf(c)
      BY <2>1, <2>2, <1>c DEF Calm, PairsAreOwn, Launched, Holds
    <3> QED BY <2>1, <3>1 DEF PairOf, PayUp, Alive
  <2> QED BY <2>1, <2>2, <1>c, CalmMoves DEF Starting
<1>8. ASSUME NEW c \in Clis, TimeOut(c) PROVE Calm'
  <2>1. Go(c, "drop") /\ UNCHANGED <<daemons, sock, disturbed>>
    BY <1>8 DEF TimeOut
  <2>2. ~Launched(c)'
    BY <2>1, <1>t, GoFacts DEF Launched
  <2> QED BY <2>1, <2>2, <1>c, <1>t, GoFacts, CalmMoves DEF Starting
<1>9. ASSUME NEW c \in Clis, Exit(c) PROVE Calm'
  <2>1. /\ UNCHANGED <<daemons, sock, disturbed>>
        /\ cli'[c].step = "drop" /\ cli'[c].guard = cli[c].guard
        /\ \A o \in Clis \ {c} : cli'[o] = cli[o]
    BY <1>9, <1>f DEF Exit, CliRec
  <2>2. ~Launched(c)'
    BY <2>1 DEF Launched
  <2> QED BY <2>1, <2>2, <1>c, CalmMoves DEF Starting
<1>10. ASSUME NEW c \in Clis, Drop(c) PROVE Calm'
  <2>1. cli[c].step = "drop" /\ UNCHANGED <<sock, disturbed>>
    BY <1>10 DEF Drop
  <2>2. PICK k \in Kinds, d \in 0..MaxDaemons :
          /\ k = IF cli[c].guard["key"] # 0 THEN "key" ELSE "pay"
          /\ d = cli[c].guard[k]
    BY <1>f DEF Kinds, CliRec
  <2>3. CASE d = 0
    <3>1. cli' = [cli EXCEPT ![c] = Idle] /\ UNCHANGED daemons
      BY <1>10, <2>2, <2>3 DEF Drop
    <3>2. cli'[c] = Idle /\ \A o \in Clis \ {c} : cli'[o] = cli[o]
      BY <3>1, <1>f
    <3>3. cli'[c].step = "off" /\ ~Holds(c)'
      BY <3>2 DEF Idle, NoChildren, Holds, Kinds
    <3> QED BY <2>1, <3>1, <3>2, <3>3, <1>d, CalmEnds
  <2>4. CASE d # 0
    <3>1. /\ cli' = [cli EXCEPT ![c].guard[k] = 0] /\ d \in Ids
          /\ daemons' = [daemons EXCEPT ![d] = Dead]
      BY <1>10, <2>2, <2>4 DEF Drop, Ids
    <3>2. /\ \A e \in Ids \ {d} : daemons'[e] = daemons[e]
          /\ daemons'[d] = Dead
      BY <3>1, <1>f
    <3>3. ~Alive(d)'
      BY <3>2 DEF Alive, Dead, Unborn
    <3>4. /\ cli'[c].step = "drop" /\ cli'[c].guard[k] = 0
          /\ \A h \in Kinds \ {k} : cli'[c].guard[h] = cli[c].guard[h]
          /\ \A o \in Clis \ {c} : cli'[o] = cli[o]
      <4>1. /\ cli'[c] = [cli[c] EXCEPT !.guard = [cli[c].guard EXCEPT ![k] = 0]]
            /\ \A o \in Clis \ {c} : cli'[o] = cli[o]
        BY <3>1, <1>f
      <4>2. /\ cli'[c].step = cli[c].step
            /\ cli'[c].guard = [cli[c].guard EXCEPT ![k] = 0]
        BY <4>1, <1>f DEF CliRec
      <4> QED BY <4>1, <4>2, <1>f, <2>1, <2>2 DEF CliRec
    <3>5. Holds(c)' => Holds(c)
      BY <2>2, <2>4 DEF Holds
    <3>6. ASSUME Holds(c)', PayUp(c)
          PROVE  /\ cli'[c].guard["pay"] = cli[c].guard["pay"]
                 /\ daemons'[cli[c].guard["pay"]] = daemons[cli[c].guard["pay"]]
      <4>1. k = "key"
        BY <3>4, <3>6, <2>2 DEF Holds, Kinds
      <4>2. cli'[c].guard["pay"] = cli[c].guard["pay"]
        BY <4>1, <3>4 DEF Kinds
      <4>3. cli[c].guard["pay"] \in Ids /\ Alive(cli[c].guard["pay"])
        BY <3>6, <1>f DEF PayUp, Alive, Ids, CliRec, Kinds
      <4>4. cli[c].guard["pay"] # d
        BY <2>2, <4>1, <4>3, <1>t DEF DInv, Guarded, Kinds
      <4> QED BY <4>2, <4>3, <4>4, <3>2
    <3> QED BY <2>1, <2>2, <3>1, <3>2, <3>3, <3>4, <3>5, <3>6, <1>d, CalmEnds
  <2> QED BY <2>3, <2>4
<1>11. ASSUME NEW c \in Clis, Interrupt(c) PROVE Calm'
  <2>1. /\ cli' = [cli EXCEPT ![c] = Idle] /\ UNCHANGED <<sock, disturbed>>
        /\ daemons' = [d \in Ids |-> IF d \in Children(c) THEN Dead
                                     ELSE daemons[d]]
    BY <1>11 DEF Interrupt
  <2>2. cli'[c] = Idle /\ \A o \in Clis \ {c} : cli'[o] = cli[o]
    BY <2>1, <1>f
  <2>3. cli'[c].step = "off" /\ ~Holds(c)'
    BY <2>2 DEF Idle, NoChildren, Holds, Kinds
  <2>4. ASSUME NEW e \in Ids
        PROVE  \/ daemons'[e] = daemons[e]
               \/ ~Alive(e)' /\ \E k \in Kinds : cli[c].guard[k] = e
    BY <2>1 DEF Children, Alive, Dead, Unborn
  <2> QED BY <2>1, <2>2, <2>3, <2>4, <1>d, CalmEnds
<1>12. ASSUME NEW d \in Ids, KeyServes(d) \/ PayServes(d) PROVE Calm'
  <2>1. PICK k \in Kinds, from \in {"starting", "opening"} :
           Bind(d, k, from) /\ (from = "starting" => k = "key")
    BY <1>12 DEF KeyServes, PayServes, Kinds
  <2>2. /\ UNCHANGED cli /\ Alive(d)
        /\ daemons'[d].state = "serving" /\ daemons'[d].link = daemons[d].link
        /\ daemons'[d].owner = daemons[d].owner
        /\ daemons'[d].kind = daemons[d].kind
        /\ \A e \in Ids \ {d} : daemons'[e] = daemons[e]
        /\ sock' = [sock EXCEPT ![daemons[d].kind] = d]
    BY <2>1, <1>f DEF Bind, DaemonRec, Alive
  <2>3. daemons[d].kind = "pay" => daemons[d].state = "opening"
    BY <2>1 DEF Bind
  <2>4. Alive(d)'
    BY <2>2 DEF Alive
  <2> QED BY <2>2, <2>3, <2>4, <1>d, CalmLives
<1>13. ASSUME NEW d \in Ids, PayConnects(d) PROVE Calm'
  <2>1. /\ UNCHANGED <<cli, sock>> /\ Alive(d) /\ Answers("key")
        /\ daemons[d].state = "starting"
        /\ daemons'[d].state = "opening" /\ daemons'[d].link = sock["key"]
        /\ daemons'[d].owner = daemons[d].owner
        /\ daemons'[d].kind = daemons[d].kind
        /\ \A e \in Ids \ {d} : daemons'[e] = daemons[e]
    BY <1>13, <1>f DEF PayConnects, DaemonRec, Alive
  <2>2. Alive(d)'
    BY <2>1 DEF Alive
  <2> QED BY <2>1, <2>2, <1>d, CalmLives
<1>14. ASSUME NEW d \in Ids, PayFails(d) PROVE Calm'
  <2>1. /\ UNCHANGED <<cli, sock>> /\ daemons[d].kind = "pay"
        /\ daemons[d].state \in {"starting", "opening"}
        /\ daemons'[d] = Dead
        /\ \A e \in Ids \ {d} : daemons'[e] = daemons[e]
    BY <1>14, <1>f DEF PayFails
  <2>2. Alive(d) /\ ~Alive(d)' /\ daemons'[d].state = "dead"
    BY <2>1 DEF Alive, Dead, Unborn
  <2> QED BY <2>1, <2>2, <1>d, CalmLives
<1>15. ASSUME NEW c \in Clis, Kill(c) PROVE Calm'
  BY <1>15 DEF Kill
<1>16. ASSUME NEW d \in Ids, Crash(d) PROVE Calm'
  BY <1>16 DEF Crash
<1>17. CASE UNCHANGED vars
  BY <1>17, <1>c DEF vars, Calm, Owned, OneHolder, OneStarter, AloneLaunching,
     ProbeMeetsPay, PairsAreOwn, Alive, Holds, PayUp, Launched, PairOf
<1> QED
  BY <1>1, <1>2, <1>3, <1>4, <1>5, <1>6, <1>7, <1>8, <1>9, <1>10, <1>11,
     <1>12, <1>13, <1>14, <1>15, <1>16, <1>17 DEF Next, Step

\* There is one pair of daemons, and it is the pair of who launched it.
LEMMA CalmOnePair == CInv => OnePair
<1> SUFFICES ASSUME CInv, ~disturbed
             PROVE  /\ \A d, e \in Ids :
                          /\ Alive(d) /\ Alive(e)
                          /\ daemons[d].kind = daemons[e].kind
                          => d = e
                    /\ \A c \in Clis : cli[c].step = "run" /\ Children(c) # {} =>
                          /\ cli[c].conn = cli[c].guard["pay"]
                          /\ Alive(cli[c].conn)
                          /\ daemons[cli[c].conn].link = cli[c].guard["key"]
                          /\ Alive(cli[c].guard["key"])
  BY DEF OnePair
<1>t. DInv /\ Calm
  BY DEF CInv
<1>1. ASSUME NEW d \in Ids, NEW e \in Ids, Alive(d), Alive(e),
             daemons[d].kind = daemons[e].kind
      PROVE  d = e
  <2>1. /\ cli[daemons[d].owner].guard[daemons[d].kind] = d
        /\ cli[daemons[e].owner].guard[daemons[e].kind] = e
        /\ daemons[d].owner = daemons[e].owner
    BY <1>1, <1>t, OwnerHolds DEF Calm, OneHolder
  <2> QED BY <2>1, <1>1
<1>2. ASSUME NEW c \in Clis, cli[c].step = "run", Children(c) # {}
      PROVE  /\ cli[c].conn = cli[c].guard["pay"]
             /\ Alive(cli[c].conn)
             /\ daemons[cli[c].conn].link = cli[c].guard["key"]
             /\ Alive(cli[c].guard["key"])
  <2>1. Holds(c)
    BY <1>2 DEF Children, Kinds, Holds
  <2>2. PairOf(c) /\ PayUp(c)
    BY <1>2, <2>1, <1>t DEF Calm, PairsAreOwn, Launched, PairOf
  <2> QED BY <1>2, <2>2 DEF PairOf, PayUp, Alive
<1> QED BY <1>1, <1>2

-----------------------------------------------------------------------------
(* Theorems                                                                *)

\* Every variable stays in its set.
THEOREM DaemonsTypeCorrect == Spec => []TypeOK
<1>1. DInv => TypeOK
  BY DEF DInv
<1> QED
  BY DInit, DStep, <1>1, PTL DEF Spec

\* However many `paypunk` processes start, fail, are interrupted and end at
\* once, and whatever daemons crash: a daemon that runs is in the guard of a
\* process that runs, unless that process was killed.
THEOREM DaemonsNoOrphans == Spec => []NoOrphans
<1>1. DInv => NoOrphans
  BY DEF DInv
<1> QED
  BY DInit, DStep, <1>1, PTL DEF Spec

\* As long as starts do not meet one another or the end of a session and no
\* daemon fails, any number of `paypunk` processes share one pair of daemons,
\* and who launched the pair runs with it, over whatever socket files earlier
\* daemons left.
THEOREM DaemonsOnePair == Spec => []OnePair
  BY CInit, CStep, CalmOnePair, PTL DEF Spec
=============================================================================

----------------------- MODULE SystemController_proofs -----------------------
(***************************************************************************)
(* What a server started is under its control: proofs for any ports and    *)
(* any number of starts and servers.                                       *)
(***************************************************************************)
EXTENDS SystemController, TLAPS

\* The numbers of the starts after the present one have not been used, and a
\* container belongs to a start whose `docker run' was spawned by its server;
\* no start was handled by a later server.
Used ==
    /\ \A p \in Process : p[1] > starts => proc[p] = "unborn"
    /\ \A s \in Server : box[s] # 0 =>
           /\ by[box[s]] = s
           /\ proc[<<box[s], "backtest_worker">>] # "unborn"
    /\ \A n \in Start : by[n] <= server

\* The first components of the start in progress have its handles, and the
\* others have not been spawned.
Progress ==
    pc # "idle" =>
        /\ starts \in Start /\ by[starts] = server
        /\ \A i \in 1..Len(SpawnOrder) :
               IF i <= spawned THEN handles[SpawnOrder[i]] = <<starts, SpawnOrder[i]>>
               ELSE proc[<<starts, SpawnOrder[i]>>] = "unborn"
        /\ pc = "spawn" => spawned < Len(SpawnOrder)
        /\ pc = "write" => spawned = Len(SpawnOrder)

\* A process of the running server has a handle or was replaced.
Owned ==
    \A p \in Process : Alive(p) /\ by[p[1]] = server =>
        handles[p[2]] = p \/ Replaced(p[1], p[2])

\* The container of the running server has a name the server knows, unless it
\* could not be stopped or its `docker run' was replaced.
Boxed ==
    /\ handles["backtest_worker"] # None => named
    /\ \/ box[server] = 0 \/ named \/ server \in unstopped
       \/ Replaced(box[server], "backtest_worker")

\* An answer is given when no start is in progress.
Answered ==
    /\ reply \in {"FAILED", "STOPPED"} => pc = "idle"
    /\ reply = "FAILED" => starts \in Start

IInv == TypeOK /\ Used /\ Progress /\ Owned /\ Boxed /\ Answered
              /\ FailedStartIsUndone /\ StopEndsOwn
-----------------------------------------------------------------------------
LEMMA Orders ==
    /\ Len(SpawnOrder) = 3
    /\ \A i \in 1..3 : SpawnOrder[i] \in Component
    /\ \A i, j \in 1..3 : SpawnOrder[i] = SpawnOrder[j] => i = j
    /\ \A c \in Component : \E i \in 1..3 : SpawnOrder[i] = c
    /\ SpawnOrder[3] = "backtest_worker"
BY DEF SpawnOrder, Component

LEMMA InitIInv == Init => IInv
<1> SUFFICES ASSUME Init PROVE IInv
    OBVIOUS
<1>1. TypeOK
  <2>1. (CHOOSE p \in Port : TRUE) \in Port
    BY SystemAssumption
  <2>2. 1 \in Server /\ 0 \in 0..Len(SpawnOrder) /\ 0 \in 0..MaxStarts
    BY SystemAssumption, Orders DEF Server
  <2> QED
    BY <2>1, <2>2 DEF Init, TypeOK, Component
<1>2. "backtest_worker" \in Component /\ server \in Server
  BY <1>1 DEF TypeOK, Component
<1>3. Used /\ Boxed
  BY <1>2 DEF Init, Used, Boxed, Start, Server
<1>4. Progress /\ Owned /\ Answered /\ FailedStartIsUndone /\ StopEndsOwn
  BY DEF Init, Progress, Owned, Answered, FailedStartIsUndone, StopEndsOwn, Alive
<1> QED
  BY <1>1, <1>3, <1>4 DEF IInv

\* What is replaced stays replaced while processes that exist keep existing.
LEMMA ReplacedStays ==
    ASSUME TypeOK, NEW n \in Start, NEW c \in Component, Replaced(n, c), by' = by,
           \A p \in Process : proc[p] # "unborn" => proc'[p] # "unborn"
    PROVE  Replaced(n, c)'
BY DEF Replaced, Process

\* What a child process does: it is alive, or its container is, and another
\* process is not touched.
LEMMA ChildStep ==
    ASSUME IInv, UNCHANGED others,
           \A p \in Process : proc'[p] # proc[p] => proc[p] # "unborn" /\ proc'[p] # "unborn",
           \A p \in Process : Alive(p)' => Alive(p),
           proc' \in [Process -> {"unborn", "loading", "working", "told", "gone"}],
           box' \in [Server -> {0} \cup Start],
           report' \in [Worker -> {"absent", "RUNNING", "SUCCEEDED", "FAILED"}],
           \A s \in Server : box'[s] # box[s] =>
               \/ box'[s] = 0
               \/ by[box'[s]] = s /\ Alive(<<box'[s], "backtest_worker">>)
    PROVE  IInv'
<1> USE DEF others, controller, requests
<1> DEFINE bw == "backtest_worker"
<1>0. /\ bw \in Component
      /\ \A n \in Start, c \in Component : <<n, c>> \in Process
      /\ \A p \in Process : p[1] \in Start /\ p[2] \in Component
  BY DEF Component, Process
<1>1. TypeOK'
  BY DEF IInv, TypeOK
<1>2. \A n \in Start, c \in Component : Replaced(n, c) => Replaced(n, c)'
  BY ReplacedStays DEF IInv
<1>3. Used'
  BY <1>0 DEF IInv, TypeOK, Used, Alive
<1>4. Progress'
  <2>1. \A i \in 1..Len(SpawnOrder) : pc # "idle" => <<starts, SpawnOrder[i]>> \in Process
    BY <1>0, Orders DEF IInv, Progress
  <2> QED
    BY <2>1 DEF IInv, Progress
<1>5. Owned'
  BY <1>0, <1>2 DEF IInv, Owned
<1>6. Answered'
  BY DEF IInv, Answered
<1>7. FailedStartIsUndone'
  <2> SUFFICES ASSUME reply = "FAILED"
               PROVE  (\A c \in Component : ~Alive(<<starts, c>>)') /\ box'[server] # starts
    BY DEF FailedStartIsUndone
  <2>1. (\A c \in Component : ~Alive(<<starts, c>>)) /\ box[server] # starts
    BY DEF IInv, FailedStartIsUndone
  <2>2. starts \in Start /\ starts # 0 /\ server \in Server
    BY DEF IInv, TypeOK, Start, Answered
  <2>3. \A c \in Component : ~Alive(<<starts, c>>)'
    BY <2>1, <2>2, <1>0 DEF Alive
  <2>4. box'[server] # starts
    BY <2>1, <2>2, <1>0
  <2> QED
    BY <2>3, <2>4
<1>8. PICK d \in {0} \cup Start : d = box'[server]
  BY DEF IInv, TypeOK
<1>9. d = box[server] \/ d = 0 \/ (d \in Start /\ by[d] = server /\ Alive(<<d, bw>>))
  BY <1>8 DEF IInv, TypeOK
<1>10. Boxed'
  <2>1. handles[bw] # None => named
    BY DEF IInv, Boxed
  <2>2. d = 0 \/ named \/ server \in unstopped \/ (d \in Start /\ Replaced(d, bw))
    <3>1. CASE d = box[server]
      BY <1>8, <3>1 DEF IInv, Boxed
    <3>2. CASE d \in Start /\ by[d] = server /\ Alive(<<d, bw>>)
      <4>1. handles[bw] = <<d, bw>> \/ Replaced(d, bw)
        BY <3>2, <1>0 DEF IInv, Owned
      <4>2. <<d, bw>> # None
        BY DEF None
      <4> QED
        BY <4>1, <4>2, <2>1, <3>2
    <3> QED
      BY <3>1, <3>2, <1>9
  <2>3. d = 0 \/ named \/ server \in unstopped \/ Replaced(d, bw)'
    BY <2>2, <1>2, <1>0
  <2> QED
    BY <1>8, <2>1, <2>3 DEF Boxed, Replaced
<1>11. StopEndsOwn'
  <2> SUFFICES ASSUME reply' = "STOPPED" PROVE StopEndsOwn'
    BY Zenon DEF StopEndsOwn
  <2>1. /\ \A p \in Process : Alive(p) /\ by[p[1]] = server => Replaced(p[1], p[2])
        /\ \/ box[server] = 0 \/ server \in unstopped
           \/ Replaced(box[server], bw)
    BY DEF IInv, StopEndsOwn
  <2>2. \A p \in Process : Alive(p)' /\ by'[p[1]] = server' => Replaced(p[1], p[2])'
    BY <2>1, <1>0, <1>2
  <2>3. d = 0 \/ server \in unstopped \/ (d \in Start /\ Replaced(d, bw))
    BY <2>1, <1>8, <1>9, <1>0
  <2>4. d = 0 \/ server \in unstopped \/ Replaced(d, bw)'
    BY <2>3, <1>2, <1>0
  <2> QED
    BY <2>2, <2>4, <1>8 DEF StopEndsOwn, Replaced
<1> QED
  BY <1>1, <1>3, <1>4, <1>5, <1>6, <1>7, <1>10, <1>11 DEF IInv

\* The controller's own steps.
LEMMA SpawnStep == IInv /\ Spawn => IInv'
<1> SUFFICES ASSUME IInv, Spawn PROVE IInv'
    OBVIOUS
<1> DEFINE c == SpawnOrder[spawned + 1]
           new == <<starts, c>>
<1>1. /\ spawned + 1 \in 1..3 /\ c \in Component /\ starts \in Start
      /\ new \in Process /\ proc[new] = "unborn" /\ by[starts] = server
  BY Orders DEF Spawn, IInv, TypeOK, Progress, Process
<1>2. /\ proc' = [proc EXCEPT ![new] = "loading"] /\ handles' = [handles EXCEPT ![c] = new]
      /\ spawned' = spawned + 1
      /\ UNCHANGED <<server, starts, asked, by, box, system, report, reply, unstopped>>
  BY DEF Spawn, requests
<1>3. TypeOK'
  <2>1. named' => handles'["backtest_worker"] # None
    BY <1>1, <1>2, Orders DEF Spawn, IInv, TypeOK, None, Component
  <2> QED
    BY <1>1, <1>2, <2>1, Orders DEF Spawn, IInv, TypeOK
<1>4. Used'
  BY <1>1, <1>2 DEF IInv, TypeOK, Used, Process, Start, Component
<1>5. Progress'
  <2> SUFFICES ASSUME NEW i \in 1..3
               PROVE  IF i <= spawned + 1 THEN handles'[SpawnOrder[i]] = <<starts, SpawnOrder[i]>>
                      ELSE proc'[<<starts, SpawnOrder[i]>>] = "unborn"
    BY <1>1, <1>2, Orders DEF Progress, Spawn
  <2>1. IF i <= spawned THEN handles[SpawnOrder[i]] = <<starts, SpawnOrder[i]>>
        ELSE proc[<<starts, SpawnOrder[i]>>] = "unborn"
    BY Orders DEF Spawn, IInv, Progress
  <2>2. spawned \in Nat /\ SpawnOrder[i] \in Component
        /\ (SpawnOrder[i] = c <=> i = spawned + 1)
    BY <1>1, Orders DEF IInv, TypeOK
  <2> QED
    BY <1>1, <1>2, <2>1, <2>2 DEF IInv, TypeOK, Process
<1>6. \A p \in Process : Replaced(p[1], p[2]) => Replaced(p[1], p[2])'
  BY <1>1, <1>2 DEF Replaced, IInv, TypeOK, Process
<1>7. Owned'
  <2> SUFFICES ASSUME NEW p \in Process, Alive(p)', by[p[1]] = server
               PROVE  handles'[p[2]] = p \/ Replaced(p[1], p[2])'
    BY <1>2 DEF Owned
  <2>1. CASE p = new
    BY <1>1, <1>2, <2>1 DEF IInv, TypeOK
  <2>2. CASE p # new /\ p[2] # c
    BY <1>1, <1>2, <1>6, <2>2 DEF IInv, TypeOK, Owned, Alive, Process
  <2>3. CASE p # new /\ p[2] = c
    <3>1. p[1] \in Start /\ proc[p] # "unborn" /\ p = <<p[1], p[2]>>
      BY <1>1, <1>2, <2>3 DEF IInv, TypeOK, Alive, Process
    <3>2. starts > p[1]
      BY <3>1, <2>3, <1>1 DEF IInv, Used, Start
    <3> QED
      BY <1>1, <1>2, <2>3, <3>1, <3>2 DEF Replaced, IInv, TypeOK
  <2> QED
    BY <2>1, <2>2, <2>3
<1>8. Boxed'
  <2>1. named' <=> named \/ spawned + 1 = 3
    BY <1>1, <1>2, Orders DEF Spawn, IInv, TypeOK
  <2>2. handles'["backtest_worker"] # None => named'
    BY <1>1, <1>2, <2>1, Orders DEF IInv, TypeOK, Boxed, Component
  <2>3. PICK d \in {0} \cup Start : d = box[server]
    BY DEF IInv, TypeOK
  <2>4. d = 0 \/ named \/ server \in unstopped \/ Replaced(d, "backtest_worker")
    BY <2>3 DEF IInv, Boxed
  <2>5. \A n \in Start : <<n, "backtest_worker">> \in Process
    BY DEF Process, Component
  <2>6. d = 0 \/ named' \/ server \in unstopped \/ Replaced(d, "backtest_worker")'
    BY <1>6, <2>1, <2>4, <2>5
  <2> QED
    BY <1>2, <2>2, <2>3, <2>6 DEF Boxed, Replaced
<1>9. Answered' /\ FailedStartIsUndone' /\ StopEndsOwn'
  BY <1>2 DEF Spawn, IInv, Answered, FailedStartIsUndone, StopEndsOwn
<1> QED
  BY <1>3, <1>4, <1>5, <1>7, <1>8, <1>9 DEF IInv

\* What _terminate_started leaves behind: nothing of the running server is
\* alive that was not replaced.
LEMMA TerminateStep ==
    ASSUME IInv, TerminateStarted, pc' = "idle", spawned' \in 0..3,
           UNCHANGED <<requests, report>>,
           system' \in {"absent", "STARTED", "STOPPED"},
           \/ pc = "spawn" /\ reply' = "FAILED"
           \/ reply' \in {"STOPPED", "ERROR"}
    PROVE  IInv'
<1> USE DEF requests
<1>0. /\ \A n \in Start, c \in Component : <<n, c>> \in Process
      /\ \A p \in Process : p[1] \in Start /\ p[2] \in Component /\ p = <<p[1], p[2]>>
      /\ "backtest_worker" \in Component
  BY DEF Component, Process
<1>1. /\ proc' = [p \in Process |->
                     IF Alive(p) /\ handles[p[2]] = p THEN "told" ELSE proc[p]]
      /\ handles' = [c \in Component |-> None] /\ named' = FALSE
      /\ \/ named /\ box' = [box EXCEPT ![server] = 0] /\ UNCHANGED unstopped
         \/ named /\ UNCHANGED box /\ unstopped' = unstopped \cup {server}
         \/ ~named /\ UNCHANGED <<box, unstopped>>
  BY DEF TerminateStarted
<1>2. TypeOK'
  BY <1>1, Orders DEF IInv, TypeOK
<1>3. \A p \in Process : proc'[p] = "unborn" <=> proc[p] = "unborn"
  BY <1>1 DEF IInv, TypeOK, Alive
<1>4. \A s \in Server : box'[s] # 0 => box'[s] = box[s]
  BY <1>1 DEF IInv, TypeOK
<1>5. Used'
  BY <1>0, <1>3, <1>4 DEF IInv, TypeOK, Used
<1>6. \A n \in Start, c \in Component : Replaced(n, c) => Replaced(n, c)'
  BY <1>3, ReplacedStays DEF IInv
<1>7. \A p \in Process : Alive(p)' /\ by[p[1]] = server => Replaced(p[1], p[2])
  BY <1>1 DEF IInv, Owned, Alive
<1>8. Progress' /\ Owned'
  BY <1>0, <1>6, <1>7 DEF Progress, Owned
<1>9. reply' = "FAILED" => pc = "spawn" /\ starts \in Start /\ starts # 0
  BY DEF IInv, Progress, Start
<1>10. Answered'
  BY <1>9 DEF Answered
<1>11. FailedStartIsUndone'
  <2> SUFFICES ASSUME reply' = "FAILED"
               PROVE  /\ \A c \in Component : ~Alive(<<starts, c>>)'
                      /\ box'[server] # starts
    BY DEF FailedStartIsUndone
  <2>1. \A c \in Component : ~Alive(<<starts, c>>)'
    <3> SUFFICES ASSUME NEW c \in Component PROVE ~Alive(<<starts, c>>)'
      OBVIOUS
    <3>1. PICK i \in 1..3 : SpawnOrder[i] = c
      BY Orders
    <3>2. IF i <= spawned THEN handles[c] = <<starts, c>> ELSE proc[<<starts, c>>] = "unborn"
      BY <1>9, <3>1, Orders DEF IInv, Progress
    <3> QED
      BY <1>0, <1>1, <1>9, <3>2 DEF Alive
  <2>2. spawned < 3
    BY <1>9, Orders DEF IInv, Progress
  <2>3. proc[<<starts, "backtest_worker">>] = "unborn"
    BY <1>9, <2>2, Orders DEF IInv, TypeOK, Progress
  <2>4. box[server] # starts
    BY <1>9, <2>3 DEF IInv, TypeOK, Used
  <2> QED
    BY <2>1, <2>4, <1>4, <1>9 DEF IInv, TypeOK
<1>12. PICK d \in {0} \cup Start : d = box'[server]
  BY <1>2 DEF IInv, TypeOK
<1>13. d = 0 \/ server \in unstopped' \/ (d \in Start /\ Replaced(d, "backtest_worker")')
  <2>1. CASE named
    BY <1>1, <1>12, <2>1 DEF IInv, TypeOK
  <2>2. CASE ~named
    <3>1. d = 0 \/ server \in unstopped \/ Replaced(d, "backtest_worker")
      BY <1>1, <1>12, <2>2 DEF IInv, Boxed
    <3> QED
      BY <1>0, <1>1, <1>6, <2>2, <3>1
  <2> QED
    BY <2>1, <2>2
<1>14. Boxed'
  BY <1>0, <1>1, <1>12, <1>13 DEF Boxed, Replaced
<1>15. StopEndsOwn'
  <2>1. \A p \in Process : Alive(p)' /\ by[p[1]] = server => Replaced(p[1], p[2])'
    BY <1>0, <1>6, <1>7
  <2> QED
    BY <2>1, <1>12, <1>13 DEF StopEndsOwn, Replaced
<1> QED
  BY <1>2, <1>5, <1>8, <1>10, <1>11, <1>14, <1>15 DEF IInv

LEMMA StartBeginsStep == ASSUME IInv, NEW p \in Port, StartBegins(p) PROVE IInv'
<1> DEFINE n == starts + 1
<1>1. /\ n \in Start /\ starts \in Nat /\ starts' = n /\ pc' = "spawn" /\ spawned' = 0
      /\ by' = [by EXCEPT ![n] = server] /\ reply' = "none"
      /\ UNCHANGED <<server, handles, named, proc, box, system, report, unstopped>>
  BY SystemAssumption DEF StartBegins, IInv, TypeOK, Start
<1>2. \A q \in Process : proc[q] # "unborn" => q[1] # n /\ by'[q[1]] = by[q[1]]
  BY <1>1 DEF IInv, TypeOK, Used, Process
<1>3. TypeOK'
  BY <1>1, SystemAssumption, Orders DEF StartBegins, IInv, TypeOK, Start
<1>4. \A q \in Process : proc[q] # "unborn" /\ Replaced(q[1], q[2]) => Replaced(q[1], q[2])'
  <2> SUFFICES ASSUME NEW q \in Process, proc[q] # "unborn", Replaced(q[1], q[2])
               PROVE  Replaced(q[1], q[2])'
    OBVIOUS
  <2>1. PICK m \in Start : m > q[1] /\ by[m] = by[q[1]] /\ proc[<<m, q[2]>>] # "unborn"
    BY DEF Replaced
  <2>2. <<m, q[2]>> \in Process
    BY DEF Process
  <2>3. by'[m] = by[m] /\ by'[q[1]] = by[q[1]]
    BY <2>1, <2>2, <1>2
  <2> QED
    BY <1>1, <2>1, <2>3 DEF Replaced
<1>5. PICK d \in {0} \cup Start : d = box[server]
  BY DEF IInv, TypeOK
<1>6. d # 0 => /\ <<d, "backtest_worker">> \in Process
               /\ proc[<<d, "backtest_worker">>] # "unborn"
  BY <1>5 DEF IInv, TypeOK, Used, Process, Component
<1>7. Used'
  <2>1. \A q \in Process : q[1] > starts' => proc'[q] = "unborn"
    BY <1>1 DEF IInv, Used, Process, Start
  <2>2. \A s \in Server : box[s] # 0 => <<box[s], "backtest_worker">> \in Process
    BY DEF IInv, TypeOK, Process, Component
  <2>3. \A s \in Server : box[s] # 0 => /\ by'[box[s]] = s
                                        /\ proc[<<box[s], "backtest_worker">>] # "unborn"
    BY <1>2, <2>2 DEF IInv, Used
  <2>4. \A k \in Start : by'[k] <= server
    BY <1>1 DEF IInv, TypeOK, Used, Server
  <2> QED
    BY <1>1, <2>1, <2>3, <2>4 DEF Used
<1>8. Progress'
  BY <1>1, Orders DEF Progress, IInv, TypeOK, Used, Process
<1>9. Owned'
  BY <1>1, <1>2, <1>4 DEF IInv, Owned, Alive
<1>10. Boxed'
  BY <1>1, <1>4, <1>5, <1>6 DEF IInv, Boxed, Replaced
<1>11. Answered' /\ FailedStartIsUndone' /\ StopEndsOwn'
  BY <1>1 DEF Answered, FailedStartIsUndone, StopEndsOwn
<1> QED
  BY <1>3, <1>7, <1>8, <1>9, <1>10, <1>11 DEF IInv

\* Steps that change no process, container or handle: an answer is given.
LEMMA AnswerStep ==
    ASSUME IInv, pc' = "idle", reply' \in {"BLOCKED", "STARTED", "ERROR"},
           spawned' \in 0..3, system' \in {"absent", "STARTED", "STOPPED"},
           UNCHANGED <<requests, handles, named, proc, box, report, unstopped>>
    PROVE  IInv'
BY Orders DEF IInv, TypeOK, Used, Progress, Owned, Boxed, Answered, FailedStartIsUndone,
              StopEndsOwn, Replaced, Alive, requests

\* The next server owns nothing.
LEMMA ServerRestartsStep == IInv /\ ServerRestarts => IInv'
<1> SUFFICES ASSUME IInv, ServerRestarts PROVE IInv'
    OBVIOUS
<1>1. /\ server' = server + 1 /\ server' \in Server /\ server \in Nat
      /\ pc' = "idle" /\ spawned' = 0 /\ reply' = "none"
      /\ handles' = [c \in Component |-> None] /\ named' = FALSE
      /\ UNCHANGED <<starts, asked, by, proc, box, system, report, unstopped>>
  BY SystemAssumption DEF ServerRestarts, IInv, TypeOK, Server
<1>2. \A k \in Start : by[k] \in Nat /\ by[k] <= server
  BY SystemAssumption DEF IInv, TypeOK, Used, Server
<1>3. TypeOK'
  <2>1. 0 \in 0..Len(SpawnOrder)
    BY Orders
  <2>2. TypeOK
    BY DEF IInv
  <2> QED
    BY <1>1, <2>1, <2>2, Zenon DEF TypeOK
<1>4. Used'
  <2>1. \A k \in Start : by[k] <= server + 1
    BY <1>1, <1>2
  <2>2. Used
    BY DEF IInv
  <2> QED
    BY <1>1, <2>1, <2>2 DEF Used
<1>5. Progress' /\ Answered' /\ FailedStartIsUndone' /\ StopEndsOwn'
  BY <1>1 DEF Progress, Answered, FailedStartIsUndone, StopEndsOwn
<1>6. Owned'
  BY <1>1, <1>2 DEF Owned, Process
<1>7. Boxed'
  <2>1. box[server + 1] = 0
    <3>1. server + 1 \in Server /\ box[server + 1] \in {0} \cup Start
      BY <1>1 DEF IInv, TypeOK
    <3>2. box[server + 1] # 0 => by[box[server + 1]] = server + 1
      BY <3>1 DEF IInv, Used
    <3> QED
      BY <1>1, <1>2, <3>1, <3>2
  <2>2. "backtest_worker" \in Component
    BY DEF Component
  <2> QED
    BY <1>1, <2>1, <2>2 DEF Boxed
<1> QED
  BY <1>3, <1>4, <1>5, <1>6, <1>7 DEF IInv

LEMMA ProcessesStep ==
    ASSUME IInv,
           \/ \E n \in Start : Serve(n) \/ ResearchBegins(n) \/ ResearchEnds(n)
                               \/ ContainerBegins(n) \/ ContainerEnds(n)
           \/ \E p \in Process : Dies(p)
    PROVE  IInv'
<1> USE DEF IInv, TypeOK, Becomes, Reports, Worker, Component
<1>0. \A n \in Start, c \in Component : <<n, c>> \in Process
  BY DEF Process
<1>1. ASSUME NEW n \in Start, Serve(n) PROVE IInv'
  <2>1. UNCHANGED <<others, box, report>>
    BY <1>1 DEF Serve
  <2>2. /\ proc[<<n, "dashboard">>] = "loading"
        /\ \/ proc' = [proc EXCEPT ![<<n, "dashboard">>] = "working"]
           \/ proc' = [proc EXCEPT ![<<n, "dashboard">>] = "gone"]
    BY <1>1 DEF Serve
  <2> QED
    BY <2>1, <2>2, <1>0, ChildStep DEF Alive
<1>2. ASSUME NEW n \in Start, ResearchBegins(n) PROVE IInv'
  BY <1>2, <1>0, ChildStep DEF ResearchBegins, Alive
<1>3. ASSUME NEW n \in Start, ResearchEnds(n) PROVE IInv'
  BY <1>3, <1>0, ChildStep DEF ResearchEnds, Alive
<1>4. ASSUME NEW n \in Start, ContainerBegins(n) PROVE IInv'
  BY <1>4, <1>0, ChildStep DEF ContainerBegins, Alive
<1>5. ASSUME NEW n \in Start, ContainerEnds(n) PROVE IInv'
  <2>1. proc[<<n, "backtest_worker">>] # "unborn" /\ n # 0 /\ by[n] \in Server
    BY <1>5 DEF ContainerEnds, Used, Start
  <2> QED
    BY <1>5, <1>0, <2>1, ChildStep DEF ContainerEnds, Alive
<1>6. ASSUME NEW p \in Process, Dies(p) PROVE IInv'
  BY <1>6, ChildStep DEF Dies, Alive
<1> QED
  BY <1>1, <1>2, <1>3, <1>4, <1>5, <1>6

LEMMA NextIInv == IInv /\ [Next]_vars => IInv'
<1> SUFFICES ASSUME IInv, [Next]_vars PROVE IInv'
    OBVIOUS
<1>1. spawned \in 0..3 /\ system \in {"absent", "STARTED", "STOPPED"}
  BY Orders DEF IInv, TypeOK
<1>2. CASE Block
  BY <1>1, <1>2, AnswerStep DEF Block, controller
<1>3. CASE Spawn
  BY <1>3, SpawnStep
<1>4. CASE SpawnFails
  BY <1>1, <1>4, TerminateStep DEF SpawnFails
<1>5. CASE StartEnds
  BY <1>1, <1>5, AnswerStep DEF StartEnds
<1>6. CASE Stop
  BY <1>1, <1>6, TerminateStep DEF Stop
<1>7. CASE ServerRestarts
  BY <1>7, ServerRestartsStep
<1>8. CASE \E p \in Port : StartBegins(p)
  BY <1>8, StartBeginsStep
<1>9. CASE \/ \E n \in Start : Serve(n) \/ ResearchBegins(n) \/ ResearchEnds(n)
                               \/ ContainerBegins(n) \/ ContainerEnds(n)
           \/ \E p \in Process : Dies(p)
  BY <1>9, ProcessesStep
<1>10. CASE UNCHANGED vars
  BY <1>10 DEF vars, controller, requests, IInv, TypeOK, Used, Progress, Owned, Boxed,
               Answered, FailedStartIsUndone, StopEndsOwn, Replaced, Alive
<1> QED
  BY <1>2, <1>3, <1>4, <1>5, <1>6, <1>7, <1>8, <1>9, <1>10 DEF Next

LEMMA Invariance == Spec => []IInv
<1>1. Init => IInv
  BY InitIInv
<1>2. IInv /\ [Next]_vars => IInv'
  BY NextIInv
<1> QED
  BY <1>1, <1>2, PTL DEF Spec
-----------------------------------------------------------------------------
\* Type correctness of the controller, its processes and its files
\* (system_controller.py, system_worker.py).
THEOREM TypeCorrect == Spec => []TypeOK
<1>1. IInv => TypeOK
  BY DEF IInv
<1> QED
  BY <1>1, Invariance, PTL

\* A start that answers FAILED has told everything it spawned to end, with any
\* number of earlier starts, servers and deaths (system_controller.py:309-311).
THEOREM FailedStarts == Spec => []FailedStartIsUndone
<1>1. IInv => FailedStartIsUndone
  BY DEF IInv
<1> QED
  BY <1>1, Invariance, PTL

\* A stop tells everything the running server started to end, except what a
\* later start of that server replaced (system_controller.py:360-364, 465-475).
THEOREM StopEndsWhatIsOwned == Spec => []StopEndsOwn
<1>1. IInv => StopEndsOwn
  BY DEF IInv
<1> QED
  BY <1>1, Invariance, PTL
=============================================================================

-------------------------- MODULE SystemController --------------------------
(***************************************************************************)
(* runtime/system_controller.py inside the MCP server that owns it, the    *)
(* workers of runtime/system_worker.py and the files of state/system/.     *)
(*                                                                         *)
(* The server handles one request at a time.  The processes it starts live *)
(* on when it dies, and the next server knows nothing of them; a container *)
(* also lives on when its `docker run' does.  Names of containers hold the *)
(* server's process id.  A `docker run' that is told to end before it has  *)
(* created its container is taken not to create it.                        *)
(***************************************************************************)
EXTENDS Naturals, Sequences

CONSTANTS Port,        \* dashboard ports a request may name
          MaxStarts,   \* bound: starts that get past the preflight
          MaxServers   \* bound: server processes, one after the other

ASSUME SystemAssumption ==
    /\ Port # {}
    /\ MaxStarts \in Nat /\ MaxServers \in Nat \ {0}

Component == {"dashboard", "research_worker", "backtest_worker"}
Worker == Component \ {"dashboard"}
SpawnOrder == <<"dashboard", "research_worker", "backtest_worker">>

Start == 1..MaxStarts
Server == 1..MaxServers
Process == Start \X Component
None == <<>>

VARIABLES server,     \* the server process that is running
          pc,         \* "idle", "spawn" or "write"
          spawned,    \* components spawned by the start in progress
          starts,     \* starts so far
          asked,      \* [Start -> the port asked for]
          by,         \* [Start -> the server that handled it]
          handles,    \* SystemController._processes
          named,      \* is _container_name set?
          proc,       \* [Process -> its life]
          box,        \* [Server -> the start whose container has the name, or 0]
          system,     \* system.json
          report,     \* research_worker.json and backtest_worker.json
          reply,      \* to the latest request
          unstopped   \* history: servers whose `docker stop' failed

controller == <<pc, spawned, handles, named>>
requests == <<server, starts, asked, by>>
vars == <<controller, requests, proc, box, system, report, reply, unstopped>>

Alive(p) == proc[p] \in {"loading", "working"}

TypeOK ==
    /\ server \in Server
    /\ pc \in {"idle", "spawn", "write"}
    /\ spawned \in 0..Len(SpawnOrder)
    /\ starts \in 0..MaxStarts
    /\ asked \in [Start -> Port] /\ by \in [Start -> Server]
    /\ handles \in [Component -> Process \cup {None}]
    /\ named \in BOOLEAN /\ (named => handles["backtest_worker"] # None)
    /\ proc \in [Process -> {"unborn", "loading", "working", "told", "gone"}]
    /\ box \in [Server -> {0} \cup Start]
    /\ system \in {"absent", "STARTED", "STOPPED"}
    /\ report \in [Worker -> {"absent", "RUNNING", "SUCCEEDED", "FAILED"}]
    /\ reply \in {"none", "BLOCKED", "STARTED", "FAILED", "STOPPED", "ERROR"}
    /\ unstopped \subseteq Server

Init ==
    /\ server = 1
    /\ pc = "idle" /\ spawned = 0 /\ starts = 0
    /\ asked = [n \in Start |-> CHOOSE p \in Port : TRUE]
    /\ by = [n \in Start |-> 1]
    /\ handles = [c \in Component |-> None]
    /\ named = FALSE
    /\ proc = [p \in Process |-> "unborn"]
    /\ box = [s \in Server |-> 0]
    /\ system = "absent"
    /\ report = [c \in Worker |-> "absent"]
    /\ reply = "none"
    /\ unstopped = {}
-----------------------------------------------------------------------------
(* The controller *)

\* Some check of the preflight fails, or an OSError of it or of what follows
\* before the first process is a tool error.
Block ==
    /\ pc = "idle"
    /\ reply' \in {"BLOCKED", "ERROR"}
    /\ UNCHANGED <<controller, requests, proc, box, system, report, unstopped>>

PortFree(p) == \A n \in Start : proc[<<n, "dashboard">>] = "working" => asked[n] # p

\* The preflight is passed: nobody listens on the port.  Dashboards that were
\* not told to stop or have not bound their port yet do not show.
StartBegins(p) ==
    /\ pc = "idle" /\ starts < MaxStarts
    /\ PortFree(p)
    /\ starts' = starts + 1
    /\ asked' = [asked EXCEPT ![starts + 1] = p]
    /\ by' = [by EXCEPT ![starts + 1] = server]
    /\ pc' = "spawn" /\ spawned' = 0 /\ reply' = "none"
    /\ UNCHANGED <<server, handles, named, proc, box, system, report, unstopped>>

\* Variant: a handle that is there already is kept.
SpawnKeeping ==
    /\ pc = "spawn"
    /\ LET c == SpawnOrder[spawned + 1]
       IN /\ proc' = [proc EXCEPT ![<<starts, c>>] = "loading"]
          /\ handles' = [handles EXCEPT ![c] = IF @ = None THEN <<starts, c>> ELSE @]
    /\ spawned' = spawned + 1
    /\ pc' = IF spawned' = Len(SpawnOrder) THEN "write" ELSE "spawn"
    /\ named' = (named \/ pc' = "write")
    /\ UNCHANGED <<requests, box, system, report, reply, unstopped>>

\* The next process is started; its handle takes the place of an older one.
Spawn ==
    /\ pc = "spawn"
    /\ LET c == SpawnOrder[spawned + 1]
       IN /\ proc' = [proc EXCEPT ![<<starts, c>>] = "loading"]
          /\ handles' = [handles EXCEPT ![c] = <<starts, c>>]
    /\ spawned' = spawned + 1
    /\ pc' = IF spawned' = Len(SpawnOrder) THEN "write" ELSE "spawn"
    /\ named' = (named \/ pc' = "write")
    /\ UNCHANGED <<requests, box, system, report, reply, unstopped>>

\* Variants: the name of the container is kept; only processes are stopped.
TerminateKeepingName ==
    /\ proc' = [p \in Process |->
                  IF Alive(p) /\ handles[p[2]] = p THEN "told" ELSE proc[p]]
    /\ \/ named /\ box' = [box EXCEPT ![server] = 0] /\ UNCHANGED unstopped
       \/ named /\ UNCHANGED box /\ unstopped' = unstopped \cup {server}
       \/ ~named /\ UNCHANGED <<box, unstopped>>
    /\ handles' = [c \in Component |-> None]
    /\ UNCHANGED named

TerminateProcesses ==
    /\ proc' = [p \in Process |->
                  IF Alive(p) /\ handles[p[2]] = p THEN "told" ELSE proc[p]]
    /\ handles' = [c \in Component |-> None]
    /\ named' = FALSE
    /\ UNCHANGED <<box, unstopped>>

\* _terminate_started: the processes with a handle are told to end and the
\* container is stopped, if Docker can; then both are forgotten.
TerminateStarted ==
    /\ proc' = [p \in Process |->
                  IF Alive(p) /\ handles[p[2]] = p THEN "told" ELSE proc[p]]
    /\ \/ named /\ box' = [box EXCEPT ![server] = 0] /\ UNCHANGED unstopped
       \/ named /\ UNCHANGED box /\ unstopped' = unstopped \cup {server}
       \/ ~named /\ UNCHANGED <<box, unstopped>>
    /\ handles' = [c \in Component |-> None]
    /\ named' = FALSE

SpawnFails ==
    /\ pc = "spawn"
    /\ TerminateStarted
    /\ pc' = "idle" /\ spawned' = 0 /\ reply' = "FAILED"
    /\ UNCHANGED <<requests, system, report>>

\* system.json is replaced; an OSError of that is a tool error.
StartEnds ==
    /\ pc = "write"
    /\ \/ system' = "STARTED" /\ reply' = "STARTED"
       \/ reply' = "ERROR" /\ UNCHANGED system
    /\ pc' = "idle" /\ spawned' = 0
    /\ UNCHANGED <<requests, handles, named, proc, box, report, unstopped>>

Stop ==
    /\ pc = "idle"
    /\ TerminateStarted
    /\ \/ system' = "STOPPED" /\ reply' = "STOPPED"
       \/ reply' = "ERROR" /\ UNCHANGED system
    /\ UNCHANGED <<pc, spawned, requests, report>>

\* The MCP session ends, or the server is killed, between any two steps.
ServerRestarts ==
    /\ server < MaxServers
    /\ server' = server + 1
    /\ pc' = "idle" /\ spawned' = 0 /\ reply' = "none"
    /\ handles' = [c \in Component |-> None] /\ named' = FALSE
    /\ UNCHANGED <<starts, asked, by, proc, box, system, report, unstopped>>
-----------------------------------------------------------------------------
(* The processes *)

Becomes(p, life) == proc' = [proc EXCEPT ![p] = life]

\* _write_status: an OSError is ignored and leaves the file as it was.
Reports(c, statuses) ==
    \/ \E s \in statuses : report' = [report EXCEPT ![c] = s]
    \/ UNCHANGED report

others == <<controller, requests, system, reply, unstopped>>

\* The dashboard binds its port, or ends because it cannot.
Serve(n) ==
    LET p == <<n, "dashboard">>
    IN /\ proc[p] = "loading"
       /\ Becomes(p, IF PortFree(asked[n]) THEN "working" ELSE "gone")
       /\ UNCHANGED <<others, box, report>>

ResearchBegins(n) ==
    LET p == <<n, "research_worker">>
    IN /\ proc[p] = "loading"
       /\ Becomes(p, "working") /\ Reports("research_worker", {"RUNNING"})
       /\ UNCHANGED <<others, box>>

\* The worker ends; an exception main does not catch leaves RUNNING behind.
ResearchEnds(n) ==
    LET p == <<n, "research_worker">>
    IN /\ proc[p] = "working"
       /\ Becomes(p, "gone") /\ Reports("research_worker", {"SUCCEEDED", "FAILED"})
       /\ UNCHANGED <<others, box>>

\* `docker run' creates the container, or ends because the name is taken.
ContainerBegins(n) ==
    LET p == <<n, "backtest_worker">>
    IN /\ proc[p] = "loading"
       /\ IF box[by[n]] = 0
          THEN /\ box' = [box EXCEPT ![by[n]] = n]
               /\ Becomes(p, "working") /\ Reports("backtest_worker", {"RUNNING"})
          ELSE Becomes(p, "gone") /\ UNCHANGED <<box, report>>
       /\ UNCHANGED others

ContainerEnds(n) ==
    /\ box[by[n]] = n
    /\ box' = [box EXCEPT ![by[n]] = 0]
    /\ Becomes(<<n, "backtest_worker">>, "gone")
    /\ Reports("backtest_worker", {"SUCCEEDED", "FAILED"})
    /\ UNCHANGED others

\* A process that was told to ends, and any process may be killed.
Dies(p) ==
    /\ proc[p] \in {"loading", "working", "told"}
    /\ Becomes(p, "gone")
    /\ UNCHANGED <<others, box, report>>

Next ==
    \/ Block \/ Spawn \/ SpawnFails \/ StartEnds \/ Stop \/ ServerRestarts
    \/ \E p \in Port : StartBegins(p)
    \/ \E n \in Start : Serve(n) \/ ResearchBegins(n) \/ ResearchEnds(n)
                          \/ ContainerBegins(n) \/ ContainerEnds(n)
    \/ \E p \in Process : Dies(p)

Spec == Init /\ [][Next]_vars
-----------------------------------------------------------------------------
(* Properties. *)

\* A start that answers FAILED has left nothing of its own running: whatever
\* its first processes did before the next one could not be started, they have
\* been told to end (system_controller.py:309-311).
FailedStartIsUndone ==
    reply = "FAILED" =>
        /\ \A c \in Component : ~Alive(<<starts, c>>)
        /\ box[server] # starts

\* A later start of the same server took over the handle of the component.
Replaced(n, c) ==
    \E m \in Start : m > n /\ by[m] = by[n] /\ proc[<<m, c>>] # "unborn"

\* After stop answered STOPPED, what the running server started is told to end,
\* whatever failed or died before, unless a later start of this server replaced
\* its handle; and no container of this server runs unless Docker failed to
\* stop it, or a replaced `docker run' created it since (system_controller.py:360-364, 465-475).
StopEndsOwn ==
    reply = "STOPPED" =>
        /\ \A p \in Process : Alive(p) /\ by[p[1]] = server => Replaced(p[1], p[2])
        /\ \/ box[server] = 0 \/ server \in unstopped
           \/ Replaced(box[server], "backtest_worker")
=============================================================================

------------------------- MODULE ControlPlaneProofs --------------------------
(***************************************************************************)
(* Proofs about ControlPlane, for any number of daemons and of commands,   *)
(* whatever the file says and however often it is written.                 *)
(***************************************************************************)
EXTENDS ControlPlane, TLAPS

(* The constants, as the proofs use them. *)
LEMMA Constants ==
    /\ None \notin Daemons /\ Hangup \notin Clients
    /\ Clients \subseteq Loops /\ Hangup \in Loops
    /\ First \in Documents /\ NoTask \in Task
    /\ MaxWrites \in Nat /\ MaxFaults \in Nat
<1>1. First \in Documents
  BY KindsAssumption, LimitsAssumption DEF First, Documents
<1>2. NoTask \in Task
  BY <1>1 DEF NoTask, Task
<1> QED BY <1>1, <1>2, NamesAssumption, LimitsAssumption DEF Loops

(* What Answering makes of a task (control.rs dispatch). *)
LEMMA AnsweringIs ==
    ASSUME TypeOK, NEW c \in Loops, NEW ok \in BOOLEAN
    PROVE  /\ Answering(c, ok) \in Task
           /\ Answering(c, ok).at \in {"idle", "answer"}
           /\ ~Answering(c, ok).wrote
           /\ Answering(c, ok).ok => ok
<1>1. task[c] \in Task
  BY DEF TypeOK
<1> QED BY <1>1, Constants DEF Answering, NoTask, Task

(* The end of a daemon leaves nothing of its tasks (Leave, Crash). *)
LEMMA TasksIs ==
    ASSUME TypeOK, NEW d \in Daemons
    PROVE  /\ Tasks(d) \in [Loops -> Task]
           /\ \A c \in Loops : \/ Tasks(d)[c] = task[c]
                               \/ /\ task[c].of = d
                                  /\ Tasks(d)[c].at \in {"idle", "done"} /\ ~Tasks(d)[c].wrote
           /\ \A c \in Loops : task[c].of # d => Tasks(d)[c] = task[c]
<1>1. task \in [Loops -> Task]
  BY DEF TypeOK
<1> QED BY <1>1, Constants DEF Tasks, NoTask, Task

(* The initial state is in the invariant. *)
LEMMA InitInv == Init => IInv
<1> SUFFICES ASSUME Init PROVE IInv
  OBVIOUS
<1>1. TypeOK
  <2>1. First \in Documents /\ Start \in Kinds /\ NoTask \in Task /\ 0 \in 0..MaxFaults
    BY Constants, KindsAssumption
  <2> QED BY <2>1 DEF Init, TypeOK, Phases
<1>2. RestartFieldsKept /\ WorkerMayRead
  BY DEF Init, RestartFieldsKept, WorkerMayRead, First
<1>3. ChangesCarried /\ VersionsOrdered /\ TasksOfDaemons
  BY Constants DEF Init, ChangesCarried, VersionsOrdered, TasksOfDaemons, First, NoTask
<1> QED BY <1>1, <1>2, <1>3 DEF IInv

(* The actions of a daemon's start and end keep the types: they do not touch *)
(* the tasks, but for its end.                                               *)
LEMMA SocketTypes ==
    ASSUME TypeOK, NEW d \in Daemons,
           \/ StartMetrics(d) \/ Inspect(d) \/ Probe(d) \/ Replace(d) \/ Bind(d) \/ Restrict(d)
           \/ Stop(d) \/ Unlink(d) \/ LoseMetrics(d) \/ LoseControl(d)
    PROVE  TypeOK'
<1>1. CASE StartMetrics(d)
  <2>1. Address(d) \in Addresses
    BY DEF TypeOK, Address, Addresses
  <2> QED BY <1>1, <2>1 DEF TypeOK, StartMetrics, Go, Phases, config
<1>2. CASE Inspect(d)
  BY <1>2 DEF TypeOK, Inspect, Refuse, Go, Phases, config
<1>3. CASE Probe(d)
  BY <1>3 DEF TypeOK, Probe, Refuse, Go, Phases, config
<1>4. CASE Replace(d)
  BY <1>4 DEF TypeOK, Replace, Refuse, Go, Phases, config
<1>5. CASE Bind(d)
  <2>1. [by |-> d, private |-> FALSE] \in [by : Daemons, private : BOOLEAN]
    OBVIOUS
  <2>2. path' \in [by : Daemons, private : BOOLEAN] \cup {NoFile}
    BY <1>5, <2>1 DEF Bind, TypeOK
  <2> QED BY <1>5, <2>2 DEF TypeOK, Bind, Refuse, Go, Phases, config
<1>6. CASE Restrict(d)
  <2>1. path # NoFile => path \in [by : Daemons, private : BOOLEAN]
    BY DEF TypeOK
  <2> QED BY <1>6, <2>1 DEF TypeOK, Restrict, Refuse, Go, Phases, config
<1>7. CASE Stop(d)
  BY <1>7 DEF TypeOK, Stop, Go, Phases, config
<1>8. CASE Unlink(d)
  BY <1>8 DEF TypeOK, Unlink, Go, Phases, config
<1>9. CASE LoseMetrics(d)
  BY <1>9, Constants DEF TypeOK, LoseMetrics, Closed, config
<1>10. CASE LoseControl(d)
  BY <1>10, Constants DEF TypeOK, LoseControl, Go, Phases, config
<1> QED BY <1>1, <1>2, <1>3, <1>4, <1>5, <1>6, <1>7, <1>8, <1>9, <1>10

(* The other actions of a daemon: its first reading of the file, and the end *)
(* that takes its tasks along.                                               *)
LEMMA LifeTypes ==
    ASSUME TypeOK, NEW d \in Daemons, Compile(d) \/ Leave(d) \/ Crash(d)
    PROVE  TypeOK'
<1>1. CASE Compile(d)
  <2>1. file \in Documents /\ file.kind \in Kinds
    BY DEF TypeOK, Documents
  <2> QED BY <1>1, <2>1 DEF TypeOK, Compile, Go, Phases
<1>2. CASE Leave(d)
  BY <1>2, TasksIs DEF TypeOK, Leave, Go, Phases, Closed
<1>3. CASE Crash(d)
  BY <1>3, TasksIs, Constants DEF TypeOK, Crash, Phases, Closed
<1> QED BY <1>1, <1>2, <1>3

(* The token commands and the editor keep the types. *)
LEMMA WriterTypes ==
    ASSUME TypeOK,
           \/ Edit
           \/ \E c \in Clients : Load(c) \/ Grant(c) \/ Write(c) \/ CommandFails(c) \/ Connect(c)
    PROVE  TypeOK'
<1>1. CASE Edit
  <2>0. file \in Documents /\ file.version \in 0..MaxWrites /\ file.version < MaxWrites
    BY <1>1 DEF Edit, TypeOK, Documents
  <2>1. file.version + 1 \in 0..MaxWrites
    BY <2>0, Constants
  <2>2. PICK k \in Kinds : file' = [file EXCEPT !.version = file.version + 1, !.kind = k]
    BY <1>1 DEF Edit
  <2>3. file' \in Documents
    BY <2>0, <2>1, <2>2 DEF Documents
  <2> QED BY <1>1, <2>3 DEF TypeOK, Edit, socket, endpoint
<1>2. ASSUME NEW c \in Clients, Load(c) \/ Grant(c) \/ Write(c) \/ CommandFails(c) \/ Connect(c)
      PROVE  TypeOK'
  <2>0. c \in Loops /\ task[c] \in Task /\ file \in Documents
    BY Constants DEF TypeOK
  <2>1. CASE Load(c)
    <3>1. [task[c] EXCEPT !.at = "loaded", !.seen = file] \in Task
      BY <2>0 DEF Task
    <3>2. task' = [task EXCEPT ![c] = [task[c] EXCEPT !.at = "loaded", !.seen = file]]
      BY <2>1, <2>0 DEF Load, TypeOK
    <3> QED BY <2>1, <3>1, <3>2 DEF TypeOK, Load, socket, endpoint
  <2>2. ASSUME NEW to \in {"ready", "granted", "failed", "done"},
               task' = [task EXCEPT ![c].at = to]
        PROVE  task' \in [Loops -> Task]
    <3>1. [task[c] EXCEPT !.at = to] \in Task
      BY <2>0 DEF Task
    <3> QED BY <2>2, <3>1 DEF TypeOK
  <2>3. CASE Grant(c)
    BY <2>2, <2>3 DEF TypeOK, Grant, GrantFile, Token, socket, endpoint
  <2>4. CASE Write(c)
    <3>1. Changed(task[c].seen, c) \in Documents
      BY <2>0, Constants DEF Changed, Documents, Task
    <3>2. \A document \in Documents : file.version < MaxWrites =>
              [document EXCEPT !.version = file.version + 1] \in Documents
      BY <2>0, Constants DEF Documents
    <3>3. file' \in Documents /\ open' = FALSE
      BY <2>4, <3>1, <3>2 DEF Write, WriteAtomic
    <3>4. task' \in [Loops -> Task]
      <4> DEFINE crossed == \E x \in Clients \ {c} : task[x].at \in {"loaded", "ready"}
      <4>1. [NoTask EXCEPT !.at = "written", !.wrote = TRUE, !.crossed = crossed] \in Task
        BY Constants DEF Task
      <4> QED BY <2>4, <4>1 DEF Write, TypeOK
    <3> QED BY <2>4, <3>3, <3>4 DEF TypeOK, Write, socket, endpoint
  <2>5. CASE CommandFails(c)
    BY <2>2, <2>5, Constants DEF TypeOK, CommandFails, Token, endpoint
  <2>6. CASE Connect(c)
    <3>1. path \in [by : Daemons, private : BOOLEAN]
      BY <2>6 DEF Connect, TypeOK
    <3>1a. path.by \in Daemons
      BY <3>1
    <3>2. [task[c] EXCEPT !.at = "connected", !.of = path.by] \in Task
      BY <2>0, <3>1a DEF Task
    <3>3. task' \in [Loops -> Task]
      BY <2>6, <3>2 DEF Connect, TypeOK
    <3>4. UNCHANGED <<socket, file, open, conf, first>>
      BY <2>6 DEF Connect
    <3> QED BY <3>3, <3>4 DEF TypeOK, socket, endpoint
  <2> QED BY <1>2, <2>1, <2>3, <2>4, <2>5, <2>6
<1> QED BY <1>1, <1>2

(* The loops' own steps keep the types: they touch the tasks and what is in  *)
(* force.                                                                    *)
LEMMA ReloadTypes ==
    ASSUME TypeOK,
           \/ \E d \in Daemons : HangUp(d)
           \/ \E c \in Loops : CompileAgain(c) \/ Apply(c) \/ NoReload(c) \/ EndClient(c)
    PROVE  TypeOK'
<1>1. ASSUME NEW d \in Daemons, HangUp(d) PROVE TypeOK'
  <2>1. [NoTask EXCEPT !.at = "connected", !.of = d] \in Task
    <3>1. NoTask \in Task
      BY Constants
    <3> QED BY <3>1 DEF Task
  <2> DEFINE new == [NoTask EXCEPT !.at = "connected", !.of = d]
  <2>2. task' = [task EXCEPT ![Hangup] = new] /\ faults' = faults + 1 /\ faults < MaxFaults
    BY <1>1 DEF HangUp
  <2> HIDE DEF new
  <2>3. task' \in [Loops -> Task]
    BY <2>1, <2>2, Constants DEF TypeOK, new
  <2>4. UNCHANGED <<endpoint, file, open, conf, first>>
    BY <1>1 DEF HangUp
  <2>5. faults' \in 0..MaxFaults
    BY <2>2, Constants DEF TypeOK
  <2> QED BY <2>3, <2>4, <2>5 DEF TypeOK, endpoint
<1>2. ASSUME NEW c \in Loops, CompileAgain(c) \/ Apply(c) \/ NoReload(c) \/ EndClient(c)
      PROVE  TypeOK'
  <2>0. task[c] \in Task /\ file \in Documents /\ task \in [Loops -> Task]
    BY DEF TypeOK
  <2>1. CASE CompileAgain(c)
    <3>1. [task[c] EXCEPT !.at = "compiled", !.seen = file] \in Task
      BY <2>0 DEF Task
    <3>2. task' \in [Loops -> Task]
      BY <2>0, <2>1, <3>1, AnsweringIs DEF CompileAgain
    <3> QED BY <2>1, <3>2 DEF TypeOK, CompileAgain, socket, endpoint
  <2>2. CASE Apply(c)
    <3>1. task[c].seen \in Documents
      BY <2>0 DEF Task
    <3>2. conf' \in [Daemons -> Documents]
      BY <2>2, <3>1 DEF Apply, TypeOK
    <3>3. \A x \in Loops : [task[x] EXCEPT !.late = TRUE] \in Task
      BY <2>0 DEF Task
    <3>4. task' \in [Loops -> Task]
      BY <2>0, <2>2, <3>3, AnsweringIs DEF Apply
    <3> QED BY <2>2, <3>2, <3>4 DEF TypeOK, Apply, socket, endpoint
  <2>3. CASE NoReload(c)
    BY <2>0, <2>3, AnsweringIs DEF TypeOK, NoReload, socket, endpoint
  <2>4. CASE EndClient(c)
    <3>1. [NoTask EXCEPT !.at = "done"] \in Task
      BY Constants DEF Task
    <3> QED BY <2>0, <2>4, <3>1 DEF TypeOK, EndClient, socket, endpoint
  <2> QED BY <1>2, <2>1, <2>2, <2>3, <2>4
<1> QED BY <1>1, <1>2

(* No step leaves the types. *)
LEMMA TypeStep ==
    ASSUME TypeOK, [Next]_vars
    PROVE  TypeOK'
<1>1. CASE Next
  BY <1>1, SocketTypes, LifeTypes, WriterTypes, ReloadTypes DEF Next
<1>2. CASE UNCHANGED vars
  BY <1>2 DEF vars, TypeOK
<1> QED BY <1>1, <1>2

(* Every variable keeps its type: how far a start has come, which daemon's    *)
(* metrics listener has an address, what a command has loaded, how many       *)
(* writes there were.                                                         *)
THEOREM TypeCorrect == Spec => []TypeOK
<1>1. Init => TypeOK
  BY InitInv DEF IInv
<1>2. TypeOK /\ [Next]_vars => TypeOK'
  BY TypeStep
<1> QED BY <1>1, <1>2, PTL DEF Spec

----------------------------------------------------------------------------
(* What each action does to a task, and what it leaves alone.                *)

Others(c) == \A x \in Loops \ {c} : task'[x] = task[x]
Same(c)   == /\ task'[c].of = task[c].of /\ task'[c].wrote = task[c].wrote
             /\ task'[c].crossed = task[c].crossed
Ended(c)  == task'[c].at \in {"idle", "answer", "done"} /\ ~task'[c].wrote
NoneDown  == \A d \in Daemons : pc'[d] = "down" => pc[d] = "down"
Settings  == <<file, open, conf, first>>

(* No daemon goes back to where it was before its start.                     *)
LEMMA NeverDown ==
    ASSUME TypeOK, [Next]_vars
    PROVE  NoneDown
<1>1. ASSUME NEW d \in Daemons,
             \/ Compile(d) \/ StartMetrics(d) \/ Inspect(d) \/ Probe(d) \/ Replace(d) \/ Bind(d)
             \/ Restrict(d) \/ Stop(d) \/ Unlink(d) \/ Leave(d) \/ Crash(d) \/ LoseControl(d)
      PROVE  NoneDown
  <2>1. \E to \in Phases \ {"down"} : pc' = [pc EXCEPT ![d] = to]
    BY <1>1 DEF Compile, StartMetrics, Inspect, Probe, Replace, Bind, Restrict, Stop, Unlink,
                Leave, Crash, LoseControl, Refuse, Go, Phases
  <2> QED BY <2>1 DEF NoneDown, TypeOK
<1>2. ASSUME NEW d \in Daemons, LoseMetrics(d) \/ HangUp(d) PROVE NoneDown
  BY <1>2 DEF LoseMetrics, HangUp, endpoint, NoneDown
<1>3. CASE Edit
  BY <1>3 DEF Edit, socket, endpoint, NoneDown
<1>4. ASSUME NEW c \in Clients, Load(c) \/ Grant(c) \/ Write(c) \/ CommandFails(c) \/ Connect(c)
      PROVE  NoneDown
  BY <1>4 DEF Load, Grant, Write, CommandFails, Connect, socket, endpoint, NoneDown
<1>5. ASSUME NEW c \in Loops, CompileAgain(c) \/ Apply(c) \/ NoReload(c) \/ EndClient(c)
      PROVE  NoneDown
  BY <1>5 DEF CompileAgain, Apply, NoReload, EndClient, socket, endpoint, NoneDown
<1>6. CASE UNCHANGED vars
  BY <1>6 DEF vars, NoneDown
<1> QED BY <1>1, <1>2, <1>3, <1>4, <1>5, <1>6 DEF Next

(* The steps of the socket do not touch the configuration or a task.         *)
LEMMA SocketEffect ==
    ASSUME NEW d \in Daemons,
           \/ StartMetrics(d) \/ Inspect(d) \/ Probe(d) \/ Replace(d) \/ Bind(d) \/ Restrict(d)
           \/ Stop(d) \/ Unlink(d) \/ LoseMetrics(d) \/ LoseControl(d)
    PROVE  UNCHANGED <<task, Settings>>
BY DEF StartMetrics, Inspect, Probe, Replace, Bind, Restrict, Stop, Unlink, LoseMetrics,
       LoseControl, config, Settings

(* The token commands (auth.rs create, revoke).                              *)
LEMMA LoadEffect ==
    ASSUME TypeOK, NEW c \in Clients, Load(c)
    PROVE  /\ Others(c) /\ Same(c) /\ task'[c].at = "loaded" /\ task'[c].seen = file
           /\ task[c].at = "idle" /\ UNCHANGED Settings
<1>1. task \in [Loops -> Task] /\ c \in Loops /\ task[c] \in Task
  BY Constants DEF TypeOK
<1>2. task' = [task EXCEPT ![c] = [task[c] EXCEPT !.at = "loaded", !.seen = file]]
  BY <1>1 DEF Load
<1>3. task[c].at = "idle" /\ UNCHANGED Settings
  BY DEF Load, Settings
<1> QED BY <1>1, <1>2, <1>3 DEF Others, Same, Task

LEMMA TokenEffect ==
    ASSUME TypeOK, NEW c, NEW from, NEW to, Token(c, from, to)
    PROVE  /\ c \in Clients /\ task[c].at = from /\ task'[c].at = to
           /\ Others(c) /\ Same(c) /\ task'[c].seen = task[c].seen
<1>1. c \in Clients /\ task[c].at = from /\ task' = [task EXCEPT ![c].at = to]
  BY DEF Token
<1>2. task \in [Loops -> Task] /\ c \in Loops /\ task[c] \in Task
  BY <1>1, Constants DEF TypeOK
<1>3. task'[c] = [task[c] EXCEPT !.at = to] /\ Others(c)
  BY <1>1, <1>2 DEF Others
<1> QED BY <1>1, <1>2, <1>3 DEF Same, Task

LEMMA WriteEffect ==
    ASSUME TypeOK, NEW c \in Clients, Write(c)
    PROVE  /\ task[c].at = "ready" /\ Others(c)
           /\ task'[c].at = "written" /\ task'[c].of = None
           /\ task'[c].crossed = (\E x \in Clients \ {c} : task[x].at \in {"loaded", "ready"})
           /\ file'.has = task[c].seen.has \cup {c} /\ file'.version = file.version + 1
           /\ ~open' /\ UNCHANGED <<conf, first>>
<1>1. /\ task \in [Loops -> Task] /\ c \in Loops /\ task[c].seen \in Documents
      /\ file.version \in Nat
  BY Constants DEF TypeOK, Task, Documents
<1>2. Changed(task[c].seen, c) \in [version : Nat, has : SUBSET Clients, kind : Kinds]
  BY <1>1 DEF Changed, Documents
<1>3. Changed(task[c].seen, c).has = task[c].seen.has \cup {c}
  BY <1>1 DEF Changed, Documents
<1>4. file' = [Changed(task[c].seen, c) EXCEPT !.version = file.version + 1] /\ ~open'
  BY DEF Write, WriteAtomic
<1>5. file'.has = task[c].seen.has \cup {c} /\ file'.version = file.version + 1
  BY <1>2, <1>3, <1>4
<1> DEFINE crossed == \E x \in Clients \ {c} : task[x].at \in {"loaded", "ready"}
           new == [NoTask EXCEPT !.at = "written", !.wrote = TRUE, !.crossed = crossed]
<1>6. task[c].at = "ready" /\ task' = [task EXCEPT ![c] = new] /\ UNCHANGED <<conf, first>>
  BY DEF Write
<1> HIDE DEF crossed
<1>7. new.at = "written" /\ new.of = None /\ new.crossed = crossed
  BY DEF NoTask
<1> HIDE DEF new
<1>8. Others(c) /\ task'[c] = new
  BY <1>1, <1>6 DEF Others
<1> QED BY <1>4, <1>5, <1>6, <1>7, <1>8 DEF crossed

(* The clients of the control socket, and the signal's branch.               *)
LEMMA ConnectEffect ==
    ASSUME TypeOK, NEW c \in Clients, Connect(c)
    PROVE  /\ Others(c) /\ task[c].at \in {"idle", "granted"} /\ task'[c].at = "connected"
           /\ task'[c].of \in Daemons /\ pc[task'[c].of] = "up" /\ UNCHANGED <<pc, Settings>>
           /\ task'[c].wrote = task[c].wrote /\ task'[c].crossed = task[c].crossed
<1>1. task \in [Loops -> Task] /\ c \in Loops /\ task[c] \in Task
  BY Constants DEF TypeOK
<1>2. /\ task' = [task EXCEPT ![c] = [task[c] EXCEPT !.at = "connected", !.of = path.by]]
      /\ path # NoFile /\ pc[path.by] = "up" /\ task[c].at \in {"idle", "granted"}
      /\ UNCHANGED <<pc, Settings>>
  BY DEF Connect, socket, endpoint, Settings
<1>3. path \in [by : Daemons, private : BOOLEAN]
  BY <1>2 DEF TypeOK
<1>4. task'[c] = [task[c] EXCEPT !.at = "connected", !.of = path.by] /\ Others(c)
  BY <1>1, <1>2 DEF Others
<1>5. /\ task'[c].at = "connected" /\ task'[c].of = path.by
      /\ task'[c].wrote = task[c].wrote /\ task'[c].crossed = task[c].crossed
  BY <1>1, <1>4 DEF Task
<1> QED BY <1>2, <1>3, <1>4, <1>5

LEMMA HangUpEffect ==
    ASSUME TypeOK, NEW d \in Daemons, HangUp(d)
    PROVE  /\ Others(Hangup) /\ task'[Hangup].at = "connected" /\ task'[Hangup].of = d
           /\ pc[d] # "down" /\ UNCHANGED <<pc, Settings>>
<1> DEFINE new == [NoTask EXCEPT !.at = "connected", !.of = d]
<1>1. /\ task' = [task EXCEPT ![Hangup] = new] /\ pc[d] # "down"
      /\ UNCHANGED <<pc, Settings>>
  BY DEF HangUp, endpoint, Settings
<1>2. new.at = "connected" /\ new.of = d
  BY DEF NoTask
<1> HIDE DEF new
<1> QED BY <1>1, <1>2, Constants DEF Others, TypeOK

LEMMA CompileEffect ==
    ASSUME TypeOK, NEW c \in Loops, CompileAgain(c)
    PROVE  /\ Others(c) /\ task[c].at = "connected" /\ UNCHANGED <<pc, Settings>>
           /\ \/ Same(c) /\ task'[c].at = "compiled" /\ task'[c].seen = file
              \/ Ended(c)
<1>1. task \in [Loops -> Task] /\ task[c] \in Task
  BY DEF TypeOK
<1>2. task[c].at = "connected" /\ UNCHANGED <<pc, Settings>>
  BY DEF CompileAgain, socket, endpoint, Settings
<1>3. \/ task' = [task EXCEPT ![c] = [task[c] EXCEPT !.at = "compiled", !.seen = file]]
      \/ task' = [task EXCEPT ![c] = Answering(c, FALSE)]
  BY DEF CompileAgain
<1>4. Others(c)
  BY <1>1, <1>3 DEF Others
<1>5. CASE task' = [task EXCEPT ![c] = [task[c] EXCEPT !.at = "compiled", !.seen = file]]
  BY <1>1, <1>2, <1>4, <1>5 DEF Same, Task
<1>6. CASE task' = [task EXCEPT ![c] = Answering(c, FALSE)]
  BY <1>1, <1>2, <1>4, <1>6, AnsweringIs DEF Ended
<1> QED BY <1>3, <1>5, <1>6

LEMMA ApplyEffect ==
    ASSUME TypeOK, NEW c \in Loops, Apply(c)
    PROVE  LET d == task[c].of
           IN  /\ task[c].at = "compiled" /\ Ended(c) /\ UNCHANGED <<pc, file, open, first>>
               /\ \/ Others(c) /\ UNCHANGED conf /\ ~task'[c].ok
                  \/ /\ RestartPart[conf[d].kind] = RestartPart[task[c].seen.kind]
                     /\ conf' = [conf EXCEPT ![d] = task[c].seen]
                     /\ \A x \in Loops \ {c} :
                           /\ Same(x) /\ task'[x].at = task[x].at
                           /\ task'[x].seen = task[x].seen
                           /\ \/ task'[x].late
                              \/ task'[x] = task[x] /\ ~(task[x].at = "compiled" /\ task[x].of = d)
<1> DEFINE d == task[c].of
<1>1. task \in [Loops -> Task] /\ task[c] \in Task
  BY DEF TypeOK
<1>2. task[c].at = "compiled" /\ UNCHANGED <<pc, file, open, first>>
  BY DEF Apply, socket, endpoint
<1>3. CASE Compatible(conf[d].kind, task[c].seen.kind)
  <2>1. /\ conf' = [conf EXCEPT ![d] = task[c].seen]
        /\ task' = [x \in Loops |->
                       IF x = c THEN Answering(c, TRUE)
                       ELSE IF task[x].at = "compiled" /\ task[x].of = d
                            THEN [task[x] EXCEPT !.late = TRUE]
                            ELSE task[x]]
    BY <1>3 DEF Apply
  <2>2. Ended(c)
    BY <2>1, AnsweringIs DEF Ended
  <2>3. ASSUME NEW x \in Loops \ {c}
        PROVE  /\ Same(x) /\ task'[x].at = task[x].at /\ task'[x].seen = task[x].seen
               /\ \/ task'[x].late
                  \/ task'[x] = task[x] /\ ~(task[x].at = "compiled" /\ task[x].of = d)
    <3>1. CASE task[x].at = "compiled" /\ task[x].of = d
      <4>1. task[x] \in Task /\ task'[x] = [task[x] EXCEPT !.late = TRUE]
        BY <1>1, <2>1, <3>1
      <4> QED BY <4>1 DEF Same, Task
    <3>2. CASE ~(task[x].at = "compiled" /\ task[x].of = d)
      <4>1. task'[x] = task[x]
        BY <2>1, <3>2
      <4> QED BY <3>2, <4>1 DEF Same
    <3> QED BY <3>1, <3>2
  <2> QED BY <1>2, <1>3, <2>1, <2>2, <2>3 DEF Compatible
<1>4. CASE ~Compatible(conf[d].kind, task[c].seen.kind)
  <2>1. task' = [task EXCEPT ![c] = Answering(c, FALSE)] /\ UNCHANGED conf
    BY <1>4 DEF Apply
  <2>2. Others(c) /\ task'[c] = Answering(c, FALSE)
    BY <1>1, <2>1 DEF Others
  <2> QED BY <1>2, <2>1, <2>2, AnsweringIs DEF Ended
<1> QED BY <1>3, <1>4

LEMMA AnswerEffect ==
    ASSUME TypeOK, NEW c \in Loops, NoReload(c) \/ EndClient(c)
    PROVE  /\ Others(c) /\ Ended(c) /\ UNCHANGED <<pc, Settings>>
           /\ task[c].at \in {"connected", "answer", "granted"}
<1>1. CASE NoReload(c)
  BY <1>1, AnsweringIs DEF NoReload, Ended, Others, TypeOK, socket, endpoint, Settings
<1>2. CASE EndClient(c)
  <2>1. [NoTask EXCEPT !.at = "done"].at = "done" /\ ~[NoTask EXCEPT !.at = "done"].wrote
    BY DEF NoTask
  <2> QED BY <1>2, <2>1 DEF EndClient, Ended, Others, TypeOK, socket, endpoint, Settings
<1> QED BY <1>1, <1>2

----------------------------------------------------------------------------
(* The parts of the invariant, one by one.                                   *)

(* Only a start and a reload change what is in force (lifecycle.rs serve,    *)
(* transport_context.rs reload).                                             *)
LEMMA ForceChanges ==
    ASSUME [Next]_vars
    PROVE  \/ \E d \in Daemons : Compile(d)
           \/ \E c \in Loops : Apply(c)
           \/ UNCHANGED <<conf, first>>
<1>1. ASSUME NEW d \in Daemons,
             \/ StartMetrics(d) \/ Inspect(d) \/ Probe(d) \/ Replace(d) \/ Bind(d) \/ Restrict(d)
             \/ Stop(d) \/ Unlink(d) \/ LoseMetrics(d) \/ LoseControl(d)
             \/ Leave(d) \/ Crash(d) \/ HangUp(d)
      PROVE  UNCHANGED <<conf, first>>
  BY <1>1, SocketEffect DEF Settings, Leave, Crash, HangUp
<1>2. ASSUME NEW c \in Clients, Load(c) \/ Grant(c) \/ Write(c) \/ CommandFails(c) \/ Connect(c)
      PROVE  UNCHANGED <<conf, first>>
  BY <1>2 DEF Load, Grant, Write, CommandFails, Connect
<1>3. ASSUME NEW c \in Loops, CompileAgain(c) \/ NoReload(c) \/ EndClient(c)
      PROVE  UNCHANGED <<conf, first>>
  BY <1>3 DEF CompileAgain, NoReload, EndClient
<1>4. Edit \/ UNCHANGED vars => UNCHANGED <<conf, first>>
  BY DEF Edit, vars
<1> QED BY <1>1, <1>2, <1>3, <1>4 DEF Next

(* A reload keeps what the start fixed.                                      *)
LEMMA RestartStep ==
    ASSUME IInv, [Next]_vars
    PROVE  RestartFieldsKept'
<1> USE DEF IInv
<1>1. ASSUME NEW d \in Daemons, Compile(d) PROVE RestartFieldsKept'
  BY <1>1 DEF Compile, RestartFieldsKept, TypeOK
<1>2. ASSUME NEW c \in Loops, Apply(c) PROVE RestartFieldsKept'
  <2> DEFINE d == task[c].of
  <2>1. \/ UNCHANGED <<conf, first>>
        \/ /\ UNCHANGED first /\ conf' = [conf EXCEPT ![d] = task[c].seen]
           /\ RestartPart[conf[d].kind] = RestartPart[task[c].seen.kind]
    BY <1>2, ApplyEffect
  <2> QED BY <2>1 DEF RestartFieldsKept, TypeOK
<1>3. CASE UNCHANGED <<conf, first>>
  BY <1>3 DEF RestartFieldsKept
<1> QED BY <1>1, <1>2, <1>3, ForceChanges

(* A daemon's end drops its own tasks, which are those of no command that    *)
(* still writes (Leave, Crash).                                              *)
LEMMA TasksEffect ==
    ASSUME TypeOK, NEW d \in Daemons, Leave(d) \/ Crash(d)
    PROVE  /\ \A c \in Loops : task'[c] = task[c] \/ (Ended(c) /\ task[c].of = d)
           /\ UNCHANGED Settings
<1>1. task' = Tasks(d) /\ UNCHANGED Settings
  BY DEF Leave, Crash, Settings
<1> QED BY <1>1, TasksIs DEF Ended

(* The worker's file: only a rename takes the permission away, and the       *)
(* command that renamed has it back, or has failed.                          *)
LEMMA ReadStep ==
    ASSUME IInv, [Next]_vars
    PROVE  WorkerMayRead'
<1> USE DEF IInv
<1> DEFINE Between(c) == task[c].at \in {"written", "failed"}
<1>0. WorkerMayRead' <=> open' \/ \E c \in Clients : Between(c)'
  BY DEF WorkerMayRead
<1>1. ASSUME open' = open, \A c \in Clients : Between(c) => Between(c)'
      PROVE  WorkerMayRead'
  BY <1>0, <1>1 DEF WorkerMayRead
<1>2. ASSUME NEW c \in Loops, Others(c), open' = open, ~Between(c)
      PROVE  WorkerMayRead'
  BY <1>1, <1>2, Constants DEF Others
<1>3. ASSUME NEW d \in Daemons,
             \/ StartMetrics(d) \/ Inspect(d) \/ Probe(d) \/ Replace(d) \/ Bind(d) \/ Restrict(d)
             \/ Stop(d) \/ Unlink(d) \/ LoseMetrics(d) \/ LoseControl(d)
      PROVE  WorkerMayRead'
  BY <1>1, <1>3, SocketEffect DEF Settings
<1>4. ASSUME NEW d \in Daemons, Compile(d) PROVE WorkerMayRead'
  BY <1>1, <1>4 DEF Compile
<1>5. ASSUME NEW d \in Daemons, Leave(d) \/ Crash(d) PROVE WorkerMayRead'
  <2>1. \A c \in Clients : Between(c) => task'[c] = task[c]
    BY <1>5, TasksEffect, Constants DEF TasksOfDaemons
  <2> QED BY <1>1, <1>5, <2>1, TasksEffect DEF Settings
<1>6. ASSUME NEW d \in Daemons, HangUp(d) PROVE WorkerMayRead'
  <2>1. \A c \in Clients : task'[c] = task[c]
    BY <1>6, HangUpEffect, Constants DEF Others
  <2> QED BY <1>1, <1>6, <2>1, HangUpEffect DEF Settings
<1>7. CASE Edit
  BY <1>1, <1>7 DEF Edit
<1>8. ASSUME NEW c \in Clients, Load(c) \/ Connect(c) PROVE WorkerMayRead'
  BY <1>2, <1>8, LoadEffect, ConnectEffect, Constants DEF Settings
<1>9. ASSUME NEW c \in Clients, Grant(c) PROVE WorkerMayRead'
  <2>1. CASE open'
    BY <1>0, <2>1
  <2>2. CASE Token(c, "written", "failed")
    BY <1>0, <2>2, TokenEffect
  <2> QED BY <1>9, <2>1, <2>2 DEF Grant, GrantFile
<1>10. ASSUME NEW c \in Clients, Write(c) PROVE WorkerMayRead'
  BY <1>0, <1>10, WriteEffect
<1>11. ASSUME NEW c \in Clients, CommandFails(c) PROVE WorkerMayRead'
  <2>1. open' = open
    BY <1>11 DEF CommandFails
  <2>2. CASE Token(c, "written", "failed")
    BY <1>0, <2>2, TokenEffect
  <2>3. CASE Token(c, "loaded", "done") \/ Token(c, "ready", "done")
    BY <1>2, <2>1, <2>3, TokenEffect, Constants
  <2> QED BY <1>11, <2>2, <2>3 DEF CommandFails
<1>12. ASSUME NEW c \in Loops, CompileAgain(c) \/ NoReload(c) \/ EndClient(c)
       PROVE  WorkerMayRead'
  BY <1>2, <1>12, CompileEffect, AnswerEffect DEF Settings
<1>13. ASSUME NEW c \in Loops, Apply(c) PROVE WorkerMayRead'
  <2>1. task[c].at = "compiled" /\ open' = open
    BY <1>13, ApplyEffect
  <2>2. \A x \in Loops \ {c} : task'[x].at = task[x].at
    BY <1>13, ApplyEffect DEF Others
  <2> QED BY <1>1, <2>1, <2>2, Constants
<1>14. CASE UNCHANGED vars
  BY <1>1, <1>14 DEF vars
<1> QED BY <1>3, <1>4, <1>5, <1>6, <1>7, <1>8, <1>9, <1>10, <1>11, <1>12, <1>13, <1>14 DEF Next

(* A step that leaves the file's tokens alone carries the changes as long as *)
(* no task makes up what it has written or what it has read.                 *)
Keeps(x) ==
    /\ task'[x].wrote => task[x].wrote /\ task'[x].crossed = task[x].crossed
    /\ task'[x].at \in {"loaded", "ready", "compiled"} =>
          \/ task'[x].seen = file
          \/ /\ task'[x].seen = task[x].seen
             /\ \/ task'[x].at = task[x].at
                \/ task[x].at = "loaded" /\ task'[x].at = "ready"

LEMMA CarriedByAll ==
    ASSUME ChangesCarried, file'.has = file.has, \A x \in Clients : Keeps(x)
    PROVE  ChangesCarried'
<1> SUFFICES ASSUME NEW c \in Clients, task'[c].wrote, ~task'[c].crossed
             PROVE  /\ c \in file'.has
                    /\ \A x \in Clients : task'[x].at \in {"loaded", "ready"}
                                              => c \in task'[x].seen.has
                    /\ task'[c].at = "compiled" => c \in task'[c].seen.has
  BY DEF ChangesCarried
<1>1. task[c].wrote /\ ~task[c].crossed
  BY DEF Keeps
<1>2. /\ c \in file.has
      /\ \A x \in Clients : task[x].at \in {"loaded", "ready"} => c \in task[x].seen.has
      /\ task[c].at = "compiled" => c \in task[c].seen.has
  BY <1>1 DEF ChangesCarried
<1>3. ASSUME NEW x \in Clients, task'[x].at \in {"loaded", "ready"}
      PROVE  c \in task'[x].seen.has
  BY <1>2, <1>3 DEF Keeps
<1>4. ASSUME task'[c].at = "compiled" PROVE c \in task'[c].seen.has
  BY <1>2, <1>4 DEF Keeps
<1> QED BY <1>2, <1>3, <1>4

(* The step of one task, the others keeping still.                           *)
LEMMA CarriedByOne ==
    ASSUME ChangesCarried, file'.has = file.has,
           NEW c \in Loops, Others(c), Keeps(c) \/ Ended(c)
    PROVE  ChangesCarried'
<1>1. \A x \in Clients : Keeps(x)
  BY Constants DEF Others, Keeps, Ended
<1> QED BY <1>1, CarriedByAll

(* The tokens: what two commands make of one file (auth.rs create, revoke).  *)
LEMMA CarriedStep ==
    ASSUME IInv, [Next]_vars
    PROVE  ChangesCarried'
<1> USE DEF IInv
<1>1. ASSUME file'.has = file.has, UNCHANGED task PROVE ChangesCarried'
  BY <1>1, CarriedByAll DEF Keeps
<1>2. ASSUME NEW d \in Daemons,
             \/ StartMetrics(d) \/ Inspect(d) \/ Probe(d) \/ Replace(d) \/ Bind(d) \/ Restrict(d)
             \/ Stop(d) \/ Unlink(d) \/ LoseMetrics(d) \/ LoseControl(d)
      PROVE  ChangesCarried'
  BY <1>1, <1>2, SocketEffect DEF Settings
<1>3. ASSUME NEW d \in Daemons, Compile(d) PROVE ChangesCarried'
  BY <1>1, <1>3 DEF Compile
<1>4. ASSUME NEW d \in Daemons, Leave(d) \/ Crash(d) PROVE ChangesCarried'
  <2>1. \A x \in Clients : Keeps(x)
    BY <1>4, TasksEffect, Constants DEF Keeps, Ended
  <2> QED BY <1>4, <2>1, TasksEffect, CarriedByAll DEF Settings
<1>5. ASSUME NEW d \in Daemons, HangUp(d) PROVE ChangesCarried'
  <2>1. \A x \in Clients : Keeps(x)
    BY <1>5, HangUpEffect, Constants DEF Keeps, Others
  <2> QED BY <1>5, <2>1, HangUpEffect, CarriedByAll DEF Settings
<1>6. CASE Edit
  <2>1. file \in Documents
    BY DEF TypeOK
  <2>2. PICK k \in Kinds : file' = [file EXCEPT !.version = file.version + 1, !.kind = k]
    BY <1>6 DEF Edit
  <2>3. file'.has = file.has
    BY <2>1, <2>2 DEF Documents
  <2> QED BY <1>1, <1>6, <2>3 DEF Edit
<1>7. ASSUME NEW c \in Clients, Load(c) PROVE ChangesCarried'
  <2>1. Keeps(c)
    BY <1>7, LoadEffect DEF Keeps, Same
  <2> QED BY <1>7, <2>1, LoadEffect, CarriedByOne, Constants DEF Settings
<1>8. ASSUME NEW c \in Clients, NEW from, NEW to, Token(c, from, to), UNCHANGED file,
             (from = "loaded" /\ to = "ready") \/ to \in {"granted", "failed", "done"}
      PROVE  ChangesCarried'
  <2>1. Keeps(c)
    BY <1>8, TokenEffect DEF Keeps, Same
  <2> QED BY <1>8, <2>1, TokenEffect, CarriedByOne, Constants
<1>9. ASSUME NEW c \in Clients, Grant(c) \/ CommandFails(c) PROVE ChangesCarried'
  BY <1>8, <1>9 DEF Grant, CommandFails
<1>10. ASSUME NEW c \in Clients, Write(c) PROVE ChangesCarried'
  <2>0. /\ task[c].at = "ready" /\ Others(c) /\ task'[c].at = "written"
        /\ task'[c].crossed = (\E x \in Clients \ {c} : task[x].at \in {"loaded", "ready"})
        /\ file'.has = task[c].seen.has \cup {c}
    BY <1>10, WriteEffect
  <2>1. ASSUME ~task'[c].crossed, NEW x \in Clients, task'[x].at \in {"loaded", "ready"}
        PROVE  FALSE
    BY <2>0, <2>1, Constants DEF Others
  <2>2. ASSUME NEW x \in Clients \ {c}, task'[x].wrote, ~task'[x].crossed
        PROVE  /\ x \in file'.has
               /\ \A y \in Clients : task'[y].at \in {"loaded", "ready"}
                                         => x \in task'[y].seen.has
               /\ task'[x].at = "compiled" => x \in task'[x].seen.has
    <3>1. task'[x] = task[x] /\ \A y \in Clients \ {c} : task'[y] = task[y]
      BY <2>0, Constants DEF Others
    <3>2. /\ \A y \in Clients : task[y].at \in {"loaded", "ready"} => x \in task[y].seen.has
          /\ task[x].at = "compiled" => x \in task[x].seen.has
      BY <2>2, <3>1 DEF ChangesCarried
    <3> QED BY <2>0, <3>1, <3>2
  <2> QED BY <2>0, <2>1, <2>2 DEF ChangesCarried
<1>11. ASSUME NEW c \in Clients, Connect(c) PROVE ChangesCarried'
  <2>1. Keeps(c)
    BY <1>11, ConnectEffect DEF Keeps
  <2> QED BY <1>11, <2>1, ConnectEffect, CarriedByOne, Constants DEF Settings
<1>12. ASSUME NEW c \in Loops, CompileAgain(c) PROVE ChangesCarried'
  <2>1. Keeps(c) \/ Ended(c)
    BY <1>12, CompileEffect DEF Keeps, Same
  <2> QED BY <1>12, <2>1, CompileEffect, CarriedByOne DEF Settings
<1>13. ASSUME NEW c \in Loops, NoReload(c) \/ EndClient(c) PROVE ChangesCarried'
  BY <1>13, AnswerEffect, CarriedByOne DEF Settings
<1>14. ASSUME NEW c \in Loops, Apply(c) PROVE ChangesCarried'
  <2>1. file' = file /\ Ended(c)
    BY <1>14, ApplyEffect
  <2>2. \A x \in Loops \ {c} : Keeps(x)
    BY <1>14, ApplyEffect DEF Keeps, Same, Others
  <2>3. Keeps(c)
    BY <2>1 DEF Keeps, Ended
  <2> QED BY <2>1, <2>2, <2>3, CarriedByAll, Constants
<1>15. CASE UNCHANGED vars
  BY <1>1, <1>15 DEF vars
<1> QED BY <1>2, <1>3, <1>4, <1>5, <1>6, <1>7, <1>9, <1>10, <1>11, <1>12, <1>13, <1>14, <1>15
    DEF Next

(* A task that reloads belongs to a daemon that was started (control.rs).    *)
Homed(x) ==
    /\ task'[x].at \in {"connected", "compiled"} =>
          task'[x].of \in Daemons /\ pc[task'[x].of] # "down"
    /\ task'[x].at \in {"written", "failed"} => task'[x].of = None

LEMMA HomedStep ==
    ASSUME IInv, [Next]_vars
    PROVE  TasksOfDaemons'
<1> USE DEF IInv
<1>1. ASSUME \A x \in Loops : Homed(x) PROVE TasksOfDaemons'
  BY <1>1, NeverDown DEF Homed, NoneDown, TasksOfDaemons
<1>2. ASSUME NEW x \in Loops, task'[x] = task[x] PROVE Homed(x)
  BY <1>2 DEF Homed, TasksOfDaemons
<1>3. ASSUME NEW x \in Loops, Ended(x) PROVE Homed(x)
  BY <1>3 DEF Homed, Ended
<1>4. ASSUME NEW c \in Loops, Others(c), Homed(c) PROVE TasksOfDaemons'
  BY <1>1, <1>2, <1>4 DEF Others
<1>5. ASSUME UNCHANGED task PROVE TasksOfDaemons'
  BY <1>1, <1>2, <1>5
<1>6. ASSUME NEW d \in Daemons,
             \/ StartMetrics(d) \/ Inspect(d) \/ Probe(d) \/ Replace(d) \/ Bind(d) \/ Restrict(d)
             \/ Stop(d) \/ Unlink(d) \/ LoseMetrics(d) \/ LoseControl(d) \/ Compile(d)
      PROVE  TasksOfDaemons'
  BY <1>5, <1>6, SocketEffect DEF Compile
<1>7. ASSUME NEW d \in Daemons, Leave(d) \/ Crash(d) PROVE TasksOfDaemons'
  BY <1>1, <1>2, <1>3, <1>7, TasksEffect
<1>8. ASSUME NEW d \in Daemons, HangUp(d) PROVE TasksOfDaemons'
  BY <1>4, <1>8, HangUpEffect, Constants DEF Homed
<1>9. ASSUME NEW c \in Clients, Load(c) PROVE TasksOfDaemons'
  BY <1>4, <1>9, LoadEffect, Constants DEF Homed
<1>10. ASSUME NEW c \in Clients, Grant(c) \/ CommandFails(c) PROVE TasksOfDaemons'
  <2>1. ASSUME NEW from, NEW to, Token(c, from, to),
               to \in {"ready", "granted", "done"} \/ (from = "written" /\ to = "failed")
        PROVE  TasksOfDaemons'
    <3>1. Homed(c)
      BY <2>1, TokenEffect, Constants DEF Homed, Same, TasksOfDaemons
    <3> QED BY <1>4, <2>1, <3>1, TokenEffect, Constants
  <2> QED BY <1>10, <2>1 DEF Grant, CommandFails
<1>11. ASSUME NEW c \in Clients, Write(c) PROVE TasksOfDaemons'
  BY <1>4, <1>11, WriteEffect, Constants DEF Homed
<1>12. ASSUME NEW c \in Clients, Connect(c) PROVE TasksOfDaemons'
  BY <1>4, <1>12, ConnectEffect, Constants DEF Homed
<1>13. ASSUME NEW c \in Loops, CompileAgain(c) PROVE TasksOfDaemons'
  <2>1. Homed(c)
    BY <1>3, <1>13, CompileEffect DEF Homed, Same, TasksOfDaemons
  <2> QED BY <1>4, <1>13, <2>1, CompileEffect
<1>14. ASSUME NEW c \in Loops, NoReload(c) \/ EndClient(c) PROVE TasksOfDaemons'
  BY <1>3, <1>4, <1>14, AnswerEffect
<1>15. ASSUME NEW c \in Loops, Apply(c) PROVE TasksOfDaemons'
  <2>1. \A x \in Loops \ {c} : task'[x].of = task[x].of /\ task'[x].at = task[x].at
    BY <1>15, ApplyEffect DEF Others, Same
  <2>2. \A x \in Loops \ {c} : Homed(x)
    BY <2>1 DEF Homed, TasksOfDaemons
  <2> QED BY <1>1, <1>3, <1>15, <2>2, ApplyEffect
<1>16. CASE Edit \/ UNCHANGED vars
  BY <1>5, <1>16 DEF Edit, vars
<1> QED BY <1>6, <1>7, <1>8, <1>9, <1>10, <1>11, <1>12, <1>13, <1>14, <1>15, <1>16 DEF Next

(* What a task has compiled is in order with the file and with what is in    *)
(* force (control.rs reload reads the file before it takes the lock).        *)
Ordered(x) ==
    task'[x].at = "compiled" =>
       /\ task'[x].seen.version <= file'.version
       /\ ~task'[x].late => conf'[task'[x].of].version <= task'[x].seen.version

LEMMA OrderStep ==
    ASSUME IInv, [Next]_vars
    PROVE  VersionsOrdered'
<1> USE DEF IInv
<1>0. /\ file.version \in Nat /\ \A d \in Daemons : conf[d].version \in Nat
      /\ \A x \in Loops : task[x].seen.version \in Nat
      /\ \A d \in Daemons : conf[d].version <= file.version
  BY DEF TypeOK, Task, Documents, VersionsOrdered
<1>1. ASSUME UNCHANGED conf, file'.version \in Nat, file.version <= file'.version,
             \A x \in Loops : Ordered(x)
      PROVE  VersionsOrdered'
  BY <1>0, <1>1 DEF VersionsOrdered, Ordered
<1>2. ASSUME NEW x \in Loops, task'[x] = task[x], UNCHANGED conf,
             file'.version \in Nat, file.version <= file'.version
      PROVE  Ordered(x)
  BY <1>0, <1>2 DEF Ordered, VersionsOrdered
<1>3. ASSUME NEW c \in Loops, Others(c), task'[c].at # "compiled" \/ Ordered(c),
             UNCHANGED conf, file'.version \in Nat, file.version <= file'.version
      PROVE  VersionsOrdered'
  <2>1. \A x \in Loops : Ordered(x)
    BY <1>2, <1>3 DEF Others, Ordered
  <2> QED BY <1>1, <1>3, <2>1
<1>4. ASSUME NEW c \in Loops, Others(c), task'[c].at # "compiled" \/ Ordered(c),
             UNCHANGED <<conf, file>>
      PROVE  VersionsOrdered'
  BY <1>0, <1>3, <1>4
<1>5. ASSUME UNCHANGED <<conf, task>>, file'.version \in Nat, file.version <= file'.version
      PROVE  VersionsOrdered'
  BY <1>1, <1>2, <1>5
<1>6. ASSUME NEW d \in Daemons,
             \/ StartMetrics(d) \/ Inspect(d) \/ Probe(d) \/ Replace(d) \/ Bind(d) \/ Restrict(d)
             \/ Stop(d) \/ Unlink(d) \/ LoseMetrics(d) \/ LoseControl(d)
      PROVE  VersionsOrdered'
  BY <1>0, <1>5, <1>6, SocketEffect DEF Settings
<1>7. ASSUME NEW d \in Daemons, Compile(d) PROVE VersionsOrdered'
  <2>1. pc[d] = "down" /\ UNCHANGED <<file, task>> /\ conf' = [conf EXCEPT ![d] = file]
    BY <1>7 DEF Compile, Go
  <2>2. \A x \in Loops : task[x].at = "compiled" => task[x].of # d /\ task[x].of \in Daemons
    BY <2>1 DEF TasksOfDaemons
  <2>3. \A e \in Daemons : conf'[e] = IF e = d THEN file ELSE conf[e]
    BY <2>1 DEF TypeOK
  <2> QED BY <1>0, <2>1, <2>2, <2>3 DEF VersionsOrdered
<1>8. ASSUME NEW d \in Daemons, Leave(d) \/ Crash(d) PROVE VersionsOrdered'
  <2>1. UNCHANGED <<conf, file>> /\ \A x \in Loops : task'[x] = task[x] \/ Ended(x)
    BY <1>8, TasksEffect DEF Settings
  <2>2. \A x \in Loops : Ordered(x)
    BY <1>0, <1>2, <2>1 DEF Ended, Ordered
  <2> QED BY <1>0, <1>1, <2>1, <2>2
<1>9. ASSUME NEW d \in Daemons, HangUp(d) PROVE VersionsOrdered'
  BY <1>4, <1>9, HangUpEffect, Constants DEF Settings
<1>10. CASE Edit
  <2>1. file \in Documents
    BY DEF TypeOK
  <2>2. PICK k \in Kinds : file' = [file EXCEPT !.version = file.version + 1, !.kind = k]
    BY <1>10 DEF Edit
  <2>3. file'.version = file.version + 1
    BY <2>1, <2>2 DEF Documents
  <2> QED BY <1>0, <1>5, <1>10, <2>3 DEF Edit
<1>11. ASSUME NEW c \in Clients, Load(c) \/ Connect(c) PROVE VersionsOrdered'
  BY <1>4, <1>11, LoadEffect, ConnectEffect, Constants DEF Settings
<1>12. ASSUME NEW c \in Clients, Grant(c) \/ CommandFails(c) PROVE VersionsOrdered'
  <2>1. PICK from \in {"loaded", "ready", "written"} :
          \E to \in {"ready", "granted", "done", "failed"} : Token(c, from, to)
    BY <1>12 DEF Grant, CommandFails
  <2>2. UNCHANGED <<conf, file>>
    BY <1>12 DEF Grant, CommandFails
  <2> QED BY <1>4, <2>1, <2>2, TokenEffect, Constants
<1>13. ASSUME NEW c \in Clients, Write(c) PROVE VersionsOrdered'
  <2>1. /\ Others(c) /\ task'[c].at = "written" /\ UNCHANGED conf
        /\ file'.version = file.version + 1
    BY <1>13, WriteEffect
  <2>2. file'.version \in Nat /\ file.version <= file'.version /\ task'[c].at # "compiled"
    BY <1>0, <2>1
  <2> QED BY <1>3, <2>1, <2>2, Constants
<1>14. ASSUME NEW c \in Loops, CompileAgain(c) PROVE VersionsOrdered'
  <2>1. Others(c) /\ UNCHANGED <<conf, file>> /\ task[c].at = "connected"
    BY <1>14, CompileEffect DEF Settings
  <2>2. task[c].of \in Daemons
    BY <2>1 DEF TasksOfDaemons
  <2>3. CASE Same(c) /\ task'[c].seen = file
    BY <1>0, <1>4, <2>1, <2>2, <2>3 DEF Same, Ordered
  <2>4. CASE Ended(c)
    BY <1>4, <2>1, <2>4 DEF Ended
  <2> QED BY <1>14, <2>3, <2>4, CompileEffect
<1>15. ASSUME NEW c \in Loops, NoReload(c) \/ EndClient(c) PROVE VersionsOrdered'
  BY <1>4, <1>15, AnswerEffect DEF Settings, Ended
<1>16. ASSUME NEW c \in Loops, Apply(c) PROVE VersionsOrdered'
  <2> DEFINE d == task[c].of
  <2>1. task[c].at = "compiled" /\ file' = file /\ task'[c].at # "compiled"
    BY <1>16, ApplyEffect DEF Ended
  <2>2. CASE Others(c) /\ UNCHANGED conf
    BY <1>4, <2>1, <2>2
  <2>3. CASE /\ conf' = [conf EXCEPT ![d] = task[c].seen]
             /\ \A x \in Loops \ {c} :
                   /\ Same(x) /\ task'[x].at = task[x].at /\ task'[x].seen = task[x].seen
                   /\ \/ task'[x].late
                      \/ task'[x] = task[x] /\ ~(task[x].at = "compiled" /\ task[x].of = d)
    <3>1. task[c].seen.version <= file.version
      BY <2>1 DEF VersionsOrdered
    <3>2. \A e \in Daemons : conf'[e] = IF e = d THEN task[c].seen ELSE conf[e]
      BY <2>3 DEF TypeOK
    <3>3. \A e \in Daemons : conf'[e].version <= file'.version
      BY <1>0, <2>1, <3>1, <3>2
    <3>4. ASSUME NEW x \in Loops, task'[x].at = "compiled"
          PROVE  /\ task'[x].seen.version <= file'.version
                 /\ ~task'[x].late => conf'[task'[x].of].version <= task'[x].seen.version
      <4>1. x # c /\ task[x].at = "compiled" /\ task'[x].seen = task[x].seen
        BY <2>1, <2>3, <3>4
      <4>2. /\ task[x].seen.version <= file.version
            /\ ~task[x].late => conf[task[x].of].version <= task[x].seen.version
        BY <4>1 DEF VersionsOrdered
      <4>3. ASSUME ~task'[x].late
            PROVE  conf'[task'[x].of].version <= task'[x].seen.version
        <5>1. task'[x] = task[x] /\ task[x].of # d
          BY <2>3, <4>1, <4>3
        <5>2. task[x].of \in Daemons
          BY <4>1 DEF TasksOfDaemons
        <5> QED BY <3>2, <4>2, <4>3, <5>1, <5>2
      <4> QED BY <2>1, <4>1, <4>2, <4>3
    <3> QED BY <3>3, <3>4 DEF VersionsOrdered
  <2> QED BY <1>16, <2>2, <2>3, ApplyEffect
<1>17. CASE UNCHANGED vars
  BY <1>0, <1>5, <1>17 DEF vars
<1> QED BY <1>6, <1>7, <1>8, <1>9, <1>10, <1>11, <1>12, <1>13, <1>14, <1>15, <1>16, <1>17 DEF Next

----------------------------------------------------------------------------
(* The invariant is inductive. *)
LEMMA InvStep == IInv /\ [Next]_vars => IInv'
<1> SUFFICES ASSUME IInv, [Next]_vars PROVE IInv'
  OBVIOUS
<1>1. TypeOK'
  BY TypeStep DEF IInv
<1> QED BY <1>1, RestartStep, ReadStep, CarriedStep, OrderStep, HomedStep DEF IInv

(* Whatever daemons start, stop and die, whatever commands and editors do to *)
(* the file they share: what a start fixed stays as it was, the worker may   *)
(* read its file but for a command's rename and grant, and no change is lost *)
(* to a command that began after it.                                         *)
THEOREM IInvCorrect == Spec => []IInv
<1> QED BY InitInv, InvStep, PTL DEF Spec

(* A reload never changes what only a start can open                         *)
(* (ensure_reload_compatible, under TransportContext's lock).                *)
THEOREM RestartFieldsHold == Spec => []RestartFieldsKept
<1>1. IInv => RestartFieldsKept
  BY DEF IInv
<1> QED BY <1>1, IInvCorrect, PTL

(* The worker can read its configuration, but while a token command is       *)
(* between its rename and its grant, or has ended there (auth.rs             *)
(* write_config_with_worker_access).                                         *)
THEOREM WorkerMayReadHolds == Spec => []WorkerMayRead
<1>1. IInv => WorkerMayRead
  BY DEF IInv
<1> QED BY <1>1, IInvCorrect, PTL

(* Only a reload that was applied takes a task from a compiled file to an    *)
(* answer (control.rs dispatch).                                             *)
LEMMA OnlyApplyAnswers ==
    ASSUME TypeOK, [Next]_vars, NEW c \in Clients,
           task[c].at = "compiled", task'[c].at = "answer"
    PROVE  Apply(c)
<1>0. c \in Loops /\ c # Hangup /\ task'[c] # task[c]
  BY Constants
<1>1. ASSUME NEW d \in Daemons,
             \/ StartMetrics(d) \/ Inspect(d) \/ Probe(d) \/ Replace(d) \/ Bind(d) \/ Restrict(d)
             \/ Stop(d) \/ Unlink(d) \/ LoseMetrics(d) \/ LoseControl(d) \/ Compile(d) \/ HangUp(d)
      PROVE  FALSE
  BY <1>0, <1>1, SocketEffect, HangUpEffect DEF Compile, Others
<1>2. ASSUME NEW d \in Daemons, Leave(d) \/ Crash(d) PROVE FALSE
  <2>1. task' = Tasks(d)
    BY <1>2 DEF Leave, Crash
  <2> QED BY <1>0, <2>1, TasksIs
<1>3. ASSUME NEW x \in Clients, Load(x) \/ Write(x) \/ Connect(x) PROVE FALSE
  BY <1>0, <1>3, LoadEffect, WriteEffect, ConnectEffect DEF Others
<1>4. ASSUME NEW x \in Clients, Grant(x) \/ CommandFails(x) PROVE FALSE
  <2>1. PICK from \in {"loaded", "ready", "written"} :
          \E to \in {"ready", "granted", "done", "failed"} : Token(x, from, to)
    BY <1>4 DEF Grant, CommandFails
  <2> QED BY <1>0, <2>1, TokenEffect DEF Others
<1>5. ASSUME NEW x \in Loops, CompileAgain(x) \/ NoReload(x) \/ EndClient(x) PROVE FALSE
  BY <1>0, <1>5, CompileEffect, AnswerEffect DEF Others
<1>6. ASSUME NEW x \in Loops \ {c}, Apply(x) PROVE FALSE
  BY <1>0, <1>6, ApplyEffect DEF Others
<1>7. ~(Edit \/ UNCHANGED vars)
  BY <1>0 DEF Edit, vars
<1> QED BY <1>0, <1>1, <1>2, <1>3, <1>4, <1>5, <1>6, <1>7 DEF Next

(* A token command that is told its reload was made has its change in force, *)
(* unless another had loaded the file when it wrote (auth.rs, control.rs).   *)
THEOREM ReloadCarriesHolds == Spec => ReloadCarriesTheChange
<1>1. ASSUME IInv, [Next]_vars, NEW c \in Clients,
             task[c].at = "compiled", task'[c].at = "answer", task'[c].ok,
             task[c].wrote, ~task[c].crossed
      PROVE  c \in conf'[task[c].of].has
  <2>0. c \in task[c].seen.has /\ task[c].of \in Daemons /\ c \in Loops
    BY <1>1, Constants DEF IInv, ChangesCarried, TasksOfDaemons
  <2>1. Apply(c)
    BY <1>1, OnlyApplyAnswers DEF IInv
  <2>2. conf' = [conf EXCEPT ![task[c].of] = task[c].seen]
    BY <1>1, <2>0, <2>1, ApplyEffect DEF IInv
  <2> QED BY <1>1, <2>0, <2>2 DEF IInv, TypeOK
<1>2. IInv /\ [Next]_vars =>
        \A c \in Clients :
           /\ task[c].at = "compiled" /\ task'[c].at = "answer" /\ task'[c].ok
           /\ task[c].wrote /\ ~task[c].crossed
           => c \in conf'[task[c].of].has
  BY <1>1
<1> QED BY <1>2, IInvCorrect, PTL DEF Spec, ReloadCarriesTheChange

(* The configuration in force goes back to an older version of the file only *)
(* by a reload that another has overtaken (control.rs reload compiles before *)
(* it takes the lock).                                                       *)
THEOREM OnlyOverlapHolds == Spec => OnlyOverlapGoesBack
<1>1. ASSUME IInv, [Next]_vars, NEW d \in Daemons, conf'[d].version < conf[d].version
      PROVE  \E c \in Loops : task[c].of = d /\ task[c].late
  <2>0. /\ conf \in [Daemons -> Documents] /\ file.version \in Nat /\ conf[d].version \in Nat
        /\ \A c \in Loops : task[c].seen.version \in Nat
    BY <1>1 DEF IInv, TypeOK, Task, Documents
  <2>1. ASSUME NEW e \in Daemons, Compile(e) PROVE FALSE
    <3>1. conf'[d] = IF d = e THEN file ELSE conf[d]
      BY <2>0, <2>1 DEF Compile
    <3> QED BY <1>1, <2>0, <3>1 DEF IInv, VersionsOrdered
  <2>2. ASSUME NEW c \in Loops, Apply(c) PROVE task[c].of = d /\ task[c].late
    <3>1. /\ task[c].at = "compiled"
          /\ UNCHANGED conf \/ conf' = [conf EXCEPT ![task[c].of] = task[c].seen]
      BY <1>1, <2>2, ApplyEffect DEF IInv
    <3>2. task[c].of = d /\ conf'[d] = task[c].seen
      BY <1>1, <2>0, <3>1
    <3>3. ~task[c].late => conf[d].version <= task[c].seen.version
      BY <1>1, <3>1, <3>2 DEF IInv, VersionsOrdered
    <3> QED BY <1>1, <2>0, <3>2, <3>3
  <2>3. CASE UNCHANGED conf
    BY <1>1, <2>0, <2>3
  <2> QED BY <1>1, <2>1, <2>2, <2>3, ForceChanges
<1>2. IInv /\ [Next]_vars =>
        \A d \in Daemons : conf'[d].version < conf[d].version
                             => \E c \in Loops : task[c].of = d /\ task[c].late
  BY <1>1
<1> QED BY <1>2, IInvCorrect, PTL DEF Spec, OnlyOverlapGoesBack

----------------------------------------------------------------------------
(* The socket.  No two daemons are inside with the same address, so what one *)
(* does to the path another of the same address does not see.                *)

(* Whoever else is inside has another address, or an address was lost.       *)
LEMMA OneInside ==
    ASSUME TypeOK, PortsHeld, NEW d \in Daemons, NEW e \in Daemons \ {d},
           pc[d] \in Inside, pc[e] \in Inside
    PROVE  lost \/ SomeoneElsewhere(d)
<1>1. lost \/ (port[Address(d)] = d /\ port[Address(e)] = e)
  BY DEF PortsHeld
<1>2. pc[e] # "down"
  BY DEF Inside
<1> QED BY <1>1, <1>2 DEF SomeoneElsewhere

(* A daemon that was started has its address for good: no reload changes it. *)
LEMMA AddressKept ==
    ASSUME TypeOK, [Next]_vars, NEW d \in Daemons, pc[d] # "down"
    PROVE  first'[d] = first[d]
<1>1. ASSUME NEW e \in Daemons, Compile(e) PROVE first'[d] = first[d]
  BY <1>1 DEF Compile, Go, TypeOK
<1>2. ASSUME NEW c \in Loops, Apply(c) PROVE first'[d] = first[d]
  BY <1>2, ApplyEffect
<1> QED BY <1>1, <1>2, ForceChanges

(* Who is elsewhere stays there, and a listener that was lost stays lost.    *)
LEMMA ElsewhereStays ==
    ASSUME TypeOK, [Next]_vars, NEW d \in Daemons, pc[d] # "down", SomeoneElsewhere(d)
    PROVE  SomeoneElsewhere(d)'
<1>1. PICK e \in Daemons : pc[e] # "down" /\ Address(e) # Address(d)
  BY DEF SomeoneElsewhere
<1>2. pc'[e] # "down" /\ Address(e)' = Address(e) /\ Address(d)' = Address(d)
  BY <1>1, NeverDown, AddressKept DEF NoneDown, Address
<1> QED BY <1>1, <1>2 DEF SomeoneElsewhere

(* The steps that touch neither a daemon's place nor the socket.             *)
Aside == UNCHANGED <<pc, port, path, refused, bare, lost, first>>

LEMMA AsideSteps ==
    ASSUME \/ Edit \/ UNCHANGED vars
           \/ \E d \in Daemons : HangUp(d)
           \/ \E c \in Clients : Load(c) \/ Grant(c) \/ Write(c) \/ CommandFails(c) \/ Connect(c)
           \/ \E c \in Loops : CompileAgain(c) \/ Apply(c) \/ NoReload(c) \/ EndClient(c)
    PROVE  Aside
<1>1. Edit \/ UNCHANGED vars => Aside
  BY DEF Edit, vars, socket, endpoint, Aside
<1>2. ASSUME NEW d \in Daemons, HangUp(d) PROVE Aside
  BY <1>2 DEF HangUp, endpoint, Aside
<1>3. ASSUME NEW c \in Clients, Load(c) \/ Grant(c) \/ Write(c) \/ CommandFails(c) \/ Connect(c)
      PROVE  Aside
  BY <1>3 DEF Load, Grant, Write, CommandFails, Connect, socket, endpoint, Aside
<1>4. ASSUME NEW c \in Loops, CompileAgain(c) \/ Apply(c) \/ NoReload(c) \/ EndClient(c)
      PROVE  Aside
  BY <1>4 DEF CompileAgain, Apply, NoReload, EndClient, socket, endpoint, Aside
<1> QED BY <1>1, <1>2, <1>3, <1>4

LEMMA LostStays ==
    ASSUME [Next]_vars, lost PROVE lost'
<1>1. ASSUME NEW d \in Daemons,
             \/ Compile(d) \/ StartMetrics(d) \/ Inspect(d) \/ Probe(d) \/ Replace(d) \/ Bind(d)
             \/ Restrict(d) \/ Stop(d) \/ Unlink(d) \/ Leave(d) \/ Crash(d) \/ LoseMetrics(d)
             \/ LoseControl(d)
      PROVE  lost'
  BY <1>1 DEF Compile, StartMetrics, Inspect, Probe, Replace, Bind, Restrict, Stop, Unlink,
              Leave, Crash, LoseMetrics, LoseControl
<1>2. CASE Aside
  BY <1>2 DEF Aside
<1> QED BY <1>1, <1>2, AsideSteps DEF Next

(* The listener opens before the control socket and closes after it          *)
(* (lib.rs serve_inner).                                                     *)
LEMMA PortsStep ==
    ASSUME TypeOK, PortsHeld, [Next]_vars
    PROVE  PortsHeld'
<1>1. ASSUME ~lost', NEW e \in Daemons, pc'[e] \in Inside
      PROVE  port'[Address(e)'] = e
  <2>0. ~lost /\ \A d \in Daemons : pc[d] \in Inside => port[Address(d)] = d
    BY <1>1, LostStays DEF PortsHeld
  <2>1. \A d \in Daemons : Address(d) \in Addresses
    BY DEF TypeOK, Address, Addresses
  <2>2. CASE pc[e] \in Inside /\ UNCHANGED <<port, first>>
    BY <2>0, <2>2 DEF Address
  <2>3. ASSUME NEW d \in Daemons, Compile(d) PROVE pc[e] \in Inside /\ port' = port /\ first'[e] = first[e]
    BY <1>1, <2>3 DEF Compile, Go, TypeOK, Inside
  <2>4. ASSUME NEW d \in Daemons, StartMetrics(d) PROVE port'[Address(e)'] = e
    <3>1. UNCHANGED first
      BY <2>4 DEF StartMetrics, config
    <3>2. CASE d = e
      <4>1. port' = [port EXCEPT ![Address(d)] = d]
        BY <1>1, <2>4, <3>2 DEF StartMetrics, Go, TypeOK, Inside
      <4> QED BY <2>1, <3>1, <3>2, <4>1 DEF TypeOK, Address
    <3>3. CASE d # e
      <4>1. pc[e] \in Inside
        BY <1>1, <2>4, <3>3 DEF StartMetrics, Go, TypeOK
      <4>2. port[Address(e)] = e
        BY <2>0, <4>1
      <4>3. UNCHANGED port \/ (port[Address(d)] = None /\ port' = [port EXCEPT ![Address(d)] = d])
        BY <2>4 DEF StartMetrics
      <4>4. port'[Address(e)] = e
        BY <2>1, <4>2, <4>3, Constants DEF TypeOK
      <4> QED BY <3>1, <4>4 DEF Address
    <3> QED BY <3>2, <3>3
  <2>5. ASSUME NEW d \in Daemons,
               \/ Inspect(d) \/ Probe(d) \/ Replace(d) \/ Bind(d) \/ Restrict(d)
               \/ Stop(d) \/ Unlink(d) \/ LoseControl(d)
        PROVE  pc[e] \in Inside /\ UNCHANGED <<port, first>>
    <3>1. UNCHANGED <<port, first>>
      BY <2>5 DEF Inspect, Probe, Replace, Bind, Restrict, Stop, Unlink, LoseControl, config
    <3>2. pc[d] \in Inside /\ \E to \in Phases : pc' = [pc EXCEPT ![d] = to]
      BY <2>5 DEF Inspect, Probe, Replace, Bind, Restrict, Stop, Unlink, LoseControl, Refuse, Go,
                  Phases, Inside
    <3>3. pc[e] \in Inside
      BY <1>1, <3>2 DEF TypeOK
    <3> QED BY <3>1, <3>3
  <2>6. ASSUME NEW d \in Daemons, Leave(d) \/ Crash(d) PROVE port'[Address(e)'] = e
    <3>1. UNCHANGED first /\ port' = Closed(d) /\ pc' = [pc EXCEPT ![d] = "gone"]
      BY <2>6 DEF Leave, Crash, Go
    <3>2. d # e /\ pc[e] \in Inside
      BY <1>1, <3>1 DEF TypeOK, Inside
    <3>3. port[Address(e)] = e
      BY <2>0, <3>2
    <3>4. port'[Address(e)] = e
      BY <2>1, <3>1, <3>2, <3>3 DEF Closed
    <3> QED BY <3>1, <3>4 DEF Address
  <2>7. ASSUME NEW d \in Daemons, LoseMetrics(d) PROVE FALSE
    BY <1>1, <2>7 DEF LoseMetrics
  <2>8. CASE Aside
    BY <1>1, <2>2, <2>8 DEF Aside
  <2>9. ASSUME NEW d \in Daemons, Compile(d) PROVE port'[Address(e)'] = e
    BY <2>0, <2>3, <2>9 DEF Address
  <2> QED BY <2>2, <2>4, <2>5, <2>6, <2>7, <2>8, <2>9, AsideSteps DEF Next
<1> QED BY <1>1 DEF PortsHeld

(* Only a daemon inside acts on the path, and one that is elsewhere, or whose *)
(* listener is lost, is what the invariant makes an exception for.            *)
Alone(e) ==
    /\ pc[e] \in {"chmod", "up"} => path.by = e
    /\ pc[e] \in {"probe", "replace"} => path # NoFile
    /\ pc[e] = "bind" => path = NoFile

OnPath(d) == Inspect(d) \/ Probe(d) \/ Replace(d) \/ Bind(d) \/ Restrict(d)
AtEnd(d)  == Stop(d) \/ Unlink(d) \/ Leave(d) \/ Crash(d) \/ LoseControl(d)

(* A step of the daemon itself (control.rs prepare_socket and start).        *)
LEMMA OwnStep ==
    ASSUME TypeOK, NEW e \in Daemons, Alone(e),
           Compile(e) \/ StartMetrics(e) \/ OnPath(e) \/ AtEnd(e)
    PROVE  Alone(e)'
<1>1. CASE Compile(e) \/ StartMetrics(e) \/ AtEnd(e)
  BY <1>1 DEF AtEnd, Compile, StartMetrics, Stop, Unlink, Leave, Crash, LoseControl, Go, TypeOK, Alone
<1>2. CASE Inspect(e)
  BY <1>2 DEF Inspect, Refuse, Go, TypeOK, Alone
<1>3. CASE Probe(e)
  BY <1>3 DEF Probe, Refuse, Go, TypeOK, Alone
<1>4. CASE Replace(e)
  BY <1>4 DEF Replace, Refuse, Go, TypeOK, Alone
<1>5. CASE Bind(e)
  BY <1>5 DEF Bind, Refuse, Go, TypeOK, Alone
<1>6. CASE Restrict(e)
  <2>1. pc[e] = "chmod" /\ path.by = e /\ path # NoFile
    BY <1>6, Constants DEF Restrict, Refuse, Go, Alone, NoFile
  <2>2. path \in [by : Daemons, private : BOOLEAN]
    BY <2>1 DEF TypeOK
  <2>3. path' = [path EXCEPT !.private = TRUE] /\ pc' = [pc EXCEPT ![e] = "up"]
    BY <1>6, <2>1 DEF Restrict, Go
  <2>4. path'.by = e /\ pc'[e] = "up"
    BY <2>1, <2>2, <2>3 DEF TypeOK
  <2> QED BY <2>4 DEF Alone
<1> QED BY <1>1, <1>2, <1>3, <1>4, <1>5, <1>6 DEF OnPath

(* A step of another daemon.                                                 *)
LEMMA OthersStep ==
    ASSUME TypeOK, PortsHeld, NEW e \in Daemons, Alone(e), ~lost, ~SomeoneElsewhere(e),
           NEW d \in Daemons \ {e},
           Compile(d) \/ StartMetrics(d) \/ OnPath(d) \/ AtEnd(d)
    PROVE  Alone(e)'
<1>1. pc'[e] = pc[e]
  BY DEF OnPath, AtEnd, Compile, StartMetrics, Inspect, Probe, Replace, Bind, Restrict, Stop, Unlink,
         Leave, Crash, LoseControl, Refuse, Go, TypeOK
<1>2. CASE path' = path
  BY <1>1, <1>2 DEF Alone
<1>3. CASE path' # path
  <2>1. pc[d] \in Inside
    BY <1>3 DEF OnPath, AtEnd, Compile, StartMetrics, Inspect, Probe, Replace, Bind, Restrict, Stop,
                Unlink, Leave, Crash, LoseControl, Refuse, Go, Inside
  <2>2. pc[e] \notin Inside
    BY <2>1, OneInside
  <2> QED BY <1>1, <2>2 DEF Alone, Inside
<1> QED BY <1>2, <1>3

(* A file without its permissions is being restricted, or was left so.       *)
BareOrBusy == path # NoFile /\ ~path.private => bare \/ pc[path.by] = "chmod"

LEMMA BareStep ==
    ASSUME TypeOK, BareOrBusy, [Next]_vars
    PROVE  BareOrBusy'
<1>1. ASSUME NEW d \in Daemons,
             \/ Compile(d) \/ StartMetrics(d) \/ Inspect(d) \/ Probe(d) \/ Stop(d) \/ Leave(d)
             \/ LoseControl(d)
      PROVE  BareOrBusy'
  <2>1. UNCHANGED <<path, bare>> /\ pc[d] # "chmod" /\ \E to \in Phases : pc' = [pc EXCEPT ![d] = to]
    BY <1>1 DEF Compile, StartMetrics, Inspect, Probe, Stop, Leave, LoseControl, Refuse, Go, Phases
  <2> QED BY <2>1 DEF BareOrBusy, TypeOK
<1>2. ASSUME NEW d \in Daemons, LoseMetrics(d) PROVE BareOrBusy'
  BY <1>2 DEF LoseMetrics, BareOrBusy
<1>3. ASSUME NEW d \in Daemons, Replace(d) \/ Unlink(d) PROVE BareOrBusy'
  BY <1>3 DEF Replace, Unlink, Refuse, BareOrBusy
<1>4. ASSUME NEW d \in Daemons, Bind(d) PROVE BareOrBusy'
  <2>1. CASE path # NoFile
    BY <1>4, <2>1 DEF Bind, Refuse, Go, BareOrBusy, TypeOK
  <2>2. CASE path = NoFile
    BY <1>4, <2>2 DEF Bind, Refuse, Go, BareOrBusy, TypeOK
  <2> QED BY <2>1, <2>2
<1>5. ASSUME NEW d \in Daemons, Restrict(d) PROVE BareOrBusy'
  <2>1. CASE path = NoFile
    BY <1>5, <2>1 DEF Restrict, Refuse, Go, BareOrBusy
  <2>2. CASE path # NoFile
    <3>1. path \in [by : Daemons, private : BOOLEAN] /\ path' = [path EXCEPT !.private = TRUE]
      BY <1>5, <2>2 DEF Restrict, TypeOK
    <3>2. path'.private
      BY <3>1
    <3> QED BY <3>2 DEF BareOrBusy
  <2> QED BY <2>1, <2>2
<1>6. ASSUME NEW d \in Daemons, Crash(d) PROVE BareOrBusy'
  <2>1. path' = path /\ bare' = (bare \/ pc[d] = "chmod") /\ pc' = [pc EXCEPT ![d] = "gone"]
    BY <1>6 DEF Crash
  <2> QED BY <2>1 DEF BareOrBusy, TypeOK
<1>7. CASE Aside
  BY <1>7 DEF Aside, BareOrBusy
<1> QED BY <1>1, <1>2, <1>3, <1>4, <1>5, <1>6, <1>7, AsideSteps DEF Next

LEMMA WatchedStep ==
    ASSUME TypeOK, PortsHeld, PathWatched, [Next]_vars
    PROVE  PathWatched'
<1>1. ASSUME NEW e \in Daemons, ~lost', ~SomeoneElsewhere(e)'
      PROVE  Alone(e)'
  <2>0. ~lost
    BY <1>1, LostStays
  <2>1. Alone(e) /\ (pc[e] # "down" => ~SomeoneElsewhere(e))
    <3>1. CASE pc[e] = "down"
      BY <3>1 DEF Alone
    <3>2. CASE pc[e] # "down"
      BY <1>1, <2>0, <3>2, ElsewhereStays DEF PathWatched, Alone
    <3> QED BY <3>1, <3>2
  <2>2. ASSUME NEW d \in Daemons, Compile(d) \/ StartMetrics(d) \/ OnPath(d) \/ AtEnd(d)
        PROVE  Alone(e)'
    <3>1. CASE d = e
      BY <2>1, <2>2, <3>1, OwnStep
    <3>2. CASE d # e /\ pc[e] # "down"
      BY <2>0, <2>1, <2>2, <3>2, OthersStep
    <3>3. CASE d # e /\ pc[e] = "down"
      <4>1. pc'[e] = "down"
        BY <2>2, <3>3 DEF OnPath, AtEnd, Compile, StartMetrics, Inspect, Probe, Replace, Bind, Restrict,
                          Stop, Unlink, Leave, Crash, LoseControl, Refuse, Go, TypeOK
      <4> QED BY <4>1 DEF Alone
    <3> QED BY <3>1, <3>2, <3>3
  <2>3. ASSUME NEW d \in Daemons, LoseMetrics(d) PROVE FALSE
    BY <1>1, <2>3 DEF LoseMetrics
  <2>4. CASE Aside
    BY <2>1, <2>4 DEF Aside, Alone
  <2> QED BY <2>2, <2>3, <2>4, AsideSteps DEF Next, OnPath, AtEnd
<1>2. BareOrBusy'
  BY BareStep DEF PathWatched, BareOrBusy
<1> QED BY <1>1, <1>2 DEF PathWatched, Alone, BareOrBusy

(* A start is refused for a reason (control.rs prepare_socket).              *)
Excused(e) == /\ refused[e] # "no" => pc[e] \in {"abandon", "gone"}
              /\ refused[e] = "unsafe" => bare \/ lost \/ SomeoneElsewhere(e)
              /\ refused[e] \in {"running", "io"} => lost \/ SomeoneElsewhere(e)

LEMMA RefusedStep ==
    ASSUME TypeOK, PortsHeld, PathWatched, RefusedForAReason, [Next]_vars
    PROVE  RefusedForAReason'
<1> SUFFICES ASSUME NEW e \in Daemons PROVE Excused(e)'
  BY DEF RefusedForAReason, Excused
<1>0. Excused(e)
  BY DEF RefusedForAReason, Excused
<1>1. ASSUME refused'[e] = refused[e], bare => bare',
             refused[e] # "no" => pc'[e] \in {"abandon", "gone"}
      PROVE  Excused(e)'
  <2>1. CASE refused[e] = "no"
    BY <1>1, <2>1 DEF Excused
  <2>2. CASE refused[e] # "no"
    <3>1. pc[e] # "down"
      BY <1>0, <2>2 DEF Excused
    <3>2. lost \/ SomeoneElsewhere(e) => lost' \/ SomeoneElsewhere(e)'
      BY <3>1, LostStays, ElsewhereStays
    <3> QED BY <1>0, <1>1, <2>2, <3>2 DEF Excused
  <2> QED BY <2>1, <2>2
<1>2. ASSUME NEW d \in Daemons,
             \/ Compile(d) \/ StartMetrics(d) \/ Stop(d) \/ Unlink(d) \/ LoseControl(d)
      PROVE  Excused(e)'
  <2>1. /\ UNCHANGED <<refused, bare>> /\ pc[d] \notin {"abandon", "gone"}
        /\ \E to \in Phases : pc' = [pc EXCEPT ![d] = to]
    BY <1>2 DEF Compile, StartMetrics, Stop, Unlink, LoseControl, Go, Phases, config
  <2> QED BY <1>0, <1>1, <2>1 DEF Excused, TypeOK
<1>3. ASSUME NEW d \in Daemons, Leave(d) \/ Crash(d) PROVE Excused(e)'
  <2>1. UNCHANGED refused /\ pc' = [pc EXCEPT ![d] = "gone"]
    BY <1>3 DEF Leave, Crash, Go
  <2>2. bare => bare'
    BY <1>3, Zenon DEF Leave, Crash
  <2> QED BY <1>0, <1>1, <2>1, <2>2 DEF Excused, TypeOK
<1>4. ASSUME NEW d \in Daemons, LoseMetrics(d) PROVE Excused(e)'
  <2>1. UNCHANGED <<refused, bare, pc>>
    BY <1>4 DEF LoseMetrics
  <2> QED BY <1>0, <1>1, <2>1 DEF Excused
<1>5. CASE Aside
  <2>1. UNCHANGED <<refused, bare, pc>>
    BY <1>5 DEF Aside
  <2> QED BY <1>0, <1>1, <2>1 DEF Excused
<1>6. ASSUME NEW d \in Daemons, OnPath(d) PROVE Excused(e)'
  <2>1. bare' = bare /\ pc[d] \in Inside \ {"abandon"}
    BY <1>6 DEF OnPath, Inspect, Probe, Replace, Bind, Restrict, Refuse, Go, Inside
  <2>2. CASE UNCHANGED refused
    <3>1. \E to \in Phases : pc' = [pc EXCEPT ![d] = to]
      BY <1>6 DEF OnPath, Inspect, Probe, Replace, Bind, Restrict, Refuse, Go, Phases
    <3> QED BY <1>0, <1>1, <2>1, <2>2, <3>1 DEF Excused, TypeOK, Inside
  <2>3. ASSUME NEW why, refused' = [refused EXCEPT ![d] = why], pc' = [pc EXCEPT ![d] = "abandon"],
               \/ why = "unsafe" /\ (bare \/ lost \/ SomeoneElsewhere(d))
               \/ why \in {"running", "io"} /\ (lost \/ SomeoneElsewhere(d))
        PROVE  Excused(e)'
    <3>1. CASE d # e
      BY <1>0, <1>1, <2>1, <2>3, <3>1 DEF Excused, TypeOK
    <3>2. CASE d = e
      <4>1. refused'[e] = why /\ pc'[e] = "abandon" /\ pc[e] # "down"
        BY <2>1, <2>3, <3>2 DEF TypeOK, Inside
      <4>2. lost \/ SomeoneElsewhere(e) => lost' \/ SomeoneElsewhere(e)'
        BY <4>1, LostStays, ElsewhereStays
      <4> QED BY <2>1, <2>3, <3>2, <4>1, <4>2 DEF Excused
    <3> QED BY <3>1, <3>2
  <2>4. ASSUME path # NoFile, pc[path.by] \in Inside, path.by # d
        PROVE  lost \/ SomeoneElsewhere(d)
    <3>1. path.by \in Daemons \ {d}
      BY <2>4 DEF TypeOK
    <3> QED BY <2>1, <2>4, <3>1, OneInside
  <2>5. CASE Inspect(d) /\ ~UNCHANGED refused
    <3>1. path # NoFile /\ ~path.private /\ Refuse(d, "inspect", "unsafe")
      BY <2>5 DEF Inspect
    <3>2. bare \/ lost \/ SomeoneElsewhere(d)
      BY <2>4, <3>1 DEF Refuse, Go, PathWatched, Inside
    <3> QED BY <2>3, <3>1, <3>2 DEF Refuse, Go
  <2>6. CASE Probe(d) /\ ~UNCHANGED refused
    <3>1. path # NoFile /\ Listening(path.by) /\ Refuse(d, "probe", "running")
      BY <2>6 DEF Probe
    <3>2. lost \/ SomeoneElsewhere(d)
      BY <2>4, <3>1 DEF Refuse, Go, Listening, Inside
    <3> QED BY <2>3, <3>1, <3>2 DEF Refuse, Go
  <2>7. CASE (Replace(d) \/ Bind(d) \/ Restrict(d)) /\ ~UNCHANGED refused
    <3>1. \/ path = NoFile /\ Refuse(d, "replace", "io")
          \/ path # NoFile /\ Refuse(d, "bind", "io")
          \/ path = NoFile /\ Refuse(d, "chmod", "io")
      BY <2>7 DEF Replace, Bind, Restrict
    <3>2. path = NoFile => path.by # d
      BY Constants DEF NoFile
    <3>3. lost \/ SomeoneElsewhere(d)
      BY <3>1, <3>2 DEF Refuse, Go, PathWatched
    <3> QED BY <2>3, <3>1, <3>3 DEF Refuse, Go
  <2> QED BY <1>6, <2>2, <2>5, <2>6, <2>7 DEF OnPath
<1> QED BY <1>2, <1>3, <1>4, <1>5, <1>6, AsideSteps DEF Next, OnPath

(* What is true of the socket between any two steps, whatever daemons start, *)
(* stop and die: no start is refused without a reason, and the path leads    *)
(* where the daemon that watches it believes.                                *)
THEOREM InvCorrect == Spec => []Inv
<1>1. Init => SocketInv
  BY Constants DEF Init, SocketInv, PortsHeld, PathWatched, RefusedForAReason, Inside
<1>2. IInv /\ SocketInv /\ [Next]_vars => SocketInv'
  BY PortsStep, WatchedStep, RefusedStep DEF SocketInv, IInv
<1>3. Init /\ [][Next]_vars => []Inv
  BY <1>1, <1>2, InitInv, InvStep, PTL DEF Inv
<1> QED BY <1>3 DEF Spec

(* A daemon that is up is reached through its path: two removals by another's *)
(* stop, a replacement or a rebinding never take it away, as long as both     *)
(* have one metrics address and keep its listener (lib.rs serve_inner,        *)
(* control.rs prepare_socket, ControlHandle::stop).                           *)
THEOREM PathLeadsHome == Spec => []ControlPathLeadsHome
<1>1. Inv => ControlPathLeadsHome
  BY DEF Inv, SocketInv, PathWatched, ControlPathLeadsHome
<1> QED BY <1>1, InvCorrect, PTL
=============================================================================

---------------------------- MODULE ControlPlane ----------------------------
(***************************************************************************)
(* The control socket (control.rs), the configuration it reloads           *)
(* (transport_context.rs) and the token commands that write that           *)
(* configuration (auth.rs), for daemons that share a configuration file and *)
(* so a state directory.  What keeps two of them apart is the metrics      *)
(* listener, which serve_inner (lib.rs) opens before the control socket    *)
(* and closes after it, as long as the file gives both the same address.   *)
(*                                                                         *)
(* A step is a system call on the socket's path, or what a task does       *)
(* between two awaits.  Every file operation works on the path, so on      *)
(* whatever file is there by then.                                         *)
(***************************************************************************)
EXTENDS Naturals, FiniteSets

CONSTANTS Daemons,     \* processes that are started, one at a time or not
          Clients,     \* processes of the command line: a token command, a reload
          MaxClients,  \* MAX_CONTROL_CLIENTS
          Hangup,      \* stands for run_servers, which reloads on SIGHUP
          None,
          Kinds,       \* what the file may say apart from its tokens
          Start,       \* the kind it has at first
          Valid,       \* those that parse, validate and compile
          RestartPart, \* what a kind says of the fields a reload may not change,
                       \* the metrics address among them
          MaxWrites,   \* how often the file may be written
          MaxFaults    \* crashes, failed commands, lost listeners and signals

ASSUME NamesAssumption ==
    /\ None \notin Daemons
    /\ Hangup \notin Clients
ASSUME KindsAssumption ==
    Valid \subseteq Kinds /\ Start \in Valid /\ DOMAIN RestartPart = Kinds
ASSUME LimitsAssumption ==
    MaxClients \in Nat \ {0} /\ MaxWrites \in Nat /\ MaxFaults \in Nat

VARIABLES
    pc,        \* where a daemon is in its start and its end
    port,      \* the daemon whose listener has a metrics address
    path,      \* the file at the socket's path
    file,      \* the document in the configuration file
    open,      \* whether the worker's user may read it
    conf,      \* the configuration a daemon has in force
    first,     \* the configuration it was started with
    task,      \* what a client's task, or the signal's branch, is doing
    refused,   \* why a start was refused, if it was
    bare,      \* whether a crash has left a socket without its permissions
    lost,      \* whether a metrics listener ended before its daemon
    faults

vars == <<pc, port, path, file, open, conf, first, task, refused, bare, lost, faults>>
endpoint == <<pc, port, path, refused, bare, lost>>
socket == <<endpoint, faults>>
config == <<file, open, conf, first, task>>

NoFile == [by |-> None, private |-> TRUE]
(* A document: its place in the order of writes, the commands whose change   *)
(* it has (a token enabled, or one disabled), and the rest of it.            *)
First    == [version |-> 0, has |-> {}, kind |-> Start]
NoTask   == [at |-> "idle", of |-> None, seen |-> First, late |-> FALSE,
             wrote |-> FALSE, crossed |-> FALSE, ok |-> FALSE]

Phases == {"down", "metrics", "inspect", "probe", "replace", "bind", "chmod", "up",
           "unlink", "unlinkAgain", "fail", "deaf", "leave", "abandon", "gone"}
Loops == Clients \cup {Hangup}
Addresses == {RestartPart[k] : k \in Kinds}
Documents == [version : 0..MaxWrites, has : SUBSET Clients, kind : Kinds]

Task == [at : {"idle", "loaded", "ready", "written", "granted", "connected", "compiled",
               "answer", "done", "failed"},
         of : Daemons \cup {None}, seen : Documents,
         late : BOOLEAN, wrote : BOOLEAN, crossed : BOOLEAN, ok : BOOLEAN]

TypeOK ==
    /\ pc \in [Daemons -> Phases]
    /\ port \in [Addresses -> Daemons \cup {None}]
    /\ path \in [by : Daemons, private : BOOLEAN] \cup {NoFile}
    /\ file \in Documents /\ open \in BOOLEAN
    /\ conf \in [Daemons -> Documents] /\ first \in [Daemons -> Kinds]
    /\ task \in [Loops -> Task]
    /\ refused \in [Daemons -> {"no", "running", "unsafe", "io"}]
    /\ bare \in BOOLEAN /\ lost \in BOOLEAN
    /\ faults \in 0..MaxFaults

Init ==
    /\ pc = [d \in Daemons |-> "down"]
    /\ port = [a \in Addresses |-> None] /\ path = NoFile
    /\ file = First /\ open = TRUE
    /\ conf = [d \in Daemons |-> First] /\ first = [d \in Daemons |-> Start]
    /\ task = [c \in Loops |-> NoTask]
    /\ refused = [d \in Daemons |-> "no"]
    /\ bare = FALSE /\ lost = FALSE /\ faults = 0

Go(d, from, to) == pc[d] = from /\ pc' = [pc EXCEPT ![d] = to]

(* The kernel's listen queue is there from bind() to the end of run(). *)
Listening(d) == pc[d] \in {"chmod", "up"}

----------------------------------------------------------------------------
(* The start: serve_inner as far as the control socket matters. *)

(* What a process of the worker's user makes of the file. *)
Compiles == open /\ file.kind \in Valid

(* lifecycle::serve compiles the file, before anything is opened. *)
Compile(d) ==
    /\ Go(d, "down", "metrics")
    /\ Compiles
    /\ conf' = [conf EXCEPT ![d] = file] /\ first' = [first EXCEPT ![d] = file.kind]
    /\ UNCHANGED <<port, path, file, open, task, refused, bare, lost, faults>>

Address(d) == RestartPart[first[d]]
Closed(d)  == [a \in Addresses |-> IF port[a] = d THEN None ELSE port[a]]

(* Mutant: a daemon without its metrics goes on. *)
MutantStartMetrics(d) ==
    /\ Go(d, "metrics", "inspect")
    /\ port' = [port EXCEPT ![Address(d)] = IF @ = None THEN d ELSE @]
    /\ UNCHANGED <<path, config, refused, bare, lost, faults>>

(* metrics::start fails while another daemon has the address. *)
StartMetrics(d) ==
    /\ \/ port[Address(d)] = None /\ Go(d, "metrics", "inspect")
          /\ port' = [port EXCEPT ![Address(d)] = d]
       \/ port[Address(d)] # None /\ Go(d, "metrics", "gone") /\ UNCHANGED port
    /\ UNCHANGED <<path, config, refused, bare, lost, faults>>

(* prepare_socket(): what is at the path, who answers there, its removal. *)
Refuse(d, from, why) ==
    /\ Go(d, from, "abandon")
    /\ refused' = [refused EXCEPT ![d] = why]

Inspect(d) ==
    /\ \/ path = NoFile /\ Go(d, "inspect", "bind") /\ UNCHANGED refused
       \/ path # NoFile /\ ~path.private /\ Refuse(d, "inspect", "unsafe")
       \/ path # NoFile /\ path.private /\ Go(d, "inspect", "probe") /\ UNCHANGED refused
    /\ UNCHANGED <<port, path, config, bare, lost, faults>>

(* connect(), for at most a quarter of a second. *)
Probe(d) ==
    /\ \/ path # NoFile /\ Listening(path.by) /\ Refuse(d, "probe", "running")
       \/ ~(path # NoFile /\ Listening(path.by)) /\ Go(d, "probe", "replace")
          /\ UNCHANGED refused
    /\ UNCHANGED <<port, path, config, bare, lost, faults>>

Replace(d) ==
    /\ \/ path = NoFile /\ Refuse(d, "replace", "io") /\ UNCHANGED path
       \/ path # NoFile /\ Go(d, "replace", "bind") /\ path' = NoFile /\ UNCHANGED refused
    /\ UNCHANGED <<port, config, bare, lost, faults>>

(* bind() makes the file, for whom the umask lets; then its mode is set. *)
Bind(d) ==
    /\ \/ path # NoFile /\ Refuse(d, "bind", "io") /\ UNCHANGED path
       \/ path = NoFile /\ Go(d, "bind", "chmod") /\ path' = [by |-> d, private |-> FALSE]
          /\ UNCHANGED refused
    /\ UNCHANGED <<port, config, bare, lost, faults>>

(* Mutant: the mode is left as the umask made it. *)
MutantRestrict(d) == Go(d, "chmod", "up") /\ UNCHANGED <<port, path, config, refused, bare, lost, faults>>

Restrict(d) ==
    /\ \/ path = NoFile /\ Refuse(d, "chmod", "io") /\ UNCHANGED path
       \/ path # NoFile /\ Go(d, "chmod", "up") /\ path' = [path EXCEPT !.private = TRUE]
          /\ UNCHANGED refused
    /\ UNCHANGED <<port, config, bare, lost, faults>>

----------------------------------------------------------------------------
(* The end: ControlHandle::stop() lets run() return, whose listener closes;  *)
(* the task removes the path, stop() removes it again, and metrics.stop()    *)
(* comes after.                                                              *)
Stop(d) ==
    /\ Go(d, "up", "unlink") \/ Go(d, "deaf", "leave")
    /\ task[Hangup].of = d => task[Hangup].at = "idle"
    /\ UNCHANGED <<port, path, config, refused, bare, lost, faults>>

Unlink(d) ==
    /\ Go(d, "unlink", "unlinkAgain") \/ Go(d, "unlinkAgain", "leave") \/ Go(d, "fail", "deaf")
    /\ path' = NoFile
    /\ UNCHANGED <<port, config, refused, bare, lost, faults>>

(* The process ends, and with it what its tasks were doing. *)
Tasks(d) == [c \in Loops |-> IF task[c].of = d /\ task[c].at # "idle"
                             THEN [NoTask EXCEPT !.at = IF c = Hangup THEN "idle" ELSE "done"]
                             ELSE task[c]]

Leave(d) ==
    /\ Go(d, "leave", "gone") \/ Go(d, "abandon", "gone")
    /\ port' = Closed(d) /\ task' = Tasks(d)
    /\ UNCHANGED <<path, file, open, conf, first, refused, bare, lost, faults>>

(* The process dies: its sockets close, the file stays. *)
Crash(d) ==
    /\ pc[d] \notin {"down", "gone"} /\ faults < MaxFaults
    /\ faults' = faults + 1
    /\ pc' = [pc EXCEPT ![d] = "gone"]
    /\ port' = Closed(d) /\ task' = Tasks(d)
    /\ bare' = (bare \/ pc[d] = "chmod")
    /\ UNCHANGED <<path, file, open, conf, first, refused, lost>>

(* accept() fails in the metrics task, which returns and drops its listener. *)
LoseMetrics(d) ==
    /\ port[Address(d)] = d /\ pc[d] = "up" /\ faults < MaxFaults
    /\ faults' = faults + 1 /\ port' = Closed(d) /\ lost' = TRUE
    /\ UNCHANGED <<pc, path, config, refused, bare>>

(* accept() fails in run(): the socket is removed, the daemon serves on, and *)
(* stop(), which finds the error, does not remove the path again.            *)
LoseControl(d) ==
    /\ Go(d, "up", "fail") /\ faults < MaxFaults
    /\ faults' = faults + 1
    /\ UNCHANGED <<port, path, config, refused, bare, lost>>

----------------------------------------------------------------------------
(* The token commands.  create and revoke load the document, change one      *)
(* token, and write it back under no lock; root runs them.  For an installed *)
(* service the file, which the rename leaves to root alone, is then granted  *)
(* to the worker's user.                                                     *)
Token(c, from, to) ==
    /\ c \in Clients /\ task[c].at = from
    /\ task' = [task EXCEPT ![c].at = to]

(* A document that does not compile ends the command before it writes. *)
Load(c) ==
    /\ c \in Clients /\ task[c].at = "idle"
    /\ file.kind \in Valid
    /\ task' = [task EXCEPT ![c].at = "loaded", ![c].seen = file]
    /\ UNCHANGED <<socket, file, open, conf, first>>

(* grant_file_access: root's, with the worker's group, which may read it. *)
GrantFile == open' = TRUE

(* Mutant: the file that was written is not granted. *)
MutantGrant(c) ==
    /\ \/ Token(c, "loaded", "ready") /\ GrantFile
       \/ Token(c, "written", "granted") /\ UNCHANGED open
    /\ UNCHANGED <<socket, file, conf, first>>

(* prepare_worker_access, once before the write and once after it, for the   *)
(* file that has the path by then.  One that does not compile ends the       *)
(* command.                                                                  *)
Grant(c) ==
    /\ \/ Token(c, "loaded", "ready") /\ GrantFile
       \/ file.kind \in Valid /\ Token(c, "written", "granted") /\ GrantFile
       \/ file.kind \notin Valid /\ Token(c, "written", "failed") /\ UNCHANGED open
    /\ UNCHANGED <<socket, file, conf, first>>

(* What create or revoke makes of the document it has loaded. *)
Changed(document, c) == [document EXCEPT !.has = @ \cup {c}]

(* write_atomic: a new file that only root may read takes the path. *)
WriteAtomic(document) ==
    /\ file.version < MaxWrites
    /\ file' = [document EXCEPT !.version = file.version + 1]
    /\ open' = FALSE

(* Whoever has loaded and not yet written will take this change back. *)
Write(c) ==
    /\ c \in Clients /\ task[c].at = "ready"
    /\ WriteAtomic(Changed(task[c].seen, c))
    /\ task' = [task EXCEPT ![c] =
                   [NoTask EXCEPT !.at = "written", !.wrote = TRUE,
                                  !.crossed = \E x \in Clients \ {c} :
                                                 task[x].at \in {"loaded", "ready"}]]
    /\ UNCHANGED <<socket, conf, first>>

(* An operation fails, or the process is killed.  Between the rename and the *)
(* grant that leaves a file the worker cannot read.                          *)
CommandFails(c) ==
    /\ faults < MaxFaults
    /\ \/ Token(c, "loaded", "done") \/ Token(c, "ready", "done") \/ Token(c, "written", "failed")
    /\ faults' = faults + 1
    /\ UNCHANGED <<endpoint, file, open, conf, first>>

(* An operator's editor writes in place: the permissions stay. *)
Edit ==
    /\ file.version < MaxWrites
    /\ \E k \in Kinds \ {file.kind} :
          file' = [file EXCEPT !.version = @ + 1, !.kind = k]
    /\ UNCHANGED <<socket, open, conf, first, task>>

----------------------------------------------------------------------------
(* Reloads.  A client's task holds one of the permits until it is answered   *)
(* or its two seconds have passed; it can be cancelled where it awaits its   *)
(* request, the file's hash or the peer, but not between compiling the file  *)
(* and applying it.                                                          *)

Served(d) == {c \in Clients : task[c].of = d /\ task[c].at \notin {"done", "failed"}}

(* A reload, or the end of a token command that asks for one.  A stream      *)
(* beyond the permits is closed at once.                                     *)
Connect(c) ==
    /\ task[c].at \in {"idle", "granted"}
    /\ path # NoFile /\ pc[path.by] = "up"
    /\ Cardinality(Served(path.by)) < MaxClients
    /\ task' = [task EXCEPT ![c] = [@ EXCEPT !.at = "connected", !.of = path.by]]
    /\ UNCHANGED <<socket, file, open, conf, first>>

HangUp(d) ==
    /\ task[Hangup].at = "idle"
    /\ pc[d] \in {"up", "fail", "deaf"} /\ faults < MaxFaults
    /\ faults' = faults + 1
    /\ task' = [task EXCEPT ![Hangup] = [NoTask EXCEPT !.at = "connected", !.of = d]]
    /\ UNCHANGED <<endpoint, file, open, conf, first>>

(* What a task is once it has applied or refused: the signal's branch waits  *)
(* for the next signal, a client's writes its answer.                        *)
Answering(c, ok) ==
    IF c = Hangup THEN NoTask
    ELSE [NoTask EXCEPT !.at = "answer", !.of = task[c].of, !.ok = ok]

(* A request for the status, one from a peer that may not reload, and one    *)
(* that is malformed change nothing.                                         *)
NoReload(c) ==
    /\ c \in Clients /\ task[c].at = "connected"
    /\ task' = [task EXCEPT ![c] = Answering(c, FALSE)]
    /\ UNCHANGED <<socket, file, open, conf, first>>

(* Mutant: a file that does not compile is replaced by the start's. *)
MutantCompileAgain(c) ==
    /\ task[c].at = "connected"
    /\ task' = [task EXCEPT ![c].at = "compiled",
                            ![c].seen = IF Compiles THEN file
                                        ELSE [First EXCEPT !.kind = first[task[c].of]]]
    /\ UNCHANGED <<socket, file, open, conf, first>>

CompileAgain(c) ==
    /\ task[c].at = "connected"
    /\ task' = [task EXCEPT ![c] = IF Compiles THEN [@ EXCEPT !.at = "compiled", !.seen = file]
                                               ELSE Answering(c, FALSE)]
    /\ UNCHANGED <<socket, file, open, conf, first>>

(* Mutant: the comparison comes after the swap. *)
MutantCompatible(current, next) == RestartPart[next] = RestartPart[next]

(* ensure_reload_compatible: the seven groups of fields of a running server. *)
Compatible(current, next) == RestartPart[current] = RestartPart[next]

(* Mutant: what may not change is passed over, not refused. *)
MutantApply(c) ==
    LET d == task[c].of
    IN /\ task[c].at = "compiled"
       /\ task' = [task EXCEPT ![c] = Answering(c, TRUE)]
       /\ conf' = IF Compatible(conf[d].kind, task[c].seen.kind)
                  THEN [conf EXCEPT ![d] = task[c].seen] ELSE conf
       /\ UNCHANGED <<socket, file, open, first>>

(* TransportContext::reload, under the write lock.  Whoever has compiled and *)
(* not yet applied is late from here on.                                     *)
Apply(c) ==
    LET d == task[c].of
    IN /\ task[c].at = "compiled"
       /\ IF Compatible(conf[d].kind, task[c].seen.kind)
          THEN /\ conf' = [conf EXCEPT ![d] = task[c].seen]
               /\ task' = [x \in Loops |->
                              IF x = c THEN Answering(c, TRUE)
                              ELSE IF task[x].at = "compiled" /\ task[x].of = d
                                   THEN [task[x] EXCEPT !.late = TRUE]
                                   ELSE task[x]]
          ELSE task' = [task EXCEPT ![c] = Answering(c, FALSE)] /\ UNCHANGED conf
       /\ UNCHANGED <<socket, file, open, first>>

(* The response is written, or the timeout drops the task where it awaits.   *)
(* A token command that asks for no reload, or that finds nobody to ask, is  *)
(* over as well: what it has the service manager do instead is HangUp.       *)
EndClient(c) ==
    /\ c \in Clients /\ task[c].at \in {"connected", "answer", "granted"}
    /\ task' = [task EXCEPT ![c] = [NoTask EXCEPT !.at = "done"]]
    /\ UNCHANGED <<socket, file, open, conf, first>>

Next ==
    \/ \E d \in Daemons :
          \/ Compile(d) \/ StartMetrics(d) \/ Inspect(d) \/ Probe(d) \/ Replace(d) \/ Bind(d)
          \/ Restrict(d) \/ Stop(d) \/ Unlink(d) \/ Leave(d) \/ Crash(d) \/ LoseMetrics(d)
          \/ LoseControl(d) \/ HangUp(d)
    \/ Edit
    \/ \E c \in Clients : Load(c) \/ Grant(c) \/ Write(c) \/ CommandFails(c) \/ Connect(c)
    \/ \E c \in Loops : CompileAgain(c) \/ Apply(c) \/ NoReload(c) \/ EndClient(c)

Spec == Init /\ [][Next]_vars

----------------------------------------------------------------------------
(* What a reload may not change stays what the daemon was started with, so   *)
(* what it opened then (listeners, TUN, socket, metrics) is still what its   *)
(* configuration says: ensure_reload_compatible, under the lock.             *)
RestartFieldsKept == \A d \in Daemons : RestartPart[first[d]] = RestartPart[conf[d].kind]

(* The worker may read its configuration, whatever commands cross, but for    *)
(* the time between a command's rename and its grant: for ever, if the        *)
(* command ends there (write_config_with_worker_access, auth.rs).             *)
WorkerMayRead == open \/ \E c \in Clients : task[c].at \in {"written", "failed"}

(* A command's change that nobody was about to take back when it was written *)
(* is in the file, in what every later command loads, and in what the reload *)
(* it asks for compiles.                                                     *)
ChangesCarried ==
    \A c \in Clients : task[c].wrote /\ ~task[c].crossed =>
        /\ c \in file.has
        /\ \A x \in Clients : task[x].at \in {"loaded", "ready"} => c \in task[x].seen.has
        /\ task[c].at = "compiled" => c \in task[c].seen.has

(* What is in force was read from the file, and a reload that nobody has     *)
(* overtaken holds nothing older.                                            *)
VersionsOrdered ==
    /\ \A d \in Daemons : conf[d].version <= file.version
    /\ \A c \in Loops : task[c].at = "compiled" =>
          /\ task[c].seen.version <= file.version
          /\ ~task[c].late => conf[task[c].of].version <= task[c].seen.version

(* A task that reloads is that of a daemon that was started, and a command   *)
(* that writes is no daemon's.                                               *)
TasksOfDaemons ==
    \A c \in Loops :
        /\ task[c].at \in {"connected", "compiled"} =>
              task[c].of \in Daemons /\ pc[task[c].of] # "down"
        /\ task[c].at \in {"written", "failed"} => task[c].of = None

(* What is true of the file, of what is in force and of the tasks between any *)
(* two steps.                                                                 *)
IInv == TypeOK /\ RestartFieldsKept /\ WorkerMayRead /\ ChangesCarried /\ VersionsOrdered
        /\ TasksOfDaemons

(* From its metrics listener to its end a daemon has the address, so that no  *)
(* other one is between the two: what keeps daemons off one another's socket. *)
Inside == {"inspect", "probe", "replace", "bind", "chmod", "up", "unlink", "unlinkAgain",
           "fail", "deaf", "leave", "abandon"}
PortsHeld == lost \/ \A d \in Daemons : pc[d] \in Inside => port[Address(d)] = d

SomeoneElsewhere(d) == \E e \in Daemons : pc[e] # "down" /\ Address(e) # Address(d)

(* What a daemon has seen of the path is still so when it acts on it, and a   *)
(* file without its permissions is one that somebody is about to restrict.    *)
PathWatched ==
    /\ \A d \in Daemons :
          \/ lost
          \/ SomeoneElsewhere(d)
          \/ /\ pc[d] \in {"chmod", "up"} => path.by = d
             /\ pc[d] \in {"probe", "replace"} => path # NoFile
             /\ pc[d] = "bind" => path = NoFile
    /\ path # NoFile /\ ~path.private => bare \/ pc[path.by] = "chmod"

(* A crashed predecessor does not keep a daemon from starting (prepare_socket *)
(* replaces what it left), unless it died between bind() and the chmod: the   *)
(* socket is then refused as unsafe, now and at every later start.  A daemon  *)
(* that is alive is met only by one with another metrics listener.            *)
RefusedForAReason ==
    \A d \in Daemons :
        /\ refused[d] # "no" => pc[d] \in {"abandon", "gone"}
        /\ refused[d] = "unsafe" => bare \/ lost \/ SomeoneElsewhere(d)
        /\ refused[d] \in {"running", "io"} => lost \/ SomeoneElsewhere(d)

SocketInv == PortsHeld /\ PathWatched /\ RefusedForAReason

Inv == IInv /\ SocketInv

(* A daemon that is up can be reached: the path leads to its own socket, kept *)
(* from the two removals of another's stop and from a replacement.  Two       *)
(* metrics addresses, or a lost metrics listener, are what takes it away.     *)
ControlPathLeadsHome ==
    \A d \in Daemons : pc[d] = "up" => \/ path.by = d
                                       \/ lost
                                       \/ SomeoneElsewhere(d)

(* Every change of the configuration in force is to a later version of the    *)
(* file, except when two reloads overlap: the file is read before the lock is *)
(* taken (control.rs reload), so the older reading may be applied last.       *)
OnlyOverlapGoesBack ==
    [][\A d \in Daemons :
          conf'[d].version < conf[d].version
             => \E c \in Loops : task[c].of = d /\ task[c].late]_vars

(* A token command that is told its reload was made has its change in force:  *)
(* a revoked token no longer opens the daemon that answered.  Nothing in the  *)
(* code keeps two commands apart (auth.rs create, revoke): one that wrote     *)
(* while the other had loaded is the exception, its change is taken back.     *)
ReloadCarriesTheChange ==
    [][\A c \in Clients :
          /\ task[c].at = "compiled" /\ task'[c].at = "answer" /\ task'[c].ok
          /\ task[c].wrote /\ ~task[c].crossed
          => c \in conf'[task[c].of].has]_vars
=============================================================================

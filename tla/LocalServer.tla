---------------------------- MODULE LocalServer ----------------------------
(***************************************************************************)
(* The local server and the commands that start and stop it:               *)
(* LocalServerManager (adapter/primary/runtime/runtime.go), the server's   *)
(* start and shutdown (api/server.go, cli/serve.go), and the operation     *)
(* store it can open (app/runtime_factories.go).                           *)
(*                                                                         *)
(* Clients and servers are processes that meet in the file system: at the  *)
(* socket, the PID file, the metadata file and the lock of the store.  A   *)
(* file is the server it belongs to.  X_Bug is a faulty variant of X.      *)
(***************************************************************************)
EXTENDS Naturals, FiniteSets

CONSTANTS
  Client,
  Server,      \* server processes that may be started
  NoServer,
  MaxFailures  \* bound: crashes of servers, failing writes, ends of commands half way

ASSUME ServerAssumption == NoServer \notin Server /\ MaxFailures \in Nat

VARIABLES
  socket, pidFile, metadata,  \* whose each of the files is
  storeLock,                  \* who has the operation store's file open
  proc,                       \* the state of each server process
  store,                      \* the operation store of each: "none", "file", "memory"
  client,                     \* the command each client is in, see Idle
  faults,
  orphaned,                   \* history: servers whose client ended before it wrote both files
  overlapped                  \* history: see Crosses

files == <<socket, pidFile, metadata>>
serverVars == <<files, storeLock, proc, store, client, faults, orphaned, overlapped>>

\* pc: the next step; goal: which command; pid, meta: what its Status read; mine:
\* the server it has started, or signalled.
Idle == [pc |-> "idle", goal |-> "none", pid |-> NoServer, meta |-> FALSE, mine |-> NoServer]

ServerInit ==
  /\ socket = NoServer /\ pidFile = NoServer /\ metadata = NoServer /\ storeLock = NoServer
  /\ proc = [s \in Server |-> "unborn"] /\ store = [s \in Server |-> "none"]
  /\ client = [c \in Client |-> Idle]
  /\ faults = 0 /\ orphaned = {} /\ overlapped = FALSE

Alive(s) == proc[s] \notin {"unborn", "gone"}
Answers(s) == proc[s] \in {"bound", "serving"}
Healthy == socket # NoServer /\ Answers(socket)
At(c, label) == client[c].pc = label

\* Two commands at a time, or one that works on the files, believing that no
\* server runs, while a server process is there.
Crosses(c, working) ==
  overlapped' = (overlapped \/ (\E d \in Client \ {c} : ~At(d, "idle"))
                      \/ (working /\ \E s \in Server : Alive(s)))

ClientGoto(c, label) ==
  client' = [client EXCEPT ![c] = IF label = "idle" THEN Idle ELSE [@ EXCEPT !.pc = label]]

-----------------------------------------------------------------------------
\* A command of a client: "ensure" a server runs, or "stop" it.

Command(c, goal) ==
  /\ At(c, "idle")
  /\ client' = [client EXCEPT ![c].pc = "read", ![c].goal = goal]
  /\ Crosses(c, FALSE)
  /\ UNCHANGED <<files, storeLock, proc, store, faults, orphaned>>

\* Status reads the metadata and the PID file, which takes precedence ...
StatusRead(c) ==
  /\ At(c, "read")
  /\ client' = [client EXCEPT
       ![c].pc = "health", ![c].meta = metadata # NoServer,
       ![c].pid = IF pidFile # NoServer THEN pidFile ELSE metadata]
  /\ UNCHANGED <<files, storeLock, proc, store, faults, orphaned, overlapped>>

Removes(c) == client[c].meta \/ socket # NoServer \/ pidFile # NoServer

\* ... and then asks the server.  A caller that polls may find its five seconds
\* over.
AfterStatus(c) ==
  LET ensure == client[c].goal = "ensure"
      polls == client[c].mine # NoServer
      unknown == client[c].pid = NoServer
  IN  IF Healthy
        THEN CASE ensure -> {"idle"}
               [] ~ensure /\ polls -> {"read", "idle"}
               [] OTHER -> IF unknown THEN {"idle"} ELSE {"signal"}
        ELSE CASE ensure /\ polls -> {"read", "idle"}
               [] Removes(c) -> {"unlink"}
               [] OTHER -> IF ensure THEN {"start"} ELSE {"idle"}

StatusHealth(c) ==
  /\ At(c, "health")
  /\ \E next \in AfterStatus(c) : ClientGoto(c, next)
  /\ UNCHANGED <<files, storeLock, proc, store, faults, orphaned, overlapped>>

\* cleanupStaleFiles removes them one after the other.
CleanSocket(c) ==
  /\ At(c, "unlink")
  /\ socket' = NoServer
  /\ ClientGoto(c, "cleanup") /\ Crosses(c, TRUE)
  /\ UNCHANGED <<pidFile, metadata, storeLock, proc, store, faults, orphaned>>

CleanPID(c) ==
  /\ At(c, "cleanup")
  /\ pidFile' = NoServer
  /\ ClientGoto(c, "forget")
  /\ UNCHANGED <<socket, metadata, storeLock, proc, store, faults, orphaned, overlapped>>

CleanMetadata(c) ==
  /\ At(c, "forget")
  /\ metadata' = NoServer
  /\ ClientGoto(c, IF client[c].goal = "ensure" THEN "start" ELSE "idle")
  /\ UNCHANGED <<socket, pidFile, storeLock, proc, store, faults, orphaned, overlapped>>

StartServer(c, s) ==
  /\ At(c, "start") /\ proc[s] = "unborn"
  /\ proc' = [proc EXCEPT ![s] = "starting"]
  /\ client' = [client EXCEPT ![c].pc = "pid", ![c].mine = s]
  /\ Crosses(c, TRUE)
  /\ UNCHANGED <<files, storeLock, store, faults, orphaned>>

WritePID(c) ==
  /\ At(c, "pid")
  /\ pidFile' = client[c].mine
  /\ ClientGoto(c, "metadata")
  /\ UNCHANGED <<socket, metadata, storeLock, proc, store, faults, orphaned, overlapped>>

WriteMetadata(c) ==
  /\ At(c, "metadata")
  /\ metadata' = client[c].mine
  /\ ClientGoto(c, "read")
  /\ UNCHANGED <<socket, pidFile, storeLock, proc, store, faults, orphaned, overlapped>>

\* A process ends: the kernel drops its lock, its socket file stays.
Ends(s) ==
  /\ proc' = [proc EXCEPT ![s] = "gone"]
  /\ storeLock' = IF storeLock = s THEN NoServer ELSE storeLock
  /\ store' = [store EXCEPT ![s] = "none"]

WriteFails_Bug(c) ==
  /\ At(c, "pid") \/ At(c, "metadata")
  /\ faults < MaxFailures /\ faults' = faults + 1
  /\ pidFile' = IF At(c, "metadata") THEN NoServer ELSE pidFile
  /\ ClientGoto(c, "idle")
  /\ UNCHANGED <<socket, metadata, storeLock, proc, store, orphaned, overlapped>>

\* A write fails: the client kills the process it started.
WriteFails(c) ==
  /\ At(c, "pid") \/ At(c, "metadata")
  /\ faults < MaxFailures /\ faults' = faults + 1
  /\ Ends(client[c].mine)
  /\ pidFile' = IF At(c, "metadata") THEN NoServer ELSE pidFile
  /\ ClientGoto(c, "idle")
  /\ UNCHANGED <<socket, metadata, orphaned, overlapped>>

\* A command ends half way: it is killed, or a step of it fails after which it just
\* returns.  The server it has started goes on.
Dies(c) ==
  /\ ~At(c, "idle")
  /\ faults < MaxFailures /\ faults' = faults + 1
  /\ orphaned' = IF At(c, "pid") \/ At(c, "metadata") THEN orphaned \cup {client[c].mine}
                                                      ELSE orphaned
  /\ ClientGoto(c, "idle")
  /\ UNCHANGED <<files, storeLock, proc, store, overlapped>>

\* SIGTERM.  A server that has not come to signal.NotifyContext just dies.
Terminate(s) ==
  CASE proc[s] = "serving" -> proc' = [proc EXCEPT ![s] = "stopping"] /\ UNCHANGED <<storeLock, store>>
    [] proc[s] \in {"starting", "binding", "bound"} -> Ends(s)
    [] OTHER -> UNCHANGED <<proc, storeLock, store>>

Signal(c) ==
  /\ At(c, "signal")
  /\ IF Alive(client[c].pid)
       THEN /\ Terminate(client[c].pid)
            /\ client' = [client EXCEPT ![c].pc = "read", ![c].mine = client[c].pid]
       ELSE ClientGoto(c, "idle") /\ UNCHANGED <<proc, storeLock, store>>
  /\ UNCHANGED <<files, faults, orphaned, overlapped>>

-----------------------------------------------------------------------------
\* A server process.

Become(s, state) == proc' = [proc EXCEPT ![s] = state]

\* Start removes a stale socket file ...
Unlink(s) ==
  /\ proc[s] = "starting" /\ Become(s, "binding")
  /\ socket' = NoServer
  /\ UNCHANGED <<pidFile, metadata, storeLock, store, client, faults, orphaned, overlapped>>

\* ... and binds, which fails when there is one again.
Listen(s) ==
  /\ proc[s] = "binding"
  /\ IF socket = NoServer THEN Become(s, "bound") /\ socket' = s /\ UNCHANGED <<storeLock, store>>
                          ELSE Ends(s) /\ UNCHANGED socket
  /\ UNCHANGED <<pidFile, metadata, client, faults, orphaned, overlapped>>

Ready(s) ==
  /\ proc[s] = "bound" /\ Become(s, "serving")
  /\ UNCHANGED <<files, storeLock, store, client, faults, orphaned, overlapped>>

\* The first use of the operation service opens the store, or falls back to
\* memory when another process has the file.
OpenStore(s) ==
  /\ Answers(s) /\ store[s] = "none"
  /\ store' = [store EXCEPT ![s] = IF storeLock = NoServer THEN "file" ELSE "memory"]
  /\ storeLock' = IF storeLock = NoServer THEN s ELSE storeLock
  /\ UNCHANGED <<files, proc, client, faults, orphaned, overlapped>>

\* http.Server.Shutdown closes the listener, which removes the path it was bound
\* to, and then waits for the requests under way.
Shutdown(s) ==
  /\ proc[s] = "stopping" /\ Become(s, "draining")
  /\ socket' = NoServer
  /\ UNCHANGED <<pidFile, metadata, storeLock, store, client, faults, orphaned, overlapped>>

\* Then Server.Shutdown removes the socket file by name.
RemoveSocket(s) ==
  /\ proc[s] = "draining" /\ Become(s, "closing")
  /\ socket' = NoServer
  /\ UNCHANGED <<pidFile, metadata, storeLock, store, client, faults, orphaned, overlapped>>

\* App.Close in the command's post-run hook, and the end of the process.
Exit(s) ==
  /\ proc[s] = "closing" /\ Ends(s)
  /\ UNCHANGED <<files, client, faults, orphaned, overlapped>>

Crash(s) ==
  /\ Alive(s) /\ faults < MaxFailures
  /\ faults' = faults + 1 /\ Ends(s)
  /\ UNCHANGED <<files, client, orphaned, overlapped>>

-----------------------------------------------------------------------------
ClientStep(c) ==
  \/ StatusRead(c) \/ StatusHealth(c)
  \/ CleanSocket(c) \/ CleanPID(c) \/ CleanMetadata(c)
  \/ WritePID(c) \/ WriteMetadata(c) \/ Signal(c)
  \/ \E s \in Server : StartServer(c, s)

ServerStep(s) ==
  Unlink(s) \/ Listen(s) \/ Ready(s) \/ Shutdown(s) \/ RemoveSocket(s) \/ Exit(s)

ServerNext ==
  \/ \E c \in Client : \/ ClientStep(c) \/ WriteFails(c) \/ Dies(c)
                       \/ Command(c, "ensure") \/ Command(c, "stop")
  \/ \E s \in Server : ServerStep(s) \/ OpenStore(s) \/ Crash(s)

ServerSpec == ServerInit /\ [][ServerNext]_serverVars

-----------------------------------------------------------------------------
ServerTypeOK ==
  /\ {socket, pidFile, metadata, storeLock} \subseteq Server \cup {NoServer}
  /\ proc \in [Server -> {"unborn", "starting", "binding", "bound", "serving",
                          "stopping", "draining", "closing", "gone"}]
  /\ store \in [Server -> {"none", "file", "memory"}]
  /\ client \in [Client ->
       [pc : {"idle", "read", "health", "unlink", "cleanup", "forget", "start", "pid", "metadata",
              "signal"},
        goal : {"none", "ensure", "stop"}, pid : Server \cup {NoServer}, meta : BOOLEAN,
        mine : Server \cup {NoServer}]]
  /\ faults \in 0..MaxFailures /\ orphaned \subseteq Server /\ overlapped \in BOOLEAN

Busy(c) == client[c].pc \in {"unlink", "cleanup", "forget", "start", "pid", "metadata"}

\* Commands that take turns, each after the process of the last server is gone,
\* leave one server that clients reach and whose jobs are on disk, and, unless its
\* client ended between its start and the writing of its files, know the PID of and
\* can stop, whatever crashed, failed or timed out before (EnsureRunning and Stop
\* of runtime.go).  Without the condition it does not hold: a server that still
\* answers its last requests removes the socket of its successor and keeps the file
\* of the store from it (server.go:187, runtime_factories.go:80).
OneServer ==
  ~overlapped =>
    \A s \in Server : Answers(s) =>
      /\ socket = s /\ store[s] # "memory"
      /\ (\A c \in Client : ~Busy(c)) => s \in orphaned \/ (pidFile = s /\ metadata = s)
=============================================================================

--------------------------- MODULE LocalstackRuntime ---------------------------
(***************************************************************************)
(* The life cycle of the process (runtime/runtime.py, runtime/main.py): the *)
(* main thread runs the start hooks and then the server, and a signal or a *)
(* request starts a thread that shuts the runtime down.  The thread that   *)
(* announces that the runtime is ready is left out: nothing here reads it. *)
(*                                                                         *)
(* The shutdown hooks, which stop the services, belong to ServiceManager,  *)
(* which extends this module.                                              *)
(***************************************************************************)

VARIABLES
    main,      \* run(), in the main thread
    server,    \* the loop of the RuntimeServer
    stopping,  \* infra_stopping is set
    stopped,   \* infra_stopped is set
    shutdown   \* shutdown(), in the thread that was the first to call it

runtimeVars == <<main, server, stopping, stopped, shutdown>>

RuntimeTypeOK ==
    /\ main \in {"starting", "registered", "serving", "exited"}
    /\ server \in {"idle", "running", "closed"}
    /\ stopping \in BOOLEAN /\ stopped \in BOOLEAN
    /\ shutdown \in {"none", "hooks", "server", "over"}

RuntimeInit ==
    /\ main = "starting" /\ server = "idle"
    /\ stopping = FALSE /\ stopped = FALSE
    /\ shutdown = "none"

\* The start hooks have run and the gateway is registered; a hook that raises
\* ends the process.
Start ==
    /\ main = "starting"
    /\ main' \in {"registered", "exited"}
    /\ UNCHANGED <<server, stopping, stopped, shutdown>>

\* runtime_server.run()
Serve ==
    /\ main = "registered"
    /\ main' = "serving" /\ server' = "running"
    /\ UNCHANGED <<stopping, stopped, shutdown>>

\* The loop has ended: _on_return.
Return ==
    /\ main = "serving" /\ server = "closed"
    /\ main' = "exited" /\ stopped' = TRUE
    /\ UNCHANGED <<server, stopping, shutdown>>

\* exit(): the handlers for SIGINT and SIGTERM are there before run() starts.
\* Whoever finds stopping set returns.
Exit ==
    /\ main # "exited" /\ ~stopping
    /\ stopping' = TRUE /\ shutdown' = "hooks"
    /\ UNCHANGED <<main, server, stopped>>

\* Mutant of ShutdownServer: the threads of the pool are stopped, the loop is not.
ShutdownServerPool == UNCHANGED server

\* reactor.stop() raises when the reactor is not running.
ShutdownServer == server' = IF server = "running" THEN "closed" ELSE server

\* runtime_server.shutdown(), after the hooks.
FinishShutdown ==
    /\ shutdown = "server" /\ main # "exited"
    /\ ShutdownServer
    /\ shutdown' = "over"
    /\ UNCHANGED <<main, stopping, stopped>>

Main == Start \/ Serve \/ Return

=============================================================================

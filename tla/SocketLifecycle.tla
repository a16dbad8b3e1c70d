-------------------------- MODULE SocketLifecycle --------------------------
(***************************************************************************)
(* The socket file of the executor: listen() and ~ExecutorServer           *)
(* (src/executor.cpp), for several processes on one path, one after the    *)
(* other or overlapping.  A process that crashes has its descriptors       *)
(* closed and leaves its socket file behind.                               *)
(*                                                                         *)
(* A socket file is named by the process that bound it.                    *)
(***************************************************************************)
EXTENDS Processes

NoFile == "none"

ASSUME SocketAssumption == NoFile \notin Executors

VARIABLES
    socket_path,  \* whose socket file is at config_.socket_path, if any
    mode,         \* the mode of each process's socket file
    listening,    \* the processes whose listen_fd_ accepts connections
    bindFailed    \* history: the processes that found their path taken

lifeVars == <<step, overlapped, socket_path, mode, listening, bindFailed>>

LifeInit ==
    /\ step = [p \in Executors |-> "not_started"] /\ overlapped = {}
    /\ socket_path = NoFile
    /\ mode = [p \in Executors |-> "umask"]
    /\ listening = {} /\ bindFailed = {}

-----------------------------------------------------------------------------
(* listen().                                                               *)

\* Mutant: the stale file left in place.
UnlinkSkipped(p) ==
    /\ step[p] = "unlink"
    /\ Goto(p, "bind")
    /\ UNCHANGED <<socket_path, mode, listening, bindFailed>>

\* remove(config_.socket_path, ec), whatever is there.
Unlink(p) ==
    /\ step[p] = "unlink"
    /\ socket_path' = NoFile
    /\ Goto(p, "bind")
    /\ UNCHANGED <<mode, listening, bindFailed>>

\* bind() creates the file with the process's umask, and fails on an existing one.
Bind(p) ==
    /\ step[p] = "bind"
    /\ IF socket_path = NoFile
         THEN socket_path' = p /\ Goto(p, "chmod") /\ UNCHANGED bindFailed
         ELSE bindFailed' = bindFailed \cup {p} /\ Goto(p, "destroy") /\ UNCHANGED socket_path
    /\ UNCHANGED <<mode, listening>>

\* Mutant: listen() before chmod().
ListenFirst(p) ==
    /\ step[p] = "chmod"
    /\ listening' = listening \cup {p}
    /\ Goto(p, "serve")
    /\ UNCHANGED <<socket_path, mode, bindFailed>>

\* chmod() takes the path, and narrows the file that is there now.
Chmod(p) ==
    /\ step[p] = "chmod" /\ socket_path # NoFile
    /\ mode' = [mode EXCEPT ![socket_path] = "owner"]
    /\ Goto(p, "listen")
    /\ UNCHANGED <<socket_path, listening, bindFailed>>

Listen(p) ==
    /\ step[p] = "listen"
    /\ listening' = listening \cup {p}
    /\ Goto(p, "serve")
    /\ UNCHANGED <<socket_path, mode, bindFailed>>

\* The path is too long, remove() leaves the stale file and bind() fails on it,
\* or pipe(), socket(), bind(), chmod() or ::listen() fails.
ListenFails(p) ==
    /\ step[p] \in {"unlink", "bind", "chmod", "listen"}
    /\ Goto(p, "destroy")
    /\ UNCHANGED <<socket_path, mode, listening, bindFailed>>

-----------------------------------------------------------------------------
\* ~ExecutorServer closes the descriptors, then removes the path.
DestroyCloses(p) ==
    /\ step[p] = "destroy"
    /\ listening' = listening \ {p}
    /\ Goto(p, "destroy_path")
    /\ UNCHANGED <<socket_path, mode, bindFailed>>

\* The error of remove() is ignored.
DestroyRemoves(p) ==
    /\ step[p] = "destroy_path"
    /\ socket_path' \in {NoFile, socket_path}
    /\ Goto(p, "return")
    /\ UNCHANGED <<mode, listening, bindFailed>>

-----------------------------------------------------------------------------
(* Properties.                                                             *)

\* "A crashed executor leaves one behind and bind then fails": after any history
\* of crashes, failures and overlaps, a process that has run alone and is serving
\* can be reached at its path, and none of them found the path taken.
RestartReachable ==
    \A p \in Executors \ overlapped :
        (step[p] = "serve" => socket_path = p) /\ p \notin bindFailed

\* "Anything that can connect to this socket can make the executor place an
\* order": from the moment a socket file accepts connections, its mode is the
\* owner's alone, even when two processes unlink, bind and chmod one path at the
\* same time and narrow each other's files.
ConnectableByOwnerOnly == socket_path \in listening => mode[socket_path] = "owner"

=============================================================================

--------------------------- MODULE SocketManager ---------------------------
(***************************************************************************)
(* socket_manager (network_utils.cc): the thread that selects on the       *)
(* registered sockets and calls their handlers, and the operations other   *)
(* threads use to register and to remove one.  The agent registers one     *)
(* socket at a time, and a new socket gets the descriptor of the last one. *)
(***************************************************************************)
EXTENDS Integers, Sequences

VARIABLES
    handler,      \* active_sockets holds the fd
    watched,      \* total_fd_set holds the fd
    ctrl,         \* the control pipe
    removed,      \* rem_fd_tmp_list holds the fd
    rpc,          \* where run_thread stands; it owns socket_mutex when past "lock"
    readSet       \* read_fd_set

rxVars == <<handler, watched, ctrl, removed, rpc, readSet>>

RxTypeOK ==
    /\ handler \in BOOLEAN /\ watched \in BOOLEAN /\ removed \in BOOLEAN
    /\ ctrl \in Seq({"NEW_FD", "RM_FD", "EXIT"})
    /\ rpc \in {"select", "lock", "callback", "control", "done"}
    /\ readSet \subseteq {"fd", "pipe"}

RxInit ==
    /\ handler = FALSE /\ watched = FALSE
    /\ ctrl = <<>> /\ removed = FALSE
    /\ rpc = "select" /\ readSet = {}

MutexFree == rpc \notin {"callback", "control"}

-----------------------------------------------------------------------------
\* Called by other threads, each under socket_mutex

add_socket_handler ==
    /\ MutexFree
    /\ IF handler THEN UNCHANGED <<handler, ctrl>>
                  ELSE handler' = TRUE /\ ctrl' = Append(ctrl, "NEW_FD")
    /\ UNCHANGED <<watched, removed, rpc, readSet>>

\* found: the fd is registered, so that remove_socket will wait
remove_socket_nonblocking(found) ==
    /\ MutexFree
    /\ found = handler
    /\ ctrl' = IF found THEN Append(ctrl, "RM_FD") ELSE ctrl
    /\ UNCHANGED <<handler, watched, removed, rpc, readSet>>

\* The wait on rem_cvar in remove_socket
AwaitRemoval ==
    /\ MutexFree
    /\ removed
    /\ removed' = FALSE
    /\ UNCHANGED <<handler, watched, ctrl, rpc, readSet>>

WriteExit ==
    /\ MutexFree
    /\ ctrl' = Append(ctrl, "EXIT")
    /\ UNCHANGED <<handler, watched, removed, rpc, readSet>>

-----------------------------------------------------------------------------
\* run_thread: select, lock, the handler of a readable socket, one control message

RxSelect(readable) ==
    /\ rpc = "select"
    /\ readSet' = (IF watched /\ readable THEN {"fd"} ELSE {})
                    \cup (IF ctrl # <<>> THEN {"pipe"} ELSE {})
    /\ readSet' # {}
    /\ rpc' = "lock"
    /\ UNCHANGED <<handler, watched, ctrl, removed>>

RxLock ==
    /\ rpc = "lock"
    /\ rpc' = "callback"
    /\ UNCHANGED <<handler, watched, ctrl, removed, readSet>>

HandlerDue == handler /\ "fd" \in readSet

HandlerReturned ==
    /\ rpc = "callback"
    /\ rpc' = "control"
    /\ UNCHANGED <<handler, watched, ctrl, removed, readSet>>

\* Mutant: the waiting remove_socket is not told.
RemoveSocket_NoSignal ==
    /\ handler' = FALSE /\ watched' = FALSE
    /\ UNCHANGED removed

\* remove_socket_unprotected, and the answer to remove_socket
RemoveSocket ==
    /\ handler' = FALSE /\ watched' = FALSE
    /\ removed' = TRUE

RxControl ==
    /\ rpc = "control"
    /\ IF "pipe" \notin readSet
       THEN rpc' = "select" /\ UNCHANGED <<handler, watched, ctrl, removed>>
       ELSE /\ ctrl' = Tail(ctrl)
            /\ rpc' = IF Head(ctrl) = "EXIT" THEN "done" ELSE "select"
            /\ CASE Head(ctrl) = "NEW_FD" -> watched' = TRUE /\ UNCHANGED <<handler, removed>>
                 [] Head(ctrl) = "RM_FD"  -> RemoveSocket
                 [] Head(ctrl) = "EXIT"   -> UNCHANGED <<handler, watched, removed>>
    /\ readSet' = {}
=============================================================================

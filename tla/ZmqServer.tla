----------------------------- MODULE ZmqServer -----------------------------
(***************************************************************************)
(* One ZeroMQ server of the daemon: zmq_server_start, the server thread    *)
(* and zmq_server_stop (zmq_server.c), with the service it serves          *)
(* (zmq_service.c), its clients, and the main thread that starts it, waits *)
(* for the stop signal and stops it (virtio_forwarder_main.c).             *)
(*                                                                         *)
(* The two threads share two pipes and two heap objects.  The pipes carry  *)
(* one "ready" event to the main thread and one "quit" event back, and     *)
(* each thread closes its own ends.  The objects are the server, which     *)
(* holds the thread's context, and the service, which holds the handler.   *)
(* A request's contents do not matter here: a client is idle, or its       *)
(* request is queued, taken by the thread, or answered.                    *)
(***************************************************************************)
EXTENDS Naturals

CONSTANTS
    Clients,      \* the processes that send requests to the endpoint
    Faults        \* the failures that can happen, a subset of FaultKinds

\* calloc, pipe2 and pthread_create fail; init_zmq fails; the thread is not
\* ready within two seconds (or poll fails); write on a pipe, or pthread_join,
\* fails; a ZeroMQ call of the loop, or the read of quit_fd, fails or is
\* interrupted.
FaultKinds == {"alloc", "pipe", "create", "bind", "slow", "write", "zmq"}

ASSUME FaultsAssumption == Faults \subseteq FaultKinds

\* The four pipe ends.  The main thread keeps ready and send_quit.
Fds == {"ready", "send_ready", "quit", "send_quit"}
ThreadFds == {"send_ready", "quit"}

VARIABLES
    main,         \* where the main thread is
    thr,          \* where the server thread is
    server,       \* struct zmq_server: "none", "held" or "freed"
    service,      \* struct zmq_service: "held", "freed" or "freed_twice"
    fd,           \* each pipe end: "none", "open", "closed" or "closed_twice"
    mainOwns,     \* the ends whose variable in the main thread is not -1
    thrOwns,      \* the ends whose variable in the server thread is not -1
    readyByte,    \* the number of bytes in the ready pipe
    quitByte,     \* the number of bytes in the quit pipe
    request,      \* each client: "idle", "queued", "taken" or "answered"
    exitStatus    \* the thread's exit status

vars == <<main, thr, server, service, fd, mainOwns, thrOwns, readyByte,
          quitByte, request, exitStatus>>

mainVars == <<main, server, service, mainOwns>>

MainSteps == {"calloc", "pipe2", "pthread_create", "wait", "up", "join",
              "close", "free", "unwind", "unwind_free", "release",
              "stopped", "failed", "exited"}
ThrSteps == {"none", "begin", "init_zmq", "send_ready", "check_quit", "poll",
             "recv", "handle", "send", "close_zmq", "close_quit",
             "close_ready", "end", "gone"}

TypeOK ==
    /\ main \in MainSteps
    /\ thr \in ThrSteps
    /\ server \in {"none", "held", "freed"}
    /\ service \in {"held", "freed", "freed_twice"}
    /\ fd \in [Fds -> {"none", "open", "closed", "closed_twice"}]
    /\ mainOwns \subseteq Fds
    /\ thrOwns \subseteq Fds
    /\ readyByte \in 0..1
    /\ quitByte \in 0..1
    /\ request \in [Clients -> {"idle", "queued", "taken", "answered"}]
    /\ exitStatus \in 0..1

Init ==
    /\ main = "calloc"
    /\ thr = "none"
    /\ server = "none"
    /\ service = "held"
    /\ fd = [f \in Fds |-> "none"]
    /\ mainOwns = {}
    /\ thrOwns = {}
    /\ readyByte = 0
    /\ quitByte = 0
    /\ request = [c \in Clients |-> "idle"]
    /\ exitStatus = 0

(***************************************************************************)
(* Helpers.                                                                *)
(***************************************************************************)

\* close_fd on every end of S whose variable is not -1.
close_fd(S) ==
    fd' = [f \in Fds |->
             IF f \notin S THEN fd[f]
             ELSE IF fd[f] = "open" THEN "closed" ELSE "closed_twice"]

\* zmq_service_release: no reference counting, the destructor runs at once.
zmq_service_release ==
    service' = IF service = "held" THEN "freed" ELSE "freed_twice"

\* The main thread moves on and touches nothing of the server thread's.
MainGoes(from, to) ==
    /\ main = from
    /\ main' = to
    /\ UNCHANGED <<thr, thrOwns, exitStatus, request>>

\* The server thread moves on.  It runs until the process exits.
ThrGoes(from, to) ==
    /\ thr = from
    /\ main # "exited"
    /\ thr' = to
    /\ UNCHANGED mainVars

\* Steps that only move on.
MainMoves(from, to) ==
    /\ MainGoes(from, to)
    /\ UNCHANGED <<server, service, fd, mainOwns, readyByte, quitByte>>

ThrMoves(from, to) ==
    /\ ThrGoes(from, to)
    /\ UNCHANGED <<fd, thrOwns, readyByte, quitByte, request, exitStatus>>

(***************************************************************************)
(* zmq_server_start.                                                       *)
(***************************************************************************)

StartCalloc ==
    \/ /\ MainGoes("calloc", "pipe2")
       /\ server' = "held"
       /\ UNCHANGED <<service, fd, mainOwns, readyByte, quitByte>>
    \/ /\ "alloc" \in Faults
       /\ MainMoves("calloc", "release")

\* Both pipes, none (the first pipe2 fails), or the ready pipe alone.
StartPipes ==
    \E made \in {Fds, {}, {"ready", "send_ready"}} :
        /\ made # Fds => "pipe" \in Faults
        /\ MainGoes("pipe2", IF made = Fds THEN "pthread_create" ELSE "unwind")
        /\ fd' = [f \in Fds |-> IF f \in made THEN "open" ELSE "none"]
        /\ mainOwns' = made
        /\ UNCHANGED <<server, service, readyByte, quitByte>>

\* Mutant of StartThread: main keeps the descriptors it gave to the thread.
StartThread_keeps_fds ==
    /\ main = "pthread_create"
    /\ main' = "wait"
    /\ thr' = "begin"
    /\ thrOwns' = ThreadFds
    /\ UNCHANGED <<server, service, fd, mainOwns, readyByte, quitByte,
                   request, exitStatus>>

\* Once the thread has started, it is responsible for closing its ends.
StartThread ==
    \/ /\ main = "pthread_create"
       /\ main' = "wait"
       /\ thr' = "begin"
       /\ mainOwns' = mainOwns \ ThreadFds
       /\ thrOwns' = ThreadFds
       /\ UNCHANGED <<server, service, fd, readyByte, quitByte,
                      request, exitStatus>>
    \/ /\ "create" \in Faults
       /\ MainMoves("pthread_create", "unwind")

\* The event arrives; or the pipe is at end of file; or two seconds pass.
wait_for_thread_ready ==
    \/ /\ readyByte = 1
       /\ MainGoes("wait", "up")
       /\ readyByte' = 0
       /\ UNCHANGED <<server, service, fd, mainOwns, quitByte>>
    \/ /\ readyByte = 0
       /\ fd["send_ready"] # "open" \/ "slow" \in Faults
       /\ MainMoves("wait", "unwind")

\* error_exit: close the ends, free the server, release the service.
UnwindClose ==
    /\ MainGoes("unwind", "unwind_free")
    /\ close_fd(mainOwns)
    /\ mainOwns' = {}
    /\ UNCHANGED <<server, service, readyByte, quitByte>>

UnwindFree ==
    /\ MainGoes("unwind_free", "release")
    /\ server' = "freed"
    /\ UNCHANGED <<service, fd, mainOwns, readyByte, quitByte>>

\* Mutant of UnwindRelease: the error path leaves the service to its caller.
UnwindRelease_not == MainMoves("release", "failed")

UnwindRelease ==
    /\ MainGoes("release", "failed")
    /\ zmq_service_release
    /\ UNCHANGED <<server, fd, mainOwns, readyByte, quitByte>>

\* main() exits when a server cannot be started, and its threads with it.
Exit == MainMoves("failed", "exited")

(***************************************************************************)
(* zmq_server_stop.                                                        *)
(***************************************************************************)

\* The quit event; EPIPE, when the thread has already shut down, is success.
\* Any other error goes straight to the clean-up.
StopSend ==
    \/ /\ MainGoes("up", "join")
       /\ quitByte' = IF fd["quit"] = "open" THEN 1 ELSE 0
       /\ UNCHANGED <<server, service, fd, mainOwns, readyByte>>
    \/ /\ "write" \in Faults
       /\ MainMoves("up", "close")

\* Mutant of StopJoin: the thread is not joined.
StopJoin_not == MainMoves("join", "close")

StopJoin ==
    /\ thr = "gone" \/ "write" \in Faults
    /\ MainMoves("join", "close")

StopClose ==
    /\ MainGoes("close", "free")
    /\ close_fd(mainOwns)
    /\ mainOwns' = {}
    /\ UNCHANGED <<server, service, readyByte, quitByte>>

StopFree ==
    /\ MainGoes("free", "stopped")
    /\ zmq_service_release
    /\ server' = "freed"
    /\ UNCHANGED <<fd, mainOwns, readyByte, quitByte>>

(***************************************************************************)
(* The server thread: zmq_thread and zmq_thread_loop.                      *)
(***************************************************************************)

\* zmq_thread logs the service's name and reads its context.
ThreadBegin == ThrMoves("begin", "init_zmq")

\* error_exit and the quit path make the same calls in the same order.
GoesToClose(from, status) ==
    /\ ThrGoes(from, "close_zmq")
    /\ exitStatus' = status
    /\ UNCHANGED <<fd, thrOwns, readyByte, quitByte, request>>

\* Mutant of init_zmq: its error code is passed on as the exit status.
init_zmq_errno ==
    \/ ThrMoves("init_zmq", "send_ready")
    \/ /\ "bind" \in Faults
       /\ GoesToClose("init_zmq", 98)

init_zmq ==
    \/ ThrMoves("init_zmq", "send_ready")
    \/ /\ "bind" \in Faults
       /\ GoesToClose("init_zmq", 1)

\* The ready event; EPIPE, when main has given up, is success.
SendReady ==
    \/ /\ ThrGoes("send_ready", "check_quit")
       /\ readyByte' = IF fd["ready"] = "open" THEN 1 ELSE 0
       /\ UNCHANGED <<fd, thrOwns, quitByte, request, exitStatus>>
    \/ /\ "write" \in Faults
       /\ GoesToClose("send_ready", 1)

\* Mutant of CheckQuit: only end of file is taken for the quit event.
CheckQuit_eof ==
    \/ /\ fd["send_quit"] # "open"
       /\ GoesToClose("check_quit", 0)
    \/ /\ fd["send_quit"] = "open"
       /\ ThrMoves("check_quit", "poll")

\* End of file still means that the thread should quit.
CheckQuit ==
    \/ /\ quitByte = 1 \/ fd["send_quit"] # "open"
       /\ GoesToClose("check_quit", 0)
    \/ /\ quitByte = 0
       /\ fd["send_quit"] = "open"
       /\ ThrMoves("check_quit", "poll")
    \/ /\ "zmq" \in Faults
       /\ GoesToClose("check_quit", 1)

Queued == {c \in Clients : request[c] = "queued"}
Taken == {c \in Clients : request[c] = "taken"}

PollIn ==
    /\ Queued # {}
    /\ ThrMoves("poll", "recv")

\* A message; the poll interval passes without one; EINTR; or an error.
Poll ==
    \/ PollIn
    \/ /\ Queued = {} \/ "zmq" \in Faults
       /\ ThrMoves("poll", "check_quit")
    \/ /\ "zmq" \in Faults
       /\ GoesToClose("poll", 1)

ReceiveFrom(c) ==
    /\ c \in Queued
    /\ ThrGoes("recv", "handle")
    /\ request' = [request EXCEPT ![c] = "taken"]
    /\ UNCHANGED <<fd, thrOwns, readyByte, quitByte, exitStatus>>

\* A message of some client; EINTR; or an error.
Receive ==
    \/ \E c \in Clients : ReceiveFrom(c)
    \/ /\ "zmq" \in Faults
       /\ ThrMoves("recv", "check_quit")
    \/ /\ "zmq" \in Faults
       /\ GoesToClose("recv", 1)

\* service->handle_request: the service's own state is not part of this model.
Handle == ThrMoves("handle", "send")

\* Mutant of Send: the first failure to send is passed over.
Send_lost == ThrMoves("send", "check_quit")

\* The response; EINTR retries and shows no step; another error ends the loop.
Send ==
    \/ /\ ThrGoes("send", "check_quit")
       /\ request' = [c \in Clients |->
                        IF c \in Taken THEN "answered" ELSE request[c]]
       /\ UNCHANGED <<fd, thrOwns, readyByte, quitByte, exitStatus>>
    \/ /\ "zmq" \in Faults
       /\ GoesToClose("send", 1)

\* close_zmq_socket and destroy_zmq_ctx.
CloseZmq == ThrMoves("close_zmq", "close_quit")

CloseThreadFd(from, f, to) ==
    /\ ThrGoes(from, to)
    /\ close_fd({f} \cap thrOwns)
    /\ thrOwns' = thrOwns \ {f}
    /\ UNCHANGED <<readyByte, quitByte, request, exitStatus>>

CloseQuit == CloseThreadFd("close_quit", "quit", "close_ready")
CloseReady == CloseThreadFd("close_ready", "send_ready", "end")

\* zmq_thread logs the service's name again, through its context.
ThreadEnd == ThrMoves("end", "gone")

(***************************************************************************)
(* Clients.  A client sends its next request after the last is answered.   *)
(***************************************************************************)

ClientSend(c) ==
    /\ request[c] \in {"idle", "answered"}
    /\ request' = [request EXCEPT ![c] = "queued"]
    /\ UNCHANGED <<main, thr, server, service, fd, mainOwns, thrOwns,
                   readyByte, quitByte, exitStatus>>

MainStep ==
    \/ StartCalloc \/ StartPipes \/ StartThread \/ wait_for_thread_ready
    \/ UnwindClose \/ UnwindFree \/ UnwindRelease \/ Exit
    \/ StopSend \/ StopJoin \/ StopClose \/ StopFree

ThrStep ==
    \/ ThreadBegin \/ init_zmq \/ SendReady \/ CheckQuit \/ Poll \/ Receive
    \/ Handle \/ Send \/ CloseZmq \/ CloseQuit \/ CloseReady \/ ThreadEnd

Next == MainStep \/ ThrStep \/ \E c \in Clients : ClientSend(c)

Spec == Init /\ [][Next]_vars

\* Both threads are scheduled.  The stop signal need not come (StopSend).
MainGoesOn == MainStep /\ main # "up"

\* Calls are not interrupted for ever, and a REP socket takes the requests of
\* its peers in turn.
FairSpec ==
    /\ Spec
    /\ WF_vars(MainGoesOn)
    /\ WF_vars(ThrStep)
    /\ SF_vars(PollIn)
    /\ \A c \in Clients : SF_vars(ReceiveFrom(c))

(***************************************************************************)
(* Properties.                                                             *)
(***************************************************************************)

\* The server thread reads its context and the service until it is gone (its
\* last step logs the service's name through the context).
ThreadRefers == main # "exited" /\ thr \notin {"none", "gone"}

\* The service is destroyed only when the server thread no longer refers to
\* it: zmq_service_release is documented to run the destructor "when the last
\* reference to the service drops".
ReleasedAtLastReference == ThreadRefers => service = "held"

\* Neither the service nor the server, which holds the thread's context, is
\* freed before the thread has taken its last step.
FreedUnreferenced == ReleasedAtLastReference /\ (ThreadRefers => server = "held")

\* Whatever fails, no pipe end is closed twice, and when both threads have
\* finished with a server none is left open: each end has one owner.
FdsClosedOnce ==
    /\ \A f \in Fds : fd[f] # "closed_twice"
    /\ (main \in {"stopped", "failed"} /\ thr \in {"none", "gone"}) =>
           \A f \in Fds : fd[f] # "open"

\* zmq_server_start on failure, and zmq_server_stop always, release the
\* service, once, and leave no server behind.
ReleasedOnce ==
    /\ service # "freed_twice"
    /\ main \in {"stopped", "failed"} => service = "freed" /\ server # "held"

\* zmq_server_stop returns, also when the thread had failed before, and
\* however many requests keep coming.
StopReturns == main = "join" ~> main = "stopped"

\* A request queued while the server runs is answered, unless the thread is
\* told to quit or fails: no iteration of the loop passes over a message.
RequestsAnswered ==
    \A c \in Clients :
        request[c] = "queued" /\ main = "up" ~>
            request[c] = "answered" \/ main # "up" \/ exitStatus = 1

=============================================================================

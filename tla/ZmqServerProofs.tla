-------------------------- MODULE ZmqServerProofs --------------------------
(***************************************************************************)
(* Proofs about ZmqServer, for any set of clients.  The pipe ends and the  *)
(* objects are each given up exactly once whatever fails; and when neither *)
(* the endpoint nor the start-up time fails, the thread never outlives     *)
(* what it refers to.                                                      *)
(***************************************************************************)
EXTENDS ZmqServer, TLAPS

(***************************************************************************)
(* Type correctness.                                                       *)
(***************************************************************************)

\* The steps that only move on, and the way to the thread's clean-up.
LEMMA MovesType ==
  ASSUME TypeOK
  PROVE  /\ \A from, to \in MainSteps : MainMoves(from, to) => TypeOK'
         /\ \A from, to \in ThrSteps : ThrMoves(from, to) => TypeOK'
         /\ \A from \in ThrSteps, status \in 0..1 :
              GoesToClose(from, status) => TypeOK'
<1>1. ASSUME NEW from \in MainSteps, NEW to \in MainSteps, MainMoves(from, to)
      PROVE  TypeOK'
  BY Zenon, <1>1 DEF TypeOK, MainMoves, MainGoes
<1>2. ASSUME NEW from \in ThrSteps, NEW to \in ThrSteps, ThrMoves(from, to)
      PROVE  TypeOK'
  BY Zenon, <1>2 DEF TypeOK, ThrMoves, ThrGoes, mainVars
<1>3. ASSUME NEW from \in ThrSteps, NEW status \in 0..1, GoesToClose(from, status)
      PROVE  TypeOK'
  BY Zenon, <1>3 DEF TypeOK, GoesToClose, ThrGoes, mainVars, ThrSteps
<1> QED BY Zenon, <1>1, <1>2, <1>3

\* close_fd leaves every end in one of its states.
LEMMA CloseType ==
  ASSUME TypeOK, NEW S, close_fd(S)
  PROVE  fd' \in [Fds -> {"none", "open", "closed", "closed_twice"}]
BY Zenon DEF TypeOK, close_fd

\* Every step of either thread keeps the variables in their types.
LEMMA TypeStep == TypeOK /\ [Next]_vars => TypeOK'
<1> SUFFICES ASSUME TypeOK, [Next]_vars PROVE TypeOK'
  BY Zenon
<1>m. MainSteps = {"calloc", "pipe2", "pthread_create", "wait", "up", "join",
                   "close", "free", "unwind", "unwind_free", "release",
                   "stopped", "failed", "exited"}
  BY Zenon DEF MainSteps
<1>t. ThrSteps = {"none", "begin", "init_zmq", "send_ready", "check_quit",
                  "poll", "recv", "handle", "send", "close_zmq", "close_quit",
                  "close_ready", "end", "gone"}
  BY Zenon DEF ThrSteps
<1>1. CASE MainStep
  <2> USE <1>m DEF MainGoes
  <2>1. CASE StartCalloc
    <3>1. CASE MainMoves("calloc", "release")
      BY Zenon, <3>1, MovesType
    <3>2. CASE ~MainMoves("calloc", "release")
      BY Zenon, <2>1, <3>2 DEF StartCalloc, TypeOK
    <3> QED BY Zenon, <3>1, <3>2
  <2>2. CASE StartPipes
    BY <2>2 DEF StartPipes, TypeOK, Fds
  <2>3. CASE StartThread
    <3>1. CASE MainMoves("pthread_create", "unwind")
      BY Zenon, <3>1, MovesType
    <3>2. CASE ~MainMoves("pthread_create", "unwind")
      BY ZenonT(30), <2>3, <3>2, <1>t DEF StartThread, TypeOK, ThreadFds, Fds
    <3> QED BY Zenon, <3>1, <3>2
  <2>4. CASE wait_for_thread_ready
    <3>1. CASE MainMoves("wait", "unwind")
      BY Zenon, <3>1, MovesType
    <3>2. CASE ~MainMoves("wait", "unwind")
      BY <2>4, <3>2 DEF wait_for_thread_ready, TypeOK
    <3> QED BY Zenon, <3>1, <3>2
  <2>5. CASE UnwindClose \/ StopClose
    <3>1. fd' \in [Fds -> {"none", "open", "closed", "closed_twice"}]
      BY Zenon, <2>5, CloseType DEF UnwindClose, StopClose
    <3> QED BY Zenon, <2>5, <3>1 DEF UnwindClose, StopClose, TypeOK
  <2>6. CASE UnwindFree
    BY Zenon, <2>6 DEF UnwindFree, TypeOK
  <2>7. CASE UnwindRelease
    BY Zenon, <2>7 DEF UnwindRelease, zmq_service_release, TypeOK
  <2>8. CASE StopFree
    BY Zenon, <2>8 DEF StopFree, zmq_service_release, TypeOK
  <2>9. CASE StopSend
    <3>1. CASE MainMoves("up", "close")
      BY Zenon, <3>1, MovesType
    <3>2. CASE ~MainMoves("up", "close")
      BY <2>9, <3>2 DEF StopSend, TypeOK
    <3> QED BY Zenon, <3>1, <3>2
  <2>10. CASE Exit
    BY Zenon, <2>10, MovesType DEF Exit
  <2>11. CASE StopJoin
    BY Zenon, <2>11, MovesType DEF StopJoin
  <2> QED BY Zenon, <1>1, <2>1, <2>2, <2>3, <2>4, <2>5, <2>6, <2>7, <2>8, <2>9,
             <2>10, <2>11 DEF MainStep
<1>2. CASE ThrStep
  <2> USE <1>t
  <2>1. CASE \E from, to \in ThrSteps : ThrMoves(from, to)
    BY Zenon, <2>1, MovesType
  <2>2. CASE \E from \in ThrSteps, status \in 0..1 : GoesToClose(from, status)
    BY Zenon, <2>2, MovesType
  <2>3. CASE ThrGoes("send_ready", "check_quit") /\ SendReady
    BY <2>3 DEF SendReady, GoesToClose, ThrGoes, mainVars, TypeOK
  <2>4. CASE \E c \in Clients : ReceiveFrom(c)
    BY Zenon, <2>4 DEF ReceiveFrom, ThrGoes, mainVars, TypeOK
  <2>5. CASE ThrGoes("send", "check_quit") /\ Send
    BY Zenon, <2>5 DEF Send, GoesToClose, ThrGoes, mainVars, TypeOK
  <2>6. CASE CloseQuit \/ CloseReady
    <3>1. fd' \in [Fds -> {"none", "open", "closed", "closed_twice"}]
      BY Zenon, <2>6, CloseType DEF CloseQuit, CloseReady, CloseThreadFd
    <3> QED BY Zenon, <2>6, <3>1 DEF CloseQuit, CloseReady, CloseThreadFd, ThrGoes,
               mainVars, TypeOK
  <2>7. 0 \in 0..1 /\ 1 \in 0..1
    OBVIOUS
  <2>8. ThreadBegin \/ Handle \/ CloseZmq \/ ThreadEnd =>
          \E from, to \in ThrSteps : ThrMoves(from, to)
    BY Zenon DEF ThreadBegin, Handle, CloseZmq, ThreadEnd
  <2>9. init_zmq \/ CheckQuit \/ Poll \/ Receive =>
          \/ \E from, to \in ThrSteps : ThrMoves(from, to)
          \/ \E from \in ThrSteps, status \in 0..1 : GoesToClose(from, status)
          \/ \E c \in Clients : ReceiveFrom(c)
    BY Zenon, <2>7 DEF init_zmq, CheckQuit, Poll, PollIn, Receive
  <2>10. SendReady \/ Send =>
          \/ ThrGoes("send_ready", "check_quit") /\ SendReady
          \/ ThrGoes("send", "check_quit") /\ Send
          \/ \E from \in ThrSteps, status \in 0..1 : GoesToClose(from, status)
    BY Zenon, <2>7 DEF SendReady, Send
  <2> QED BY Zenon, <1>2, <2>1, <2>2, <2>3, <2>4, <2>5, <2>6, <2>8, <2>9, <2>10
          DEF ThrStep
<1>3. CASE \E c \in Clients : ClientSend(c)
  BY Zenon, <1>3 DEF ClientSend, TypeOK
<1>4. CASE UNCHANGED vars
  BY Zenon, <1>4 DEF vars, TypeOK
<1> QED BY Zenon, <1>1, <1>2, <1>3, <1>4 DEF Next

\* The variables of the two threads and of the clients keep their types.
THEOREM ZmqTypeCorrect == Spec => []TypeOK
<1>1. Init => TypeOK
    BY DEF Init, TypeOK, MainSteps, ThrSteps, Fds
<1> QED BY <1>1, TypeStep, PTL DEF Spec

(***************************************************************************)
(* Ownership.  An end is open exactly while one of the threads has it in a *)
(* variable; where each thread is says which ends it can still have; and   *)
(* the service and the server are held until the last step that frees them.*)
(***************************************************************************)

OwnInv ==
    /\ mainOwns \cap thrOwns = {}
    /\ thrOwns \subseteq ThreadFds
    /\ \A f \in Fds : fd[f] = "open" <=> f \in mainOwns \cup thrOwns
    /\ \A f \in Fds : fd[f] # "closed_twice"
    /\ main \in {"calloc", "pipe2"} => mainOwns = {}
    /\ main \in {"calloc", "pipe2", "pthread_create"} => thr = "none"
    /\ main = "pthread_create" => mainOwns = Fds
    /\ main = "wait" => mainOwns = {"ready", "send_quit"} /\ thr # "none"
    /\ main \in {"free", "unwind_free", "release", "stopped", "failed",
                 "exited"} => mainOwns = {}
    /\ thr \in {"none", "end", "gone"} => thrOwns = {}
    /\ thr \in {"begin", "init_zmq", "send_ready"} => thrOwns = ThreadFds
    /\ thr = "close_ready" => thrOwns \subseteq {"send_ready"}

HeldInv ==
    /\ service = IF main \in {"stopped", "failed", "exited"}
                 THEN "freed" ELSE "held"
    /\ server = "held" <=>
           main \notin {"calloc", "release", "stopped", "failed", "exited"}

\* In its loop and up to its clean-up the thread keeps its ends.
LoopSteps == {"check_quit", "poll", "recv", "handle", "send", "close_zmq",
              "close_quit"}

\* A step between two of them keeps each end with its owner.
LEMMA LoopOwn ==
  ASSUME OwnInv, NEW from, from # "none", NEW to \in LoopSteps,
         ThrGoes(from, to), UNCHANGED <<fd, thrOwns>>
  PROVE  OwnInv'
BY Zenon DEF OwnInv, ThrGoes, mainVars, LoopSteps

\* Every step keeps each open end with one owner.
LEMMA OwnStep == TypeOK /\ OwnInv /\ [Next]_vars => OwnInv'
<1> SUFFICES ASSUME TypeOK, OwnInv, [Next]_vars PROVE OwnInv'
  BY Zenon
<1>f. fd \in [Fds -> {"none", "open", "closed", "closed_twice"}] /\ mainOwns \subseteq Fds
  BY Zenon DEF TypeOK
<1>1. CASE MainStep
  <2> USE DEF OwnInv, Fds, ThreadFds, MainGoes, MainMoves
  <2>1. CASE StartCalloc
    BY ZenonT(30), <2>1 DEF StartCalloc
  <2>2. CASE StartPipes
    BY <2>2 DEF StartPipes
  <2>3. CASE StartThread
    BY ZenonT(30), <2>3 DEF StartThread
  <2>4. CASE wait_for_thread_ready
    BY ZenonT(30), <2>4 DEF wait_for_thread_ready
  <2>5. CASE UnwindClose
    BY Zenon, <2>5 DEF UnwindClose, close_fd
  <2>6. CASE UnwindFree
    BY Zenon, <2>6 DEF UnwindFree
  <2>7. CASE UnwindRelease
    BY Zenon, <2>7 DEF UnwindRelease
  <2>8. CASE Exit
    BY Zenon, <2>8 DEF Exit
  <2>9. CASE StopSend
    BY ZenonT(30), <2>9 DEF StopSend
  <2>10. CASE StopJoin
    BY Zenon, <2>10 DEF StopJoin
  <2>11. CASE StopClose
    BY Zenon, <2>11 DEF StopClose, close_fd
  <2>12. CASE StopFree
    BY Zenon, <2>12 DEF StopFree
  <2> QED BY Zenon, <1>1, <2>1, <2>2, <2>3, <2>4, <2>5, <2>6, <2>7, <2>8, <2>9,
             <2>10, <2>11, <2>12 DEF MainStep
<1>2. CASE ThrStep
  <2>1. CASE \E from, to : /\ from # "none" /\ to \in LoopSteps
                           /\ ThrGoes(from, to) /\ UNCHANGED <<fd, thrOwns>>
    BY Zenon, <2>1, LoopOwn
  <2>2. CASE ThrMoves("begin", "init_zmq") \/ ThrMoves("init_zmq", "send_ready")
    BY Zenon, <2>2 DEF ThrMoves, ThrGoes, mainVars, OwnInv
  <2>3. CASE CloseQuit
    BY ZenonT(30), <2>3 DEF CloseQuit, CloseThreadFd, close_fd, ThrGoes, mainVars,
        OwnInv, Fds, ThreadFds
  <2>4. CASE CloseReady
    BY Zenon, <2>4 DEF CloseReady, CloseThreadFd, close_fd, ThrGoes, mainVars,
        OwnInv, Fds, ThreadFds
  <2>5. CASE ThreadEnd
    BY Zenon, <2>5 DEF ThreadEnd, ThrMoves, ThrGoes, mainVars, OwnInv
  <2>6. \A from, to : ThrMoves(from, to) =>
          ThrGoes(from, to) /\ UNCHANGED <<fd, thrOwns>>
    BY Zenon DEF ThrMoves
  <2>7. \A from, status : GoesToClose(from, status) =>
          ThrGoes(from, "close_zmq") /\ UNCHANGED <<fd, thrOwns>>
    BY Zenon DEF GoesToClose
  <2>8. CASE init_zmq
    BY Zenon, <2>1, <2>2, <2>7, <2>8 DEF init_zmq, LoopSteps
  <2>9. CASE SendReady
    BY Zenon, <2>1, <2>7, <2>9 DEF SendReady, LoopSteps
  <2>10. CASE CheckQuit
    BY Zenon, <2>1, <2>6, <2>7, <2>10 DEF CheckQuit, LoopSteps
  <2>11. CASE Poll
    BY Zenon, <2>1, <2>6, <2>7, <2>11 DEF Poll, PollIn, LoopSteps
  <2>12. CASE Receive
    BY Zenon, <2>1, <2>6, <2>7, <2>12 DEF Receive, ReceiveFrom, LoopSteps
  <2>13. CASE Send
    BY Zenon, <2>1, <2>7, <2>13 DEF Send, LoopSteps
  <2>14. CASE Handle \/ CloseZmq
    BY Zenon, <2>1, <2>6, <2>14 DEF Handle, CloseZmq, LoopSteps
  <2> QED BY Zenon, <1>2, <2>2, <2>3, <2>4, <2>5, <2>8, <2>9, <2>10, <2>11, <2>12,
             <2>13, <2>14 DEF ThrStep, ThreadBegin
<1>3. CASE UNCHANGED <<main, thr, fd, mainOwns, thrOwns>>
  BY Zenon, <1>3 DEF OwnInv
<1>4. (\E c \in Clients : ClientSend(c)) \/ UNCHANGED vars =>
        UNCHANGED <<main, thr, fd, mainOwns, thrOwns>>
  BY Zenon DEF ClientSend, vars
<1> QED BY Zenon, <1>1, <1>2, <1>3, <1>4 DEF Next

\* Only the main thread frees, and only on its way out.
LEMMA HeldStep == HeldInv /\ [Next]_vars => HeldInv'
<1> SUFFICES ASSUME HeldInv, [Next]_vars PROVE HeldInv'
  BY Zenon
<1>1. CASE MainStep
  <2> USE DEF HeldInv, MainGoes, MainMoves, zmq_service_release
  <2>1. CASE StartCalloc \/ StartThread
    BY Zenon, <2>1 DEF StartCalloc, StartThread
  <2>6. CASE StartPipes
    BY Zenon, <2>6 DEF StartPipes
  <2>2. CASE wait_for_thread_ready
    BY Zenon, <2>2 DEF wait_for_thread_ready
  <2>3. CASE UnwindClose \/ UnwindFree \/ UnwindRelease
    BY Zenon, <2>3 DEF UnwindClose, UnwindFree, UnwindRelease
  <2>4. CASE Exit \/ StopSend \/ StopJoin \/ StopClose
    BY Zenon, <2>4 DEF Exit, StopSend, StopJoin, StopClose
  <2>5. CASE StopFree
    BY Zenon, <2>5 DEF StopFree
  <2> QED BY Zenon, <1>1, <2>1, <2>2, <2>3, <2>4, <2>5, <2>6 DEF MainStep
<1>2. CASE UNCHANGED mainVars
  BY Zenon, <1>2 DEF HeldInv, mainVars
<1>3. ThrStep => UNCHANGED mainVars
  <2>1. \A from, to : ThrGoes(from, to) => UNCHANGED mainVars
    BY Zenon DEF ThrGoes
  <2>2. ThrStep => \E from, to : ThrGoes(from, to)
    BY Zenon DEF ThrStep, ThreadBegin, init_zmq, SendReady, CheckQuit, Poll,
        PollIn, Receive, ReceiveFrom, Handle, Send, CloseZmq, CloseQuit, CloseReady,
        CloseThreadFd, ThreadEnd, GoesToClose, ThrMoves
  <2> QED BY Zenon, <2>1, <2>2
<1>4. (\E c \in Clients : ClientSend(c)) \/ UNCHANGED vars =>
        UNCHANGED mainVars
  BY Zenon DEF ClientSend, vars, mainVars
<1> QED BY Zenon, <1>1, <1>2, <1>3, <1>4 DEF Next

\* The invariants hold before the server is started.
LEMMA OwnInit == Init => TypeOK /\ OwnInv /\ HeldInv
    BY DEF Init, TypeOK, OwnInv, HeldInv, MainSteps, ThrSteps, Fds, ThreadFds

\* Whatever fails while a server starts, serves or stops, no pipe end is
\* closed twice and none is left open once both threads are done with it.
THEOREM ZmqFdsClosedOnce == Spec => []FdsClosedOnce
<1>1. OwnInv => FdsClosedOnce
    BY Zenon DEF OwnInv, FdsClosedOnce
<1> QED BY <1>1, OwnInit, TypeStep, OwnStep, PTL DEF Spec

\* Whatever fails, the service is released once by the function that ends
\* the server's life, and no server is left behind.
THEOREM ZmqReleasedOnce == Spec => []ReleasedOnce
<1>1. HeldInv => ReleasedOnce
    BY Zenon DEF HeldInv, ReleasedOnce
<1> QED BY <1>1, OwnInit, TypeStep, HeldStep, PTL DEF Spec

(***************************************************************************)
(* Lifetime.  When the endpoint can be bound, the thread reports in time   *)
(* and the pipes can be written, main cannot give up on a started thread:  *)
(* while main waits, the ready event is either still to be sent or already *)
(* in the pipe.                                                            *)
(***************************************************************************)

ThreadKept == Faults \cap {"bind", "slow", "write"} = {}

LifeInv ==
  /\ main = "wait" /\ thr \notin {"begin", "init_zmq", "send_ready"} =>
       readyByte = 1
  /\ main \in {"unwind", "unwind_free", "release", "failed"} => thr = "none"
  /\ main \in {"close", "free", "stopped"} => thr = "gone"

\* Every step keeps the objects as long as the thread.
LEMMA LifeStep ==
  ASSUME ThreadKept, TypeOK, OwnInv, LifeInv, [Next]_vars
  PROVE  LifeInv'
<1>0. "bind" \notin Faults /\ "slow" \notin Faults /\ "write" \notin Faults
  BY Zenon DEF ThreadKept
<1>1. CASE MainStep
  <2> USE DEF LifeInv, MainGoes, MainMoves
  <2>1. CASE wait_for_thread_ready
    <3>1. readyByte = 0 /\ main = "wait" => fd["send_ready"] = "open"
      BY DEF OwnInv, Fds, ThreadFds
    <3> QED BY Zenon, <1>0, <2>1, <3>1 DEF wait_for_thread_ready
  <2>2. CASE StartCalloc \/ StartPipes
    BY Zenon, <2>2 DEF OwnInv, StartCalloc, StartPipes
  <2>3. CASE StartThread
    BY Zenon, <2>3 DEF OwnInv, StartThread
  <2>4. CASE UnwindClose \/ UnwindFree \/ UnwindRelease
    BY Zenon, <2>4 DEF UnwindClose, UnwindFree, UnwindRelease
  <2>5. CASE Exit \/ StopClose \/ StopFree
    BY Zenon, <2>5 DEF Exit, StopClose, StopFree
  <2>6. CASE StopSend \/ StopJoin
    BY Zenon, <1>0, <2>6 DEF StopSend, StopJoin
  <2> QED BY Zenon, <1>1, <2>1, <2>2, <2>3, <2>4, <2>5, <2>6 DEF MainStep
<1>2. CASE ThrStep
  <2>1. ASSUME NEW from, NEW to, from \notin {"none", "gone"},
               from \in {"begin", "init_zmq", "send_ready"} =>
                 to \in {"begin", "init_zmq", "send_ready"},
               ThrGoes(from, to), readyByte' = readyByte
        PROVE  LifeInv'
    BY Zenon, <2>1 DEF LifeInv, ThrGoes, mainVars
  <2>2. CASE SendReady
    <3>1. main = "wait" => fd["ready"] = "open"
      BY Zenon DEF OwnInv, Fds
    <3> QED BY Zenon, <1>0, <2>2, <3>1 DEF SendReady, LifeInv, ThrGoes, mainVars
  <2>3. \A from, to : ThrMoves(from, to) =>
          ThrGoes(from, to) /\ readyByte' = readyByte
    BY Zenon DEF ThrMoves
  <2>4. \A from, status : GoesToClose(from, status) =>
          ThrGoes(from, "close_zmq") /\ readyByte' = readyByte
    BY Zenon DEF GoesToClose
  <2>5. CASE ThreadBegin \/ init_zmq
    BY Zenon, <1>0, <2>1, <2>3, <2>5 DEF ThreadBegin, init_zmq
  <2>6. CASE CheckQuit \/ Poll
    BY Zenon, <2>1, <2>3, <2>4, <2>6 DEF CheckQuit, Poll, PollIn
  <2>7. CASE Receive \/ Send
    BY Zenon, <2>1, <2>3, <2>4, <2>7 DEF Receive, ReceiveFrom, Send
  <2>8. CASE Handle \/ CloseZmq \/ ThreadEnd
    BY Zenon, <2>1, <2>3, <2>8 DEF Handle, CloseZmq, ThreadEnd
  <2>9. CASE CloseQuit \/ CloseReady
    BY Zenon, <2>1, <2>9 DEF CloseQuit, CloseReady, CloseThreadFd
  <2> QED BY Zenon, <1>2, <2>2, <2>5, <2>6, <2>7, <2>8, <2>9 DEF ThrStep
<1>3. CASE UNCHANGED <<main, thr, readyByte>>
  BY Zenon, <1>3 DEF LifeInv
<1>4. (\E c \in Clients : ClientSend(c)) \/ UNCHANGED vars =>
        UNCHANGED <<main, thr, readyByte>>
  BY Zenon DEF ClientSend, vars
<1> QED BY Zenon, <1>1, <1>2, <1>3, <1>4 DEF Next

\* When init_zmq succeeds, the thread reports within two seconds and the
\* events can be sent, the service and the server outlive the thread, however
\* the thread ends.
THEOREM ZmqFreedUnreferenced ==
  ASSUME ThreadKept
  PROVE  Spec => []FreedUnreferenced
<1>1. Init => LifeInv
  BY Zenon DEF Init, LifeInv
<1>2. OwnInv /\ HeldInv /\ LifeInv => FreedUnreferenced
  BY Zenon DEF OwnInv, HeldInv, LifeInv, FreedUnreferenced, ReleasedAtLastReference,
      ThreadRefers
<1>3. TypeOK /\ OwnInv /\ LifeInv /\ [Next]_vars => LifeInv'
  BY Zenon, LifeStep
<1> QED BY <1>1, <1>2, <1>3, OwnInit, TypeStep, OwnStep, HeldStep, PTL DEF Spec

=============================================================================

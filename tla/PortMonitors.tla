---------------------------- MODULE PortMonitors ----------------------------
(***************************************************************************)
(* The two threads that can take the place of the port control service:    *)
(* the monitor of the Open vSwitch database (ovsdb_mon.c), which reads the *)
(* rows that an ovsdb-client process writes into a pipe, and the monitor   *)
(* of a command file (file_mon.c).  main runs one of them and stops it.    *)
(* The database, its server and the client process are external.  Adding   *)
(* and removing a VF is one step (Relay has the details); netdevs have VFs *)
(* of different numbers, so a netdev stands for its relay too.             *)
(***************************************************************************)
EXTENDS Integers, Sequences, FiniteSets, Functions

CONSTANTS
  Netdevs,   \* the netdevs of the VFs
  Minus,     \* those whose external_ids may have the value -1
  MaxPipe,   \* bound: rows in the pipe
  Faults     \* what may fail: "lookup" (get_VF_PCIE_from_netdev), "vf" (add or remove),
             \* "pid" (the client's PID file), "select", "open" (the command file)

ASSUME MonitorAssumption == IsFiniteSet(Netdevs) /\ MaxPipe \in Nat /\ MaxPipe >= 2

\* external_ids of a row: without a virtio_forwarder or virtio_relay key, with
\* one, or with the value -1.
Configs == {"off", "on", "neg"}

VARIABLES
  kind,      \* "ovsdb" or "file" (use_ipc)
  db,        \* the Interface table
  server,    \* the database server: running, its socket in the file system
  client,    \* ovsdb-client: "none", "up", "eof" (ended, pipe still open),
             \* "waited" (pclose has closed the pipe and waits for it to end)
  pipe,      \* the rows it has written
  file,      \* /tmp/vio_cmd: NoFile, Empty or a command
  writer,    \* who writes the command: "idle", or "open" while the file is open
  thr,       \* the thread: label, ovsdb_conn_down, ovsdbclient_pid # 0,
             \* virtio_id_change # -1, command read
  must_stop,
  stop,      \* main: "run", "asked", "joined"
  attached,  \* the netdevs whose VF is attached to its relay
  missed     \* history: netdevs of which a change was not seen or not carried out

vars == <<kind, db, server, client, pipe, file, writer, thr, must_stop, stop, attached, missed>>
Ovsdb == <<db, server, client, pipe>>
File == <<file, writer>>
Main == <<must_stop, stop>>

\* What parse_map makes of external_ids: virtio_enabled, and virtio_id is not -1.
enabled(config) == config \in {"on", "neg"}
not_minus_one(config) == config # "neg"

-----------------------------------------------------------------------------
(* The database and the client process *)

Row(action, d, config) == [action |-> action, dev |-> d, config |-> config]

ConfigsOf(d) == {"absent", "off", "on"} \cup (IF d \in Minus THEN {"neg"} ELSE {})

\* The netdevs with rows in the pipe.
Waiting == {pipe[k].dev : k \in DOMAIN pipe}

\* The rows for a change from x to y.
Rows(d, x, y) ==
  CASE x = "absent" -> <<Row("insert", d, y)>>
    [] y = "absent" -> <<Row("delete", d, x)>>
    [] OTHER -> <<Row("old", d, x), Row("new", d, y)>>

\* What a new client may report: a row for each row of the table, in any order.
Reported == {Row("initial", d, db[d]) : d \in {e \in Netdevs : db[e] # "absent"}}

Reports == UNION {Bijection(1 .. n, Reported) : n \in 0 .. Cardinality(Netdevs)}

\* A row is inserted, modified or deleted.  Without a client nobody sees it; a
\* client that starts later reports only what is there then.
Change(d) ==
  /\ server.up
  /\ \E y \in ConfigsOf(d) \ {db[d]} :
       /\ db' = [db EXCEPT ![d] = y]
       /\ IF client = "up"
            THEN /\ Len(pipe \o Rows(d, db[d], y)) <= MaxPipe
                 /\ pipe' = pipe \o Rows(d, db[d], y)
                 /\ missed' = missed \cup {e \in {d} : db[d] = "neg" /\ y = "off"}
            ELSE /\ UNCHANGED pipe
                 /\ missed' = missed \cup {e \in (attached \cup Waiting) \cap {d} : ~enabled(y)}
  /\ UNCHANGED <<kind, server, client, File, thr, Main, attached>>

\* What is left of a client that ends.
Ended == CASE client = "up" -> "eof" [] client = "waited" -> "none" [] OTHER -> client

\* The client ends while the server goes on: somebody kills it, such as the
\* clean_old of another forwarder, or it writes to a pipe that was closed.
ClientEnds ==
  /\ client \in {"up", "waited"} /\ client' = Ended
  /\ UNCHANGED <<kind, db, server, pipe, File, thr, Main, attached, missed>>

\* The server stops and removes its socket, or dies and leaves it.  Its client
\* ends; what is in the pipe can still be read.
ServerEnds ==
  /\ server.up
  /\ \E sock \in BOOLEAN : server' = [up |-> FALSE, sock |-> sock]
  /\ client' = Ended
  /\ UNCHANGED <<kind, db, pipe, File, thr, Main, attached, missed>>

ServerStarts ==
  /\ ~server.up /\ server' = [up |-> TRUE, sock |-> TRUE]
  /\ UNCHANGED <<kind, db, client, pipe, File, thr, Main, attached, missed>>

-----------------------------------------------------------------------------
(* The thread of ovsdb_mon.c *)

Goto(pc) == thr' = [thr EXCEPT !.pc = pc]

\* Both threads clear must_stop when they begin.
threadmain_start ==
  /\ thr.pc = "created" /\ Goto("loop") /\ must_stop' = FALSE
  /\ UNCHANGED <<kind, Ovsdb, File, stop, attached, missed>>

\* pclose returns when the client has ended, which need not happen.
PcloseReturns == client # "waited"

\* The head of the outer loop; a thread told to stop kills its client.  As long
\* as no PID was read it is 0: the process group, with the daemon.
ovsdb_loop ==
  /\ kind = "ovsdb" /\ thr.pc = "loop" /\ PcloseReturns
  /\ \/ /\ must_stop /\ Goto(IF thr.pid THEN "ended" ELSE "killed")
        /\ client' = "none" /\ pipe' = <<>>
     \/ ~must_stop /\ Goto(IF thr.down THEN "connect" ELSE "check") /\ UNCHANGED <<client, pipe>>
  /\ UNCHANGED <<kind, db, server, File, Main, attached, missed>>

\* The inner loop tries to start a client every 5 s and does not look at
\* must_stop.  The client reports the rows there are, in any order.  If its PID
\* file cannot be read the thread waits for the client to end.
setup_ovsdb_mon ==
  /\ thr.pc = "connect" /\ PcloseReturns /\ server.up /\ server.sock
  /\ \/ /\ pipe' \in Reports /\ client' = "up"
        /\ thr' = [thr EXCEPT !.pc = "check", !.down = FALSE, !.pid = TRUE]
     \/ "pid" \in Faults /\ client' = "waited" /\ UNCHANGED <<pipe, thr>>
  /\ UNCHANGED <<kind, db, server, File, Main, attached, missed>>

\* Mutant of ovsdb_down: the thread goes on as if the connection were up.
ovsdb_down_up ==
  /\ thr.pc = "check" /\ ~server.sock /\ client # "up"
  /\ Goto("loop") /\ client' = "none" /\ pipe' = <<>>
  /\ missed' = missed \cup Waiting
  /\ UNCHANGED <<kind, db, server, File, Main, attached>>

\* Mutant of ovsdb_down: the thread ends.
ovsdb_down_end ==
  /\ thr.pc = "check" /\ ~server.sock /\ client # "up"
  /\ Goto("ended") /\ client' = "none" /\ pipe' = <<>>
  /\ missed' = missed \cup Waiting
  /\ UNCHANGED <<kind, db, server, File, Main, attached>>

\* check_ovsdb_sock fails: pclose waits for the client to end, and what is in
\* the pipe is lost.
ovsdb_down ==
  /\ thr.pc = "check" /\ ~server.sock /\ client # "up"
  /\ thr' = [thr EXCEPT !.pc = "loop", !.down = TRUE]
  /\ client' = "none" /\ pipe' = <<>>
  /\ missed' = missed \cup Waiting
  /\ UNCHANGED <<kind, db, server, File, Main, attached>>

\* select fails: the pipe is closed with what is in it, and the thread waits
\* for the client to end.
ovsdb_select_fails ==
  /\ thr.pc = "check" /\ server.sock /\ "select" \in Faults
  /\ thr' = [thr EXCEPT !.pc = "loop", !.down = TRUE]
  /\ client' = IF client = "up" THEN "waited" ELSE "none"
  /\ pipe' = <<>> /\ missed' = missed \cup Waiting
  /\ UNCHANGED <<kind, db, server, File, Main, attached>>

\* select: nothing for 100 ms, or something to read (the end of file too).
ovsdb_select ==
  /\ thr.pc = "check" /\ server.sock
  /\ IF pipe = <<>> /\ client = "up" THEN Goto("loop")
     ELSE thr' = [thr EXCEPT !.pc = "read", !.change = FALSE]
  /\ UNCHANGED <<kind, Ovsdb, File, Main, attached, missed>>

\* What a call of add_vf or remove_vf may return: TRUE stands for success.
Results == IF "vf" \in Faults THEN BOOLEAN ELSE {TRUE}

Added(d, ok, A) == IF ok THEN A \cup {d} ELSE A
Removed(d, ok, A) == IF ok THEN A \ {d} ELSE A

\* get_VF_PCIE_from_netdev finds no VF for the netdev.
LookupFails(d) ==
  "lookup" \in Faults /\ missed' = missed \cup {d} /\ UNCHANGED <<thr, attached>>

add_netdev(d) ==
  \/ LookupFails(d)
  \/ \E ok \in Results :
       /\ attached' = Added(d, ok, attached)
       /\ missed' = IF ok THEN missed ELSE missed \cup {d}
       /\ UNCHANGED thr

remove_netdev(d) ==
  \/ LookupFails(d)
  \/ \E ok \in Results :
       /\ attached' = Removed(d, ok, attached)
       /\ missed' = IF ok THEN missed ELSE missed \cup {d}
       /\ UNCHANGED thr

\* Mutant of modify_netdev: the VF is only added, never removed.
modify_netdev_add(d, config) ==
  \/ LookupFails(d)
  \/ \E ok \in Results :
       /\ attached' = IF enabled(config) THEN Added(d, ok, attached) ELSE attached
       /\ missed' = IF enabled(config) /\ ~ok THEN missed \cup {d} ELSE missed
       /\ thr' = [thr EXCEPT !.change = FALSE]

\* The second row of a modification: the VF is removed if the first row said
\* so, and added if this one says so, whether or not the removal succeeded.
modify_netdev(d, config) ==
  \/ LookupFails(d)
  \/ \E ok1, ok2 \in Results :
       LET A == IF thr.change THEN Removed(d, ok1, attached) ELSE attached IN
         /\ attached' = IF enabled(config) THEN Added(d, ok2, A) ELSE A
         /\ missed' = IF (thr.change /\ ~ok1) \/ (enabled(config) /\ ~ok2)
                        THEN missed \cup {d} ELSE missed
         /\ thr' = [thr EXCEPT !.change = FALSE]

process_external_ids(row) ==
  \/ /\ row.action \in {"initial", "insert"} /\ enabled(row.config)
     /\ add_netdev(row.dev)
  \/ /\ row.action = "delete" /\ enabled(row.config)
     /\ remove_netdev(row.dev)
  \/ /\ row.action = "old"
     /\ thr' = [thr EXCEPT !.change = enabled(row.config) /\ not_minus_one(row.config)]
     /\ UNCHANGED <<attached, missed>>
  \/ row.action = "new" /\ modify_netdev(row.dev, row.config)
  \/ /\ row.action \in {"initial", "insert", "delete"} /\ ~enabled(row.config)
     /\ UNCHANGED <<thr, attached, missed>>

\* parse_ovsdb_client blocks in read until the client has ended.
parse_ovsdb_client ==
  /\ thr.pc = "read"
  /\ \/ /\ pipe # <<>> /\ process_external_ids(Head(pipe))
        /\ pipe' = Tail(pipe)
     \/ /\ pipe = <<>> /\ client = "eof" /\ Goto("loop")
        /\ UNCHANGED <<pipe, attached, missed>>
  /\ UNCHANGED <<kind, db, server, client, File, Main>>

-----------------------------------------------------------------------------
(* The thread of file_mon.c, and whoever writes the commands *)

Commands == [op : {"add", "del"}, dev : Netdevs]
NoFile == [op |-> "none"]
Empty == [op |-> "empty"]

\* A shell creates the file and writes the command when it finds no file.  A
\* file that was removed meanwhile takes the command with it.
WriteCommand ==
  /\ kind = "file"
  /\ \/ writer = "idle" /\ file = NoFile /\ writer' = "open" /\ file' = Empty
     \/ /\ writer = "open" /\ writer' = "idle"
        /\ \E c \in Commands : file' = IF file = NoFile THEN NoFile ELSE c
  /\ UNCHANGED <<kind, Ovsdb, thr, Main, attached, missed>>

\* Mutant of file_loop: scans without a look whether there is a file.
file_loop_blind ==
  /\ kind = "file" /\ thr.pc = "loop"
  /\ IF must_stop THEN Goto("ended") ELSE Goto("scan")
  /\ UNCHANGED <<kind, Ovsdb, File, Main, attached, missed>>

\* stat finds the file; one that cannot be opened is removed unread.
file_loop ==
  /\ kind = "file" /\ thr.pc = "loop"
  /\ \/ must_stop /\ Goto("ended") /\ UNCHANGED missed
     \/ ~must_stop /\ file = NoFile /\ UNCHANGED <<thr, missed>>
     \/ ~must_stop /\ file # NoFile /\ Goto("scan") /\ UNCHANGED missed
     \/ /\ ~must_stop /\ file # NoFile /\ "open" \in Faults /\ Goto("unlink")
        /\ missed' = missed \cup {d \in Netdevs : file # Empty /\ file.dev = d}
  /\ UNCHANGED <<kind, Ovsdb, File, Main, attached>>

\* scan_file reads once ...
scan_file ==
  /\ thr.pc = "scan" /\ thr' = [thr EXCEPT !.pc = "obey", !.cmd = file]
  /\ UNCHANGED <<kind, Ovsdb, File, Main, attached, missed>>

\* Mutant of scan_file_obey: takes every command for add_port.
scan_file_obey_add ==
  /\ thr.pc = "obey" /\ Goto("unlink")
  /\ attached' = IF thr.cmd = Empty THEN attached ELSE attached \cup {thr.cmd.dev}
  /\ UNCHANGED <<kind, Ovsdb, File, Main, missed>>

\* ... and an empty file is no command.
scan_file_obey ==
  /\ thr.pc = "obey" /\ Goto("unlink")
  /\ IF thr.cmd = Empty THEN UNCHANGED <<attached, missed>>
     ELSE LET d == thr.cmd.dev IN
          \/ "lookup" \in Faults /\ missed' = missed \cup {d} /\ UNCHANGED attached
          \/ \E ok \in Results :
               /\ attached' = IF thr.cmd.op = "add" THEN Added(d, ok, attached)
                                                    ELSE Removed(d, ok, attached)
               /\ missed' = IF ok THEN missed ELSE missed \cup {d}
  /\ UNCHANGED <<kind, Ovsdb, File, Main>>

\* The file goes, whatever was written since.
file_unlink ==
  /\ thr.pc = "unlink" /\ thr' = [thr EXCEPT !.pc = "loop", !.cmd = Empty]
  /\ file' = NoFile
  /\ UNCHANGED <<kind, Ovsdb, writer, Main, attached, missed>>

-----------------------------------------------------------------------------
(* main stops the thread: ovsdb_mon_stop, file_mon_stop *)

mon_stop ==
  /\ stop = "run" /\ stop' = "asked" /\ must_stop' = TRUE
  /\ UNCHANGED <<kind, Ovsdb, File, thr, attached, missed>>

\* Mutant of mon_stop_cancel: waits for the thread, however long it takes.
mon_stop_cancel_never ==
  /\ stop = "asked" /\ thr.pc = "ended" /\ stop' = "joined"
  /\ UNCHANGED <<kind, Ovsdb, File, thr, must_stop, attached, missed>>

\* After two seconds the thread is cancelled, wherever it is; a client that it
\* has started goes on.
mon_stop_cancel ==
  /\ stop = "asked" /\ thr.pc \notin {"ended", "killed"} /\ Goto("cancelled") /\ stop' = "joined"
  /\ UNCHANGED <<kind, Ovsdb, File, must_stop, attached, missed>>

mon_stop_join ==
  /\ stop = "asked" /\ thr.pc = "ended" /\ stop' = "joined"
  /\ UNCHANGED <<kind, Ovsdb, File, thr, must_stop, attached, missed>>

Init ==
  /\ kind \in {"ovsdb", "file"}
  /\ db = [d \in Netdevs |-> "absent"]
  /\ server = [up |-> TRUE, sock |-> TRUE] /\ client = "none" /\ pipe = <<>>
  /\ file = NoFile /\ writer = "idle"
  /\ thr = [pc |-> "created", down |-> TRUE, pid |-> FALSE, change |-> FALSE, cmd |-> Empty]
  /\ must_stop = FALSE /\ stop = "run"
  /\ attached = {} /\ missed = {}

OvsdbThread ==
  \/ ovsdb_loop \/ setup_ovsdb_mon \/ ovsdb_down \/ ovsdb_select_fails \/ ovsdb_select
  \/ parse_ovsdb_client

FileThread == file_loop \/ scan_file \/ scan_file_obey \/ file_unlink

Stopping == mon_stop \/ mon_stop_cancel \/ mon_stop_join

\* Nothing is of interest once the thread was joined or the daemon killed; ports
\* do not change while it is being stopped (a bound on the states: what it
\* misses then is lost).
Environment ==
  /\ stop # "joined" /\ thr.pc # "killed"
  /\ \/ kind = "ovsdb" /\ (ServerEnds \/ ServerStarts \/ ClientEnds)
     \/ kind = "ovsdb" /\ stop = "run" /\ \E d \in Netdevs : Change(d)
     \/ WriteCommand

Next == threadmain_start \/ OvsdbThread \/ FileThread \/ Stopping \/ Environment

Spec == Init /\ [][Next]_vars

\* The thread runs, and main when it waits for it.  The two seconds of the
\* timed wait may pass at any time.
FairSpec ==
  /\ Spec
  /\ WF_vars(threadmain_start \/ OvsdbThread \/ FileThread)
  /\ WF_vars(mon_stop_cancel \/ mon_stop_join)

-----------------------------------------------------------------------------
(* Properties *)

\* The type invariant.
TypeOK ==
  /\ kind \in {"ovsdb", "file"} /\ db \in [Netdevs -> Configs \cup {"absent"}]
  /\ server \in [up : BOOLEAN, sock : BOOLEAN] /\ client \in {"none", "up", "eof", "waited"}
  /\ \A k \in DOMAIN pipe : pipe[k] \in [action : {"initial", "insert", "delete", "old", "new"},
                                         dev : Netdevs, config : Configs]
  /\ file \in Commands \cup {NoFile, Empty} /\ writer \in {"idle", "open"}
  /\ thr \in [pc : {"created", "loop", "connect", "check", "read", "scan", "obey", "unlink",
                   "ended", "cancelled", "killed"},
              down : BOOLEAN, pid : BOOLEAN, change : BOOLEAN, cmd : Commands \cup {Empty}]
  /\ must_stop \in BOOLEAN /\ stop \in {"run", "asked", "joined"}
  /\ attached \subseteq Netdevs /\ missed \subseteq Netdevs

\* When the monitor has read all that its client wrote, the VFs attached are
\* those of the ports with a virtio_forwarder key, through any sequence of
\* insertions, modifications, deletions and new connections, but for netdevs of
\* which a change could not be seen or carried out.
InSync ==
  thr.pc = "read" /\ client = "up" /\ pipe = <<>> =>
    \A d \in Netdevs \ missed : d \in attached <=> enabled(db[d])

\* The client is there when the thread believes the connection to be up, and
\* only then: no second client is started and none is waited for in vain.
ClientOfThread ==
  thr.pc \in {"loop", "connect", "check", "read"} => (thr.down <=> client \in {"none", "waited"})

\* If the server is up from some time on, the monitor has a client of it again
\* and again, whatever had failed before: one that it reads from, or one whose
\* end it waits for because the PID file or select has failed.  The exceptions
\* are a stop, and a client that ended while the socket stayed in the file
\* system: then the monitor never looks for another one.
MonitorReturns ==
  [](kind = "ovsdb") /\ <>[](server.up /\ stop = "run")
    => []<>(client \in {"up", "waited"}) \/ <>[](client = "eof" /\ server.sock)

\* A command that is in the file before the monitor opens it is obeyed, unless
\* main stops the monitor, the file cannot be opened or the VF cannot be added
\* or removed.  (What is written after the read, or before the unlink of a file
\* that could not be opened, is lost.)
CommandObeyed ==
  \A c \in Commands :
    (file = c /\ thr.pc \in {"loop", "scan"})
      ~> \/ stop # "run" \/ c.dev \in missed
         \/ (c.dev \in attached <=> c.op = "add")

\* A stop ends, even one that is asked before the thread has begun and has
\* cleared must_stop, or while it looks for a server that never comes or waits
\* for a client; the thread kills the daemon only if it has never read the PID
\* of a client.
MonitorStops ==
  stop = "asked" ~> stop = "joined" \/ (thr.pc = "killed" /\ kind = "ovsdb" /\ ~thr.pid)
=============================================================================

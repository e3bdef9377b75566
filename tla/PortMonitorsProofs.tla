------------------------- MODULE PortMonitorsProofs -------------------------
(***************************************************************************)
(* Proofs about PortMonitors for any netdevs, bound of the pipe and        *)
(* faults: the thread's view of its connection agrees with its client      *)
(* process, and what it has attached with the database it has read.        *)
(***************************************************************************)
EXTENDS PortMonitors, TLAPS

ThreadStruct ==
  [pc : {"created", "loop", "connect", "check", "read", "scan", "obey", "unlink", "ended",
         "cancelled", "killed"},
   down : BOOLEAN, pid : BOOLEAN, change : BOOLEAN, cmd : Commands \cup {Empty}]

\* Where the thread can be for each kind of monitor, and at which labels it
\* believes the connection to be up; the file monitor never has a client.
ClientInv ==
  /\ client \in {"none", "up", "eof", "waited"} /\ file \in Commands \cup {NoFile, Empty}
  /\ thr \in ThreadStruct
  /\ thr.pc = "scan" => file # NoFile
  /\ thr.pc = "created" => thr.down /\ client = "none"
  /\ thr.pc \in {"connect", "check", "read"} => kind = "ovsdb"
  /\ thr.pc = "connect" => thr.down
  /\ thr.pc \in {"check", "read"} => ~thr.down
  /\ thr.pc \in {"scan", "obey", "unlink"} => kind = "file"
  /\ kind = "file" => thr.down /\ client = "none"
  /\ ClientOfThread

\* A jump changes the label only.
LEMMA JumpFields ==
  ASSUME thr \in ThreadStruct, NEW l \in {"loop", "connect", "check", "read", "scan", "obey", "unlink",
                                         "ended", "cancelled", "killed"}, Goto(l)
  PROVE  thr' \in ThreadStruct /\ thr'.pc = l /\ thr'.down = thr.down
BY ZenonT(30) DEF ThreadStruct, Goto

\* A row changes neither the label nor the connection.
LEMMA RowFields ==
  ASSUME thr \in ThreadStruct, NEW row, process_external_ids(row)
  PROVE  thr' \in ThreadStruct /\ thr'.pc = thr.pc /\ thr'.down = thr.down
<1>1. CASE UNCHANGED thr
  BY ZenonT(30), <1>1
<1>2. CASE \E c \in BOOLEAN : thr' = [thr EXCEPT !.change = c]
  BY Zenon, <1>2 DEF ThreadStruct
<1>3. (enabled(row.config) /\ not_minus_one(row.config)) \in BOOLEAN
  BY ZenonT(30)
<1> QED BY ZenonT(30), <1>1, <1>2, <1>3 DEF process_external_ids, add_netdev, remove_netdev, modify_netdev, LookupFails

\* The steps of the thread of ovsdb_mon.c.
LEMMA OvsdbClient ==
  ASSUME ClientInv, OvsdbThread \/ threadmain_start
  PROVE  ClientInv'
<1> USE DEF ClientInv, ClientOfThread
<1>1. CASE threadmain_start
  <2>1. thr' \in ThreadStruct /\ thr'.pc = "loop" /\ thr'.down = thr.down
    BY Zenon, <1>1, JumpFields DEF threadmain_start
  <2> QED BY ZenonT(30), <1>1, <2>1 DEF threadmain_start, Ovsdb, File
<1>2. CASE ovsdb_loop
  <2>1. /\ thr' \in ThreadStruct /\ thr'.down = thr.down
        /\ \/ thr'.pc \in {"killed", "ended"} /\ client' = "none"
           \/ thr'.pc = (IF thr.down THEN "connect" ELSE "check") /\ client' = client
    BY Zenon, <1>2, JumpFields DEF ovsdb_loop
  <2> QED BY ZenonT(30), <1>2, <2>1 DEF ovsdb_loop, File
<1>3. CASE setup_ovsdb_mon
  <2>1. \/ thr' \in ThreadStruct /\ thr'.pc = "check" /\ thr'.down = FALSE /\ client' = "up"
        \/ thr' = thr /\ client' = "waited"
    BY ZenonT(30), <1>3 DEF setup_ovsdb_mon, ThreadStruct
  <2> QED BY ZenonT(30), <1>3, <2>1 DEF setup_ovsdb_mon, File
<1>4. CASE ovsdb_down
  <2>1. thr' \in ThreadStruct /\ thr'.pc = "loop" /\ thr'.down = TRUE
    BY ZenonT(30), <1>4 DEF ovsdb_down, ThreadStruct
  <2> QED BY ZenonT(30), <1>4, <2>1 DEF ovsdb_down, File
<1>7. CASE ovsdb_select_fails
  <2>1. /\ thr' \in ThreadStruct /\ thr'.pc = "loop" /\ thr'.down = TRUE
        /\ client' \in {"none", "waited"}
    BY ZenonT(30), <1>7 DEF ovsdb_select_fails, ThreadStruct
  <2> QED BY ZenonT(30), <1>7, <2>1 DEF ovsdb_select_fails, File
<1>5. CASE ovsdb_select
  <2>1. thr' \in ThreadStruct /\ thr'.pc \in {"loop", "read"} /\ thr'.down = thr.down
    BY ZenonT(30), <1>5, JumpFields DEF ovsdb_select, ThreadStruct
  <2> QED BY ZenonT(30), <1>5, <2>1 DEF ovsdb_select, Ovsdb, File
<1>6. CASE parse_ovsdb_client
  <2>1. thr' \in ThreadStruct /\ thr'.pc \in {"loop", "read"} /\ thr'.down = thr.down
    BY Zenon, <1>6, JumpFields, RowFields DEF parse_ovsdb_client
  <2> QED BY ZenonT(30), <1>6, <2>1 DEF parse_ovsdb_client, File
<1> QED BY ZenonT(30), <1>1, <1>2, <1>3, <1>4, <1>5, <1>6, <1>7 DEF OvsdbThread

\* The steps of the thread of file_mon.c, of main, and of everybody else.
LEMMA OtherClient ==
  ASSUME ClientInv, FileThread \/ Stopping \/ Environment
  PROVE  ClientInv'
<1> USE DEF ClientInv, ClientOfThread
<1>1. CASE file_loop
  <2>1. /\ thr' \in ThreadStruct /\ thr'.pc \in {"loop", "scan", "unlink", "ended"} /\ thr'.down = thr.down
        /\ thr'.pc = "scan" => file # NoFile
    BY ZenonT(30), <1>1, JumpFields DEF file_loop
  <2> QED BY Zenon, <1>1, <2>1 DEF file_loop, Ovsdb, File
<1>2. CASE scan_file
  <2>1. thr' \in ThreadStruct /\ thr'.pc = "obey" /\ thr'.down = thr.down
    BY ZenonT(30), <1>2 DEF scan_file, ThreadStruct
  <2> QED BY ZenonT(30), <1>2, <2>1 DEF scan_file, Ovsdb, File
<1>3. CASE scan_file_obey
  <2>1. thr' \in ThreadStruct /\ thr'.pc = "unlink" /\ thr'.down = thr.down
    BY ZenonT(30), <1>3, JumpFields DEF scan_file_obey
  <2> QED BY Zenon, <1>3, <2>1 DEF scan_file_obey, Ovsdb, File
<1>4. CASE file_unlink
  <2>1. thr' \in ThreadStruct /\ thr'.pc = "loop" /\ thr'.down = thr.down
    BY ZenonT(30), <1>4 DEF file_unlink, ThreadStruct
  <2> QED BY ZenonT(30), <1>4, <2>1 DEF file_unlink, Ovsdb
<1>5. CASE Stopping
  <2>1. /\ thr' = thr \/ (thr' \in ThreadStruct /\ thr'.pc = "cancelled" /\ thr'.down = thr.down)
        /\ UNCHANGED <<kind, client, file>>
    BY ZenonT(30), <1>5, JumpFields DEF Stopping, mon_stop, mon_stop_cancel, mon_stop_join, Ovsdb, File
  <2> QED BY Zenon, <2>1
<1>6. CASE Environment
  <2>1. CASE kind = "ovsdb" /\ (ServerEnds \/ ServerStarts \/ ClientEnds)
    <3>1. /\ UNCHANGED <<kind, thr, file>>
          /\ \/ client' = client
             \/ client = "up" /\ client' = "eof"
             \/ client = "waited" /\ client' = "none"
      BY ZenonT(30), <2>1 DEF ServerEnds, ServerStarts, ClientEnds, Ended, File
    <3> QED BY ZenonT(30), <2>1, <3>1
  <2>2. CASE \E d \in Netdevs : Change(d)
    <3>1. UNCHANGED <<kind, thr, file, client>>
      BY ZenonT(30), <2>2 DEF Change, File
    <3> QED BY Zenon, <3>1
  <2>3. CASE WriteCommand
    <3>1. UNCHANGED <<kind, thr, client>> /\ file' \in Commands \cup {NoFile, Empty}
      BY ZenonT(30), <2>3 DEF WriteCommand, Ovsdb
    <3>2. \A c \in Commands \cup {Empty} : c # NoFile
      BY DEF Commands, Empty, NoFile
    <3>3. file # NoFile => file' # NoFile
      BY ZenonT(30), <2>3, <3>2 DEF WriteCommand
    <3> QED BY ZenonT(30), <3>1, <3>3
  <2> QED BY Zenon, <1>6, <2>1, <2>2, <2>3 DEF Environment
<1> QED BY ZenonT(30), <1>1, <1>2, <1>3, <1>4, <1>5, <1>6 DEF FileThread

\* Every step keeps what the thread knows of its client.
LEMMA ClientAlways == Spec => []ClientInv
<1>1. Init => ClientInv
  BY DEF Init, ClientInv, ClientOfThread, ThreadStruct
<1>2. ClientInv /\ [Next]_vars => ClientInv'
  <2> SUFFICES ASSUME ClientInv, [Next]_vars PROVE ClientInv'
    BY Zenon
  <2>1. CASE UNCHANGED vars
    BY ZenonT(30), <2>1 DEF vars, ClientInv, ClientOfThread
  <2>2. CASE Next
    BY Zenon, <2>2, OvsdbClient, OtherClient DEF Next
  <2> QED BY ZenonT(30), <2>1, <2>2
<1> QED BY <1>1, <1>2, PTL DEF Spec

\* No second client is started and none is waited for in vain, through any
\* sequence of server restarts, killed clients and stops.
THEOREM ClientOfThreadAlways == Spec => []ClientOfThread
<1>1. ClientInv => ClientOfThread
  BY Zenon DEF ClientInv
<1> QED BY <1>1, ClientAlways, PTL

-----------------------------------------------------------------------------
(* The types *)

RowStruct == [action : {"initial", "insert", "delete", "old", "new"}, dev : Netdevs, config : Configs]

\* The tables the database can hold.
Tables == [Netdevs -> Configs \cup {"absent"}]

\* The rest of the type invariant, with the pipe as a sequence.
DataTypes ==
  /\ kind \in {"ovsdb", "file"} /\ db \in Tables
  /\ server \in [up : BOOLEAN, sock : BOOLEAN] /\ pipe \in Seq(RowStruct)
  /\ writer \in {"idle", "open"} /\ must_stop \in BOOLEAN /\ stop \in {"run", "asked", "joined"}
  /\ attached \subseteq Netdevs /\ missed \subseteq Netdevs

\* The rows for a change of the table.
LEMMA RowsType ==
  ASSUME NEW d \in Netdevs, NEW x \in Configs \cup {"absent"}, NEW y \in Configs \cup {"absent"}, x # y
  PROVE  Rows(d, x, y) \in Seq(RowStruct)
<1>1. \A a \in {"insert", "delete", "old", "new"}, c \in Configs : Row(a, d, c) \in RowStruct
  BY Zenon DEF Row, RowStruct
<1>2. CASE x = "absent"
  BY <1>1, <1>2 DEF Rows
<1>3. CASE x # "absent" /\ y = "absent"
  BY <1>1, <1>3 DEF Rows
<1>4. CASE x # "absent" /\ y # "absent"
  BY <1>1, <1>4 DEF Rows
<1> QED BY ZenonT(30), <1>2, <1>3, <1>4

\* Each order has every one of them once.
LEMMA ReportedRows ==
  ASSUME DataTypes, NEW p \in Reports
  PROVE  /\ p \in Seq(RowStruct)
         /\ \A k \in 1..Len(p) : /\ p[k].action = "initial" /\ db[p[k].dev] # "absent"
                                 /\ p[k].config = db[p[k].dev]
         /\ \A j, k \in 1..Len(p) : j # k => p[j].dev # p[k].dev
         /\ \A d \in Netdevs : db[d] # "absent" => \E k \in 1..Len(p) : p[k].dev = d
<1>0. PICK n \in 0 .. Cardinality(Netdevs) : p \in Bijection(1 .. n, Reported)
  BY Zenon DEF Reports
<1>1. n \in Nat
  BY <1>0
<1>5. p \in [1..n -> Reported] /\ \A i, j \in 1..n : i # j => p[i] # p[j]
  BY Zenon, <1>0 DEF Bijection, Injection, IsInjective
<1>8. p \in Surjection(1..n, Reported)
  BY Zenon, <1>0 DEF Bijection
<1>9. Reported \subseteq RowStruct
  BY DEF Reported, Row, RowStruct, DataTypes, Tables
<1>10. p \in Seq(RowStruct) /\ Len(p) = n
  BY <1>1, <1>5, <1>9
<1>11. \A x \in Reported : /\ x.action = "initial" /\ db[x.dev] # "absent" /\ x.config = db[x.dev]
                           /\ x = Row("initial", x.dev, db[x.dev])
  BY DEF Reported, Row
<1>12. \A k \in 1..n : p[k] \in Reported
  BY Zenon, <1>5
<1>13. \A j, k \in 1..n : j # k => p[j].dev # p[k].dev
  BY <1>5, <1>11, <1>12
<1>14. ASSUME NEW d \in Netdevs, db[d] # "absent" PROVE \E k \in 1..n : p[k].dev = d
  <2>1. Row("initial", d, db[d]) \in Reported /\ Row("initial", d, db[d]).dev = d
    BY ZenonT(30), <1>14 DEF Reported, Row
  <2> QED BY ZenonT(30), <1>8, <2>1 DEF Surjection
<1> QED BY ZenonT(30), <1>10, <1>11, <1>12, <1>13, <1>14

\* A row leaves only netdevs attached or missed.
LEMMA RowNetdevs ==
  ASSUME attached \subseteq Netdevs, missed \subseteq Netdevs, NEW row \in RowStruct,
         process_external_ids(row)
  PROVE  attached' \subseteq Netdevs /\ missed' \subseteq Netdevs
<1>1. row.dev \in Netdevs
  BY ZenonT(30) DEF RowStruct
<1>2. \A A \in SUBSET Netdevs, ok \in BOOLEAN :
        Added(row.dev, ok, A) \subseteq Netdevs /\ Removed(row.dev, ok, A) \subseteq Netdevs
  BY ZenonT(30), <1>1 DEF Added, Removed
<1>3. Results \subseteq BOOLEAN
  BY ZenonT(30) DEF Results
<1>4. CASE add_netdev(row.dev) \/ remove_netdev(row.dev)
  BY ZenonT(30), <1>1, <1>2, <1>3, <1>4 DEF add_netdev, remove_netdev, LookupFails
<1>5. CASE modify_netdev(row.dev, row.config)
  BY ZenonT(30), <1>1, <1>2, <1>3, <1>5 DEF modify_netdev, LookupFails
<1>6. CASE UNCHANGED <<attached, missed>>
  BY Zenon, <1>6
<1> QED BY Zenon, <1>4, <1>5, <1>6 DEF process_external_ids

\* Every step keeps these types.
LEMMA DataStep ==
  ASSUME ClientInv, DataTypes, Next
  PROVE  DataTypes'
<1> USE DEF DataTypes
<1>1. CASE threadmain_start \/ Stopping
  BY ZenonT(30), <1>1 DEF threadmain_start, Stopping, mon_stop, mon_stop_cancel, mon_stop_join, Ovsdb, File
<1>2. CASE FileThread
  <2>1. CASE scan_file \/ file_unlink
    BY ZenonT(30), <2>1 DEF scan_file, file_unlink, Ovsdb, File, Main
  <2>3. CASE file_loop
    <3>1. missed' \subseteq Netdevs
      BY Zenon, <2>3 DEF file_loop
    <3> QED BY ZenonT(30), <2>3, <3>1 DEF file_loop, Ovsdb, File, Main
  <2>2. CASE scan_file_obey
    <3>1. thr.cmd # Empty => thr.cmd.dev \in Netdevs
      BY Zenon DEF ClientInv, ThreadStruct, Commands
    <3>2. attached' \subseteq Netdevs /\ missed' \subseteq Netdevs
      BY Zenon, <2>2, <3>1 DEF scan_file_obey, Added, Removed
    <3> QED BY ZenonT(30), <2>2, <3>2 DEF scan_file_obey, Ovsdb, File, Main
  <2> QED BY ZenonT(30), <1>2, <2>1, <2>2, <2>3 DEF FileThread
<1>3. CASE OvsdbThread
  <2>1. CASE ovsdb_loop \/ ovsdb_select
    <3>1. pipe' = pipe \/ pipe' = <<>>
      BY ZenonT(30), <2>1 DEF ovsdb_loop, ovsdb_select, Ovsdb
    <3>2. pipe' \in Seq(RowStruct)
      <4>1. <<>> \in Seq(RowStruct)
        OBVIOUS
      <4> QED BY Zenon, <3>1, <4>1
    <3> QED BY ZenonT(30), <2>1, <3>2 DEF ovsdb_loop, ovsdb_select, Ovsdb, File, Main
  <2>2. CASE setup_ovsdb_mon
    <3>1. pipe' \in Reports \/ pipe' = pipe
      BY ZenonT(30), <2>2 DEF setup_ovsdb_mon
    <3>2. pipe' \in Seq(RowStruct)
      BY ZenonT(30), <3>1, ReportedRows
    <3> QED BY ZenonT(30), <2>2, <3>2 DEF setup_ovsdb_mon, File, Main
  <2>3. CASE ovsdb_down \/ ovsdb_select_fails
    <3>1. Waiting \subseteq Netdevs
      <4>1. \A k \in DOMAIN pipe : pipe[k] \in RowStruct
        OBVIOUS
      <4> QED BY <4>1 DEF Waiting, RowStruct
    <3>2. pipe' \in Seq(RowStruct)
      <4>1. <<>> \in Seq(RowStruct)
        OBVIOUS
      <4> QED BY Zenon, <2>3, <4>1 DEF ovsdb_down, ovsdb_select_fails
    <3>3. missed' \subseteq Netdevs
      BY Zenon, <2>3, <3>1 DEF ovsdb_down, ovsdb_select_fails
    <3> QED BY Zenon, <2>3, <3>2, <3>3 DEF ovsdb_down, ovsdb_select_fails, File, Main
  <2>4. CASE parse_ovsdb_client
    <3>1. CASE pipe # <<>> /\ process_external_ids(Head(pipe)) /\ pipe' = Tail(pipe)
      <4>1. Head(pipe) \in RowStruct /\ pipe' \in Seq(RowStruct)
        BY <3>1
      <4> QED BY SMTT(30), <2>4, <3>1, <4>1, RowNetdevs DEF parse_ovsdb_client, File, Main
    <3>2. CASE UNCHANGED <<pipe, attached, missed>>
      BY SMTT(30), <2>4, <3>2 DEF parse_ovsdb_client, File, Main
    <3> QED BY ZenonT(30), <2>4, <3>1, <3>2 DEF parse_ovsdb_client
  <2> QED BY ZenonT(30), <1>3, <2>1, <2>2, <2>3, <2>4 DEF OvsdbThread
<1>4. CASE Environment
  <2>1. CASE ServerEnds \/ ServerStarts \/ ClientEnds \/ WriteCommand
    <3>1. server' \in [up : BOOLEAN, sock : BOOLEAN]
      <4>1. \A up, sock \in BOOLEAN : [up |-> up, sock |-> sock] \in [up : BOOLEAN, sock : BOOLEAN]
        BY ZenonT(30)
      <4> QED BY Zenon, <2>1, <4>1 DEF ServerEnds, ServerStarts, ClientEnds, WriteCommand, Ovsdb
    <3>2. UNCHANGED <<kind, db, pipe, must_stop, stop, attached, missed>> /\ writer' \in {"idle", "open"}
      BY Zenon, <2>1 DEF ServerEnds, ServerStarts, ClientEnds, WriteCommand, Ovsdb, File, Main
    <3> QED BY <3>1, <3>2
  <2>2. ASSUME NEW d \in Netdevs, Change(d) PROVE DataTypes'
    <3>1. PICK y \in ConfigsOf(d) \ {db[d]} :
            /\ db' = [db EXCEPT ![d] = y]
            /\ pipe' = pipe \o Rows(d, db[d], y) \/ pipe' = pipe
      BY ZenonT(30), <2>2 DEF Change
    <3>2. y \in Configs \cup {"absent"} /\ db[d] \in Configs \cup {"absent"}
      BY ZenonT(30) DEF ConfigsOf, Configs, Tables
    <3>3. db' \in Tables
      BY Zenon, <3>1, <3>2 DEF Tables
    <3>4. pipe' \in Seq(RowStruct)
      <4>1. Rows(d, db[d], y) \in Seq(RowStruct)
        BY Zenon, ZenonT(30), <3>2, RowsType
      <4>2. pipe \o Rows(d, db[d], y) \in Seq(RowStruct)
        BY <4>1
      <4> QED BY ZenonT(30), <3>1, <4>2
    <3>5. missed' \subseteq Netdevs
      BY Zenon, <2>2 DEF Change
    <3> QED BY ZenonT(30), <2>2, <3>3, <3>4, <3>5 DEF Change, File, Main
  <2> QED BY ZenonT(30), <1>4, <2>1, <2>2 DEF Environment
<1> QED BY SMTT(30), <1>1, <1>2, <1>3, <1>4 DEF Next

\* They hold always.
LEMMA DataAlways == Spec => [](ClientInv /\ DataTypes)
<1>1. Init => DataTypes
  <2>1. <<>> \in Seq(RowStruct)
    OBVIOUS
  <2>2. Init => /\ kind \in {"ovsdb", "file"} /\ db \in Tables /\ pipe = <<>>
                /\ server \in [up : BOOLEAN, sock : BOOLEAN] /\ must_stop = FALSE
    BY DEF Init, Tables
  <2> QED BY Zenon, <2>1, <2>2 DEF Init, DataTypes
<1>2. ClientInv /\ DataTypes /\ [Next]_vars => DataTypes'
  <2>1. DataTypes /\ UNCHANGED vars => DataTypes'
    BY Zenon DEF vars, DataTypes
  <2> QED BY Zenon, <2>1, DataStep
<1> QED BY <1>1, <1>2, ClientAlways, PTL DEF Spec

\* Every variable of the monitors keeps its type; so the file monitor never
\* reads a file that is not there.
THEOREM TypeCorrect == Spec => []TypeOK
<1>1. ClientInv /\ DataTypes => TypeOK
  <2> SUFFICES ASSUME ClientInv, DataTypes PROVE TypeOK
    BY Zenon, Zenon
  <2>1. \A k \in DOMAIN pipe : pipe[k] \in RowStruct
    BY DEF DataTypes
  <2> QED BY Zenon, <2>1 DEF ClientInv, DataTypes, ThreadStruct, RowStruct, Tables, TypeOK
<1> QED BY <1>1, DataAlways, PTL

-----------------------------------------------------------------------------
(* What is attached and what is in the database *)

\* The table y that row says the table x became; "old" only tells what it was.
RowStep(x, row, y) ==
  /\ row.action \in {"initial", "old"} => y = x /\ x[row.dev] = row.config
  /\ row.action = "insert" => x[row.dev] = "absent" /\ y = [x EXCEPT ![row.dev] = row.config]
  /\ row.action = "delete" => x[row.dev] = row.config /\ y = [x EXCEPT ![row.dev] = "absent"]
  /\ row.action = "new" => y = [x EXCEPT ![row.dev] = row.config]

\* h is the history of the table that the rows p tell: h[k] is the table before
\* the row k.  Between two rows of a netdev its configuration stays; the rows
\* of a new client come first, one for a netdev, and "new" comes after "old".
Follows(p, h) ==
  /\ h \in [1..(Len(p) + 1) -> Tables]
  /\ \A k \in 1..Len(p) : RowStep(h[k], p[k], h[k + 1])
  /\ \A d \in Netdevs, i, j \in 1..(Len(p) + 1) :
       i <= j /\ (\A k \in i..(j - 1) : p[k].dev # d) => h[i][d] = h[j][d]
  /\ \A j, k \in 1..Len(p) :
       j < k /\ p[k].action = "initial" => p[j].action = "initial" /\ p[j].dev # p[k].dev
  /\ \A k \in 2..Len(p) :
       p[k].action = "new" => p[k - 1].action = "old" /\ p[k - 1].dev = p[k].dev

\* A row changes the table for its netdev only.
LEMMA RowStepTable ==
  ASSUME NEW x \in Tables, NEW row \in RowStruct, NEW y, RowStep(x, row, y)
  PROVE  y \in Tables /\ \A d \in Netdevs : d # row.dev => y[d] = x[d]
BY ZenonT(30) DEF RowStep, RowStruct, Tables, Configs

\* No rows tell nothing.
LEMMA FollowsNothing ==
  ASSUME NEW x \in Tables
  PROVE  Follows(<<>>, [i \in {1} |-> x])
<1>1. Len(<<>>) = 0 /\ 1..(0 + 1) = {1} /\ 1..0 = {} /\ 2..0 = {}
  OBVIOUS
<1> QED BY Zenon, <1>1 DEF Follows

\* The first row is read.
LEMMA FollowsTail ==
  ASSUME NEW p \in Seq(RowStruct), p # <<>>, NEW h, Follows(p, h)
  PROVE  Follows(Tail(p), [i \in 1..Len(p) |-> h[i + 1]])
<1> DEFINE q == Tail(p)
           n == Len(p)
           g == [i \in 1..n |-> h[i + 1]]
<1>1. /\ n \in Nat \ {0} /\ q \in Seq(RowStruct) /\ Len(q) = n - 1
      /\ \A i \in 1..(n - 1) : q[i] = p[i + 1]
  OBVIOUS
<1>2. h \in [1..(n + 1) -> Tables]
  BY Zenon, Zenon DEF Follows
<1>3. g \in [1..(Len(q) + 1) -> Tables] /\ \A i \in 1..n : g[i] = h[i + 1]
  BY SMTT(30), <1>1, <1>2
<1> HIDE DEF q, g
<1>4. ASSUME NEW k \in 1..Len(q) PROVE RowStep(g[k], q[k], g[k + 1])
  <2>1. k \in 1..n /\ k + 1 \in 1..n /\ k \in 1..(n - 1)
    BY <1>1
  <2>2. RowStep(h[k + 1], p[k + 1], h[(k + 1) + 1])
    BY Zenon, <2>1 DEF Follows
  <2>3. g[k] = h[k + 1] /\ q[k] = p[k + 1] /\ g[k + 1] = h[(k + 1) + 1]
    BY Zenon, <1>1, <1>3, <2>1
  <2> QED BY Zenon, <2>2, <2>3
<1>5. ASSUME NEW d \in Netdevs, NEW i \in 1..(Len(q) + 1), NEW j \in 1..(Len(q) + 1), i <= j,
             \A k \in i..(j - 1) : q[k].dev # d
      PROVE  g[i][d] = g[j][d]
  <2>1. ASSUME NEW k \in (i + 1)..((j + 1) - 1) PROVE p[k].dev # d
    <3>1. k - 1 \in i..(j - 1) /\ k - 1 \in 1..(n - 1) /\ (k - 1) + 1 = k
      BY <1>1
    <3> QED BY ZenonT(30), <1>1, <1>5, <3>1
  <2>2. i + 1 \in 1..(n + 1) /\ j + 1 \in 1..(n + 1) /\ i + 1 <= j + 1
    BY <1>1, <1>5
  <2>3. \A a, b \in 1..(n + 1) :
          a <= b /\ (\A k \in a..(b - 1) : p[k].dev # d) => h[a][d] = h[b][d]
    BY Zenon DEF Follows
  <2>4. h[i + 1][d] = h[j + 1][d]
    <3> HIDE DEF n
    <3> QED BY <2>1, <2>2, <2>3, Zenon
  <2> QED BY SMTT(30), <1>1, <1>3, <2>4
<1>6. ASSUME NEW j \in 1..Len(q), NEW k \in 1..Len(q), j < k, q[k].action = "initial"
      PROVE  q[j].action = "initial" /\ q[j].dev # q[k].dev
  <2>1. /\ j + 1 \in 1..n /\ k + 1 \in 1..n /\ j + 1 < k + 1
        /\ q[j] = p[j + 1] /\ q[k] = p[k + 1]
    BY SMTT(30), <1>1, <1>6
  <2> QED BY SMTT(30), <1>6, <2>1 DEF Follows
<1>7. ASSUME NEW k \in 2..Len(q), q[k].action = "new"
      PROVE  q[k - 1].action = "old" /\ q[k - 1].dev = q[k].dev
  <2>1. /\ k + 1 \in 2..n /\ k \in 1..(n - 1) /\ k - 1 \in 1..(n - 1)
        /\ (k + 1) - 1 = k /\ (k - 1) + 1 = k
    BY <1>1
  <2>2. q[k] = p[k + 1] /\ q[k - 1] = p[k]
    BY Zenon, <1>1, <2>1
  <2> QED BY SMTT(30), <1>7, <2>1, <2>2 DEF Follows
<1>8. Follows(q, g)
  BY SMTT(30), <1>3, <1>4, <1>5, <1>6, <1>7 DEF Follows
<1> QED BY Zenon, <1>8 DEF q, g

\* A row is written.
LEMMA FollowsAppend ==
  ASSUME NEW p \in Seq(RowStruct), NEW h, Follows(p, h), NEW row \in RowStruct, NEW y,
         RowStep(h[Len(p) + 1], row, y), row.action # "initial",
         row.action = "new" => /\ Len(p) > 0
                               /\ p[Len(p)].action = "old" /\ p[Len(p)].dev = row.dev
  PROVE  Follows(Append(p, row), [i \in 1..(Len(p) + 2) |-> IF i = Len(p) + 2 THEN y ELSE h[i]])
<1> DEFINE q == Append(p, row)
           n == Len(p)
           g == [i \in 1..(n + 2) |-> IF i = n + 2 THEN y ELSE h[i]]
<1>1. /\ n \in Nat /\ q \in Seq(RowStruct) /\ Len(q) = n + 1
      /\ \A i \in 1..n : q[i] = p[i]
      /\ q[n + 1] = row
  OBVIOUS
<1>2. h \in [1..(n + 1) -> Tables]
  BY Zenon DEF Follows
<1>3. /\ y \in Tables
      /\ \A d \in Netdevs : d # row.dev => y[d] = h[n + 1][d]
  <2>1. h[n + 1] \in Tables
    BY SMTT(30), <1>1, <1>2
  <2> QED BY SMTT(30), <2>1, RowStepTable
<1>4. /\ g \in [1..(Len(q) + 1) -> Tables]
      /\ \A i \in 1..(n + 1) : g[i] = h[i]
      /\ g[n + 2] = y
  BY SMTT(30), <1>1, <1>2, <1>3
<1> HIDE DEF q, g
<1>5. \A k \in 1..Len(q) : RowStep(g[k], q[k], g[k + 1])
  <2>1. \A k \in 1..n : RowStep(h[k], p[k], h[k + 1])
    BY Zenon DEF Follows
  <2>2. ASSUME NEW k \in 1..n PROVE RowStep(g[k], q[k], g[k + 1])
    <3>1. g[k] = h[k] /\ q[k] = p[k] /\ g[k + 1] = h[k + 1]
      BY SMTT(30), <1>1, <1>4
    <3> QED BY SMTT(30), <2>1, <3>1
  <2>3. RowStep(g[n + 1], q[n + 1], g[(n + 1) + 1])
    BY SMTT(30), <1>1, <1>4
  <2> QED BY SMTT(30), <1>1, <2>2, <2>3
<1>6. ASSUME NEW d \in Netdevs, NEW i \in 1..(Len(q) + 1), NEW j \in 1..(Len(q) + 1), i <= j,
             \A k \in i..(j - 1) : q[k].dev # d
      PROVE  g[i][d] = g[j][d]
  <2>1. ASSUME NEW m \in 1..(n + 1), i <= m, m <= j PROVE h[i][d] = h[m][d]
    <3>1. \A k \in i..(m - 1) : p[k].dev # d
      BY SMTT(30), <1>1, <1>6, <2>1
    <3>2. i \in 1..(n + 1)
      BY SMTT(30), <1>1, <2>1
    <3> QED BY SMTT(30), <2>1, <3>1, <3>2 DEF Follows
  <2>2. CASE j <= n + 1
    BY SMTT(30), <1>1, <1>4, <1>6, <2>1, <2>2
  <2>3. CASE j = n + 2 /\ i <= n + 1
    <3>1. q[n + 1].dev # d
      BY SMTT(30), <1>1, <1>6, <2>3
    <3>2. h[i][d] = h[n + 1][d]
      BY SMTT(30), <1>1, <2>1, <2>3
    <3> QED BY SMTT(30), <1>1, <1>3, <1>4, <2>3, <3>1, <3>2
  <2>4. CASE i = n + 2
    BY SMTT(30), <1>1, <1>6, <2>4
  <2> QED BY SMTT(30), <1>1, <2>2, <2>3, <2>4
<1>7. \A j, k \in 1..Len(q) :
        j < k /\ q[k].action = "initial" => q[j].action = "initial" /\ q[j].dev # q[k].dev
  BY SMTT(30), <1>1 DEF Follows
<1>8. \A k \in 2..Len(q) : q[k].action = "new" => q[k - 1].action = "old" /\ q[k - 1].dev = q[k].dev
  BY SMTT(30), <1>1 DEF Follows
<1>9. Follows(q, g)
  BY SMTT(30), <1>4, <1>5, <1>6, <1>7, <1>8 DEF Follows
<1> QED BY Zenon, <1>9 DEF q, g

\* A new client reports the table as it is.
LEMMA FollowsReport ==
  ASSUME DataTypes, NEW p \in Reports
  PROVE  Follows(p, [i \in 1..(Len(p) + 1) |-> db])
<1>1. /\ p \in Seq(RowStruct) /\ Len(p) \in Nat /\ db \in Tables
      /\ \A k \in 1..Len(p) : p[k].action = "initial" /\ p[k].config = db[p[k].dev]
      /\ \A j, k \in 1..Len(p) : j # k => p[j].dev # p[k].dev
  BY ReportedRows DEF DataTypes
<1> QED BY SMTT(30), <1>1 DEF Follows, RowStep

\* The rows p have one that a new client reports of d.
InitialOf(p, d) == \E k \in 1..Len(p) : p[k].action = "initial" /\ p[k].dev = d

\* The netdevs A are attached as the table before the rows p says, but for
\* those in M; what a new client reports adds a netdev and removes none.  The
\* change from -1 to no key is one that does not remove it either.
Carried(p, h, A, M) ==
  /\ \A d \in Netdevs \ M :
       IF InitialOf(p, d) THEN enabled(h[1][d]) \/ d \notin A ELSE d \in A <=> enabled(h[1][d])
  /\ \A k \in 1..Len(p) :
       p[k].action = "new" /\ p[k].dev \notin M => ~(h[k][p[k].dev] = "neg" /\ p[k].config = "off")

\* Between the two rows of a modification the thread remembers the first.
Half(p, h, t) ==
  Len(p) > 0 /\ p[1].action = "new" =>
    /\ t.pc = "read"
    /\ t.change <=> enabled(h[1][p[1].dev]) /\ not_minus_one(h[1][p[1].dev])

\* The rows p lead to the table x as long as the client c is up; a netdev that
\* lost its key later is in M.
LeadsTo(p, h, c, x, M) ==
  IF c = "up" THEN h[Len(p) + 1] = x
  ELSE \A d \in Netdevs \ M : enabled(x[d]) \/ ~enabled(h[Len(p) + 1][d])

Explains(h, p, t, c, x, A, M) ==
  Follows(p, h) /\ Carried(p, h, A, M) /\ Half(p, h, t) /\ LeadsTo(p, h, c, x, M)

\* While the thread of ovsdb_mon.c runs, a history explains what it has attached
\* and what it has yet to read.
Sync ==
  kind = "ovsdb" /\ thr.pc \in {"created", "loop", "connect", "check", "read"} =>
    /\ client \in {"none", "waited"} => pipe = <<>>
    /\ \E h : Explains(h, pipe, thr, client, db, attached, missed)

\* What a row does to its netdev, unless it is missed.
LEMMA RowEffect ==
  ASSUME thr \in ThreadStruct, NEW row \in RowStruct, process_external_ids(row)
  PROVE  /\ missed \subseteq missed'
         /\ \A e : e # row.dev => (e \in attached' <=> e \in attached)
         /\ row.action = "old" =>
              (thr'.change <=> enabled(row.config) /\ not_minus_one(row.config))
         /\ row.dev \notin missed' =>
              (row.dev \in attached' <=>
                 CASE row.action \in {"initial", "insert"} -> enabled(row.config) \/ row.dev \in attached
                   [] row.action = "delete" -> ~enabled(row.config) /\ row.dev \in attached
                   [] row.action = "old" -> row.dev \in attached
                   [] row.action = "new" -> enabled(row.config) \/ (~thr.change /\ row.dev \in attached))
<1>1. Results \subseteq BOOLEAN
  BY ZenonT(30) DEF Results
<1>2. thr.change \in BOOLEAN
  BY ZenonT(30) DEF ThreadStruct
<1>3. CASE row.action \in {"initial", "insert"}
  BY Zenon, ZenonT(30), <1>1, <1>3 DEF process_external_ids, add_netdev, LookupFails, Added
<1>4. CASE row.action = "delete"
  BY <1>1, <1>4 DEF process_external_ids, remove_netdev, LookupFails, Removed
<1>5. CASE row.action = "old"
  <2>1. /\ thr' = [thr EXCEPT !.change = enabled(row.config) /\ not_minus_one(row.config)]
        /\ UNCHANGED <<attached, missed>>
    BY ZenonT(30), <1>5 DEF process_external_ids
  <2>2. thr'.change = (enabled(row.config) /\ not_minus_one(row.config))
    BY ZenonT(30), <2>1 DEF ThreadStruct
  <2> QED BY ZenonT(30), <1>5, <2>1, <2>2
<1>6. CASE row.action = "new"
  <2>1. modify_netdev(row.dev, row.config)
    BY Zenon, <1>6 DEF process_external_ids
  <2> QED BY <1>1, <1>2, <1>6, <2>1 DEF modify_netdev, LookupFails, Added, Removed
<1> QED BY ZenonT(30), <1>3, <1>4, <1>5, <1>6 DEF RowStruct

\* The thread reads a row: the rest of the history explains what it has done.
LEMMA RowExplained ==
  ASSUME ClientInv, thr.pc = "read", NEW p \in Seq(RowStruct), p # <<>>, NEW h, NEW c, NEW x,
         Explains(h, p, thr, c, x, attached, missed), process_external_ids(Head(p))
  PROVE  \E g : Explains(g, Tail(p), thr', c, x, attached', missed')
<1> DEFINE q == Tail(p)
           n == Len(p)
           g == [i \in 1..n |-> h[i + 1]]
           row == Head(p)
<1>1. /\ n \in Nat \ {0} /\ q \in Seq(RowStruct) /\ Len(q) = n - 1
      /\ \A i \in 1..(n - 1) : q[i] = p[i + 1]
      /\ row \in RowStruct /\ row = p[1]
  OBVIOUS
<1>2. h \in [1..(n + 1) -> Tables] /\ Follows(p, h)
  BY Zenon DEF Follows, Explains
<1>3. Follows(q, g)
  BY ZenonT(30), <1>2, FollowsTail
<1>4. \A i \in 1..n : g[i] = h[i + 1]
  BY Zenon
<1>5. /\ row.dev \in Netdevs /\ row.config \in Configs
      /\ row.action \in {"initial", "insert", "delete", "old", "new"}
  BY Zenon, Zenon, <1>1 DEF RowStruct
<1>6. thr \in ThreadStruct /\ thr'.pc = "read" /\ thr.change \in BOOLEAN
  BY RowFields DEF ClientInv, ThreadStruct
<1>7. /\ h[1] \in Tables /\ h[2] \in Tables /\ RowStep(h[1], row, h[2])
      /\ \A d \in Netdevs : d # row.dev => h[2][d] = h[1][d]
  <2>1. 1 \in 1..n /\ 1 \in 1..(n + 1) /\ 2 \in 1..(n + 1) /\ 1 + 1 = 2
    BY <1>1
  <2>2. h[1] \in Tables /\ h[2] \in Tables
    BY Zenon, <1>2, <2>1
  <2>3. RowStep(h[1], p[1], h[2])
    BY Zenon, <1>2, <2>1 DEF Follows
  <2> QED BY SMTT(30), <1>1, <2>2, <2>3, RowStepTable
<1>8. g[1] = h[2]
  BY <1>1
<1>9. \A d : d # row.dev => (InitialOf(p, d) <=> InitialOf(q, d))
  <2>1. ASSUME NEW d, d # row.dev, InitialOf(p, d) PROVE InitialOf(q, d)
    <3>1. PICK k \in 1..n : p[k].action = "initial" /\ p[k].dev = d
      BY SMTT(30), <2>1 DEF InitialOf
    <3>2. k # 1
      BY Zenon, ZenonT(30), <1>1, <2>1, <3>1
    <3>3. k - 1 \in 1..(n - 1) /\ q[k - 1] = p[k]
      BY SMTT(30), <1>1, <3>2
    <3> QED BY ZenonT(30), <1>1, <3>1, <3>3 DEF InitialOf
  <2>2. ASSUME NEW d, InitialOf(q, d) PROVE InitialOf(p, d)
    <3>1. PICK k \in 1..(n - 1) : q[k].action = "initial" /\ q[k].dev = d
      BY Zenon, ZenonT(30), <1>1, <2>2 DEF InitialOf
    <3>2. k + 1 \in 1..n /\ q[k] = p[k + 1]
      BY SMTT(30), <1>1
    <3> QED BY ZenonT(30), <3>1, <3>2 DEF InitialOf
  <2> QED BY ZenonT(30), <2>1, <2>2
<1>10. ~InitialOf(q, row.dev)
  <2>1. \A k \in 1..(n - 1) : /\ 1 \in 1..n /\ k + 1 \in 1..n /\ 1 < k + 1
                            /\ q[k] = p[k + 1]
    BY SMTT(30), <1>1
  <2>2. \A k \in 1..(n - 1) : q[k].action = "initial" => p[1].dev # q[k].dev
    BY SMTT(30), <1>2, <2>1 DEF Follows
  <2> QED BY ZenonT(30), <1>1, <2>2 DEF InitialOf
<1>11. InitialOf(p, row.dev) <=> row.action = "initial"
  <2>1. 1 \in 1..n
    BY SMTT(30), <1>1
  <2>2. ASSUME InitialOf(p, row.dev) PROVE row.action = "initial"
    <3>1. PICK k \in 1..n : p[k].action = "initial" /\ p[k].dev = row.dev
      BY Zenon, ZenonT(30), <2>2 DEF InitialOf
    <3>2. k = 1 \/ 1 < k
      BY SMTT(30), <1>1
    <3> QED BY SMTT(30), <1>1, <1>2, <2>1, <3>1, <3>2 DEF Follows
  <2> QED BY ZenonT(30), <1>1, <2>1, <2>2 DEF InitialOf
<1> HIDE DEF q, g, row
<1>12. \A d \in Netdevs \ missed :
         IF InitialOf(p, d) THEN enabled(h[1][d]) \/ d \notin attached
                            ELSE d \in attached <=> enabled(h[1][d])
  BY Zenon DEF Explains, Carried
<1>13. row.action = "new" =>
         /\ thr.change <=> enabled(h[1][row.dev]) /\ not_minus_one(h[1][row.dev])
         /\ row.dev \notin missed => ~(h[1][row.dev] = "neg" /\ row.config = "off")
  <2>1. 1 \in 1..n /\ n > 0
    BY <1>1
  <2> QED BY ZenonT(30), <1>1, <2>1 DEF Explains, Half, Carried
<1>14. row = Head(p)
  BY Zenon DEF row
<1>15. /\ missed \subseteq missed'
       /\ \A e : e # row.dev => (e \in attached' <=> e \in attached)
       /\ row.action = "old" =>
            (thr'.change <=> enabled(row.config) /\ not_minus_one(row.config))
       /\ row.dev \notin missed' =>
              (row.dev \in attached' <=>
                 CASE row.action \in {"initial", "insert"} -> enabled(row.config) \/ row.dev \in attached
                   [] row.action = "delete" -> ~enabled(row.config) /\ row.dev \in attached
                   [] row.action = "old" -> row.dev \in attached
                   [] row.action = "new" -> enabled(row.config) \/ (~thr.change /\ row.dev \in attached))
  BY ZenonT(30), <1>1, <1>6, <1>14, RowEffect
<1>16. ASSUME row.dev \notin missed' PROVE row.dev \in attached' <=> enabled(h[2][row.dev])
  <2>1. row.dev \notin missed
    BY SMTT(30), <1>15, <1>16
  <2>2. IF row.action = "initial" THEN enabled(h[1][row.dev]) \/ row.dev \notin attached
                                  ELSE row.dev \in attached <=> enabled(h[1][row.dev])
    BY ZenonT(30), <1>5, <1>11, <1>12, <2>1
  <2>3. h[2][row.dev] = CASE row.action \in {"initial", "old"} -> h[1][row.dev]
                          [] row.action \in {"insert", "new"} -> row.config
                          [] row.action = "delete" -> "absent"
    BY ZenonT(30), <1>5, <1>7 DEF RowStep, Tables
  <2>4. CASE row.action = "initial"
    BY ZenonT(30), <1>7, <1>15, <1>16, <2>2, <2>3, <2>4 DEF RowStep
  <2>5. CASE row.action = "insert"
    BY Zenon, <1>7, <1>15, <1>16, <2>2, <2>3, <2>5 DEF RowStep, enabled
  <2>6. CASE row.action = "delete"
    BY ZenonT(30), <1>7, <1>15, <1>16, <2>2, <2>3, <2>6 DEF RowStep, enabled
  <2>7. CASE row.action = "old"
    BY Zenon, <1>15, <1>16, <2>2, <2>3, <2>7
  <2>8. CASE row.action = "new"
    BY SMTT(30), <1>5, <1>6, <1>13, <1>15, <1>16, <2>1, <2>2, <2>3, <2>8 DEF enabled, not_minus_one, Configs
  <2> QED BY Zenon, <1>5, <2>4, <2>5, <2>6, <2>7, <2>8
<1>17. Carried(q, g, attached', missed')
  <2>1. ASSUME NEW d \in Netdevs \ missed'
        PROVE  IF InitialOf(q, d) THEN enabled(g[1][d]) \/ d \notin attached'
                                  ELSE d \in attached' <=> enabled(g[1][d])
    <3>1. CASE d = row.dev
      BY Zenon, <1>8, <1>10, <1>16, <3>1
    <3>2. CASE d # row.dev
      BY SMTT(30), <1>7, <1>8, <1>9, <1>12, <1>15, <3>2
    <3> QED BY ZenonT(30), <3>1, <3>2
  <2>2. ASSUME NEW k \in 1..Len(q), q[k].action = "new", q[k].dev \notin missed'
        PROVE  ~(g[k][q[k].dev] = "neg" /\ q[k].config = "off")
    <3>1. k \in 1..n /\ k + 1 \in 1..n /\ q[k] = p[k + 1] /\ g[k] = h[k + 1]
      BY SMTT(30), <1>1, <1>4
    <3>2. q[k].dev \notin missed
      BY ZenonT(30), <1>15, <2>2
    <3> QED BY SMTT(30), <2>2, <3>1, <3>2 DEF Explains, Carried
  <2> QED BY SMTT(30), <2>1, <2>2 DEF Carried
<1>18. Half(q, g, thr')
  <2> SUFFICES ASSUME Len(q) > 0, q[1].action = "new"
               PROVE  /\ thr'.pc = "read"
                      /\ thr'.change <=> enabled(g[1][q[1].dev]) /\ not_minus_one(g[1][q[1].dev])
    BY Zenon, ZenonT(30) DEF Half
  <2>1. 2 \in 2..n /\ q[1] = p[2] /\ 2 - 1 = 1
    BY SMTT(30), <1>1
  <2>2. p[1].action = "old" /\ p[1].dev = p[2].dev
    BY SMTT(30), <1>2, <2>1 DEF Follows
  <2>3. h[2] = h[1] /\ h[1][row.dev] = row.config
    BY Zenon, <1>1, <1>7, <2>2 DEF RowStep
  <2> QED BY SMTT(30), <1>1, <1>6, <1>8, <1>15, <2>1, <2>2, <2>3
<1>19. LeadsTo(q, g, c, x, missed')
  <2>1. g[Len(q) + 1] = h[n + 1]
    BY SMTT(30), <1>1, <1>4
  <2> QED BY Zenon, <1>15, <2>1 DEF Explains, LeadsTo
<1> QED BY SMTT(30), <1>3, <1>17, <1>18, <1>19 DEF Explains, q, g

\* A row is written that is not of a new client.
LEMMA WrittenExplained ==
  ASSUME NEW p \in Seq(RowStruct), NEW h, NEW t, NEW A, NEW M, NEW N, NEW x, NEW y,
         Explains(h, p, t, "up", x, A, M), M \subseteq N,
         NEW row \in RowStruct, RowStep(x, row, y), row.action # "initial",
         row.action = "new" =>
           /\ Len(p) > 0 /\ p[Len(p)].action = "old" /\ p[Len(p)].dev = row.dev
           /\ row.dev \notin N => ~(x[row.dev] = "neg" /\ row.config = "off")
  PROVE  /\ Append(p, row) \in Seq(RowStruct)
         /\ \E g : Explains(g, Append(p, row), t, "up", y, A, N)
<1> DEFINE q == Append(p, row)
           n == Len(p)
           g == [i \in 1..(n + 2) |-> IF i = n + 2 THEN y ELSE h[i]]
<1>1. /\ n \in Nat /\ q \in Seq(RowStruct) /\ Len(q) = n + 1
      /\ \A i \in 1..n : q[i] = p[i]
      /\ q[n + 1] = row
  OBVIOUS
<1>2. Follows(p, h) /\ h[n + 1] = x
  BY Zenon DEF Explains, LeadsTo
<1>3. Follows(q, g)
  BY Zenon, ZenonT(30), <1>2, FollowsAppend
<1>4. (\A i \in 1..(n + 1) : g[i] = h[i]) /\ g[n + 2] = y
  BY <1>1
<1> HIDE DEF q, g
<1>5. \A d : InitialOf(q, d) <=> InitialOf(p, d)
  BY <1>1 DEF InitialOf
<1>6. Carried(q, g, A, N)
  <2>1. ASSUME NEW d \in Netdevs \ N
        PROVE  IF InitialOf(q, d) THEN enabled(g[1][d]) \/ d \notin A ELSE d \in A <=> enabled(g[1][d])
    <3>1. g[1] = h[1]
      BY SMTT(30), <1>1, <1>4
    <3> QED BY Zenon, <1>5, <3>1 DEF Explains, Carried
  <2>2. ASSUME NEW k \in 1..Len(q), q[k].action = "new", q[k].dev \notin N
        PROVE  ~(g[k][q[k].dev] = "neg" /\ q[k].config = "off")
    <3>1. CASE k = n + 1
      BY Zenon, <1>1, <1>2, <1>4, <2>2, <3>1
    <3>2. CASE k \in 1..n
      <4>1. q[k] = p[k] /\ g[k] = h[k] /\ q[k].dev \notin M
        BY Zenon, <1>1, <1>4, <2>2, <3>2
      <4> QED BY SMTT(30), <2>2, <3>2, <4>1 DEF Explains, Carried
    <3> QED BY SMTT(30), <1>1, <3>1, <3>2
  <2> QED BY Zenon, <2>1, <2>2 DEF Carried
<1>7. Half(q, g, t)
  <2>1. CASE n = 0
    BY SMTT(30), <1>1, <2>1 DEF Half
  <2>2. CASE n > 0
    <3>1. q[1] = p[1] /\ g[1] = h[1]
      BY SMTT(30), <1>1, <1>4, <2>2
    <3> QED BY ZenonT(30), <2>2, <3>1 DEF Explains, Half
  <2> QED BY SMTT(30), <1>1, <2>1, <2>2
<1>8. LeadsTo(q, g, "up", y, N)
  BY SMTT(30), <1>1, <1>4 DEF LeadsTo
<1>9. Explains(g, q, t, "up", y, A, N)
  BY Zenon, <1>3, <1>6, <1>7, <1>8 DEF Explains
<1> QED BY ZenonT(30), <1>1, <1>9 DEF q, g

\* A change of the database that the client sees.
LEMMA ChangeSeen ==
  ASSUME DataTypes, NEW h, Explains(h, pipe, thr, "up", db, attached, missed), NEW d \in Netdevs,
         NEW y \in ConfigsOf(d) \ {db[d]}
  PROVE  \E g : Explains(g, pipe \o Rows(d, db[d], y), thr, "up", [db EXCEPT ![d] = y], attached,
                        missed \cup {e \in {d} : db[d] = "neg" /\ y = "off"})
<1> DEFINE N == missed \cup {e \in {d} : db[d] = "neg" /\ y = "off"}
           z == [db EXCEPT ![d] = y]
<1>1. /\ pipe \in Seq(RowStruct) /\ db \in Tables /\ db[d] \in Configs \cup {"absent"}
      /\ y \in Configs \cup {"absent"} /\ y # db[d] /\ missed \subseteq N
  BY Zenon, Zenon DEF DataTypes, Tables, ConfigsOf, Configs
<1>2. \A row \in RowStruct : pipe \o <<row>> = Append(pipe, row)
  BY <1>1
<1>3. CASE db[d] = "absent"
  <2> DEFINE row == Row("insert", d, y)
  <2>1. row \in RowStruct /\ RowStep(db, row, z) /\ row.action \notin {"initial", "new"}
    BY Zenon, ZenonT(30), <1>1, <1>3 DEF Row, RowStruct, RowStep
  <2>2. Rows(d, db[d], y) = <<row>>
    BY SMTT(30), <1>3 DEF Rows
  <2> HIDE DEF row, N, z
  <2>3. \E g : Explains(g, Append(pipe, row), thr, "up", z, attached, N)
    BY ZenonT(30), ZenonT(30), <1>1, <2>1, WrittenExplained
  <2>4. pipe \o Rows(d, db[d], y) = Append(pipe, row)
    BY <1>2, <2>1, <2>2
  <2> QED BY ZenonT(30), <2>3, <2>4 DEF N, z
<1>4. CASE db[d] # "absent" /\ y = "absent"
  <2> DEFINE row == Row("delete", d, db[d])
  <2>1. row \in RowStruct /\ RowStep(db, row, z) /\ row.action \notin {"initial", "new"}
    BY <1>1, <1>4 DEF Row, RowStruct, RowStep
  <2>2. Rows(d, db[d], y) = <<row>>
    BY Zenon, <1>4 DEF Rows
  <2> HIDE DEF row, N, z
  <2>3. \E g : Explains(g, Append(pipe, row), thr, "up", z, attached, N)
    BY ZenonT(30), <1>1, <2>1, WrittenExplained
  <2>4. pipe \o Rows(d, db[d], y) = Append(pipe, row)
    BY Zenon, <1>2, <2>1, <2>2
  <2> QED BY Zenon, <2>3, <2>4 DEF N, z
<1>5. CASE db[d] # "absent" /\ y # "absent"
  <2> DEFINE old == Row("old", d, db[d])
             new == Row("new", d, y)
             p == Append(pipe, old)
  <2>1. /\ old \in RowStruct /\ RowStep(db, old, db) /\ old.action = "old" /\ old.dev = d
        /\ new \in RowStruct /\ RowStep(db, new, z) /\ new.action = "new" /\ new.dev = d
        /\ new.config = y
    BY Zenon, Zenon, <1>1, <1>5 DEF Row, RowStruct, RowStep
  <2>2. Rows(d, db[d], y) = <<old, new>>
    BY <1>5 DEF Rows
  <2>3. pipe \o <<old, new>> = Append(p, new)
    <3> HIDE DEF old, new
    <3> QED BY SMTT(30), <1>1, <2>1
  <2>4. p \in Seq(RowStruct) /\ Len(p) > 0 /\ p[Len(p)] = old
    <3> HIDE DEF old, new
    <3> QED BY SMTT(30), <1>1, <2>1
  <2>5. d \notin N => ~(db[d] = "neg" /\ y = "off")
    BY Zenon
  <2> HIDE DEF old, new, p, N, z
  <2>6. PICK g : Explains(g, p, thr, "up", db, attached, missed)
    BY ZenonT(30), <1>1, <2>1, WrittenExplained DEF p
  <2>7. \E f : Explains(f, Append(p, new), thr, "up", z, attached, N)
    BY ZenonT(30), <1>1, <2>1, <2>4, <2>5, <2>6, WrittenExplained
  <2> QED BY ZenonT(30), <2>2, <2>3, <2>7 DEF N, z
<1> QED BY ZenonT(30), <1>3, <1>4, <1>5

\* What is attached of a netdev without rows is what the rows lead to.
LEMMA NoRows ==
  ASSUME DataTypes, NEW h, Follows(pipe, h), Carried(pipe, h, attached, missed),
         NEW d \in Netdevs \ missed, d \notin Waiting
  PROVE  d \in attached <=> enabled(h[Len(pipe) + 1][d])
<1> DEFINE n == Len(pipe)
<1>1. n \in Nat /\ \A k \in 1..n : pipe[k].dev # d
  BY DEF DataTypes, Waiting
<1>2. 1 \in 1..(n + 1) /\ n + 1 \in 1..(n + 1) /\ 1 <= n + 1 /\ 1..((n + 1) - 1) = 1..n
  BY <1>1
<1>3. h[1][d] = h[n + 1][d]
  <2>1. \A i, j \in 1..(n + 1) :
          i <= j /\ (\A k \in i..(j - 1) : pipe[k].dev # d) => h[i][d] = h[j][d]
    BY Zenon DEF Follows
  <2> HIDE DEF n
  <2>2. \A k \in 1..((n + 1) - 1) : pipe[k].dev # d
    BY ZenonT(30), <1>1, <1>2
  <2> QED BY <1>2, <2>1, <2>2, Zenon
<1>4. ~InitialOf(pipe, d)
  BY SMTT(30), <1>1 DEF InitialOf
<1> QED BY <1>3, <1>4 DEF Carried

\* A change of the database that no client sees.
LEMMA ChangeUnseen ==
  ASSUME DataTypes, client # "up", NEW h, Explains(h, pipe, thr, client, db, attached, missed),
         NEW d \in Netdevs, NEW y
  PROVE  Explains(h, pipe, thr, client, [db EXCEPT ![d] = y], attached,
                  missed \cup {e \in (attached \cup Waiting) \cap {d} : ~enabled(y)})
<1> DEFINE N == missed \cup {e \in (attached \cup Waiting) \cap {d} : ~enabled(y)}
           z == [db EXCEPT ![d] = y]
<1>1. Follows(pipe, h) /\ Half(pipe, h, thr) /\ Carried(pipe, h, attached, missed)
  BY ZenonT(30) DEF Explains
<1>2. Carried(pipe, h, attached, N)
  BY ZenonT(30), <1>1 DEF Carried
<1>3. ASSUME NEW e \in Netdevs \ N PROVE enabled(z[e]) \/ ~enabled(h[Len(pipe) + 1][e])
  <2>1. CASE e # d
    <3>1. z[e] = db[e]
      BY <2>1 DEF DataTypes, Tables
    <3> QED BY Zenon, <3>1 DEF Explains, LeadsTo
  <2>2. CASE e = d /\ ~enabled(y)
    <3>1. d \notin attached /\ d \notin Waiting /\ d \in Netdevs \ missed
      BY <2>2
    <3> QED BY ZenonT(30), <1>1, <2>2, <3>1, NoRows
  <2>3. CASE e = d /\ enabled(y)
    <3>1. z[e] = y
      BY <2>3 DEF DataTypes, Tables
    <3> QED BY Zenon, <2>3, <3>1
  <2> QED BY SMTT(30), <2>1, <2>2, <2>3
<1>4. LeadsTo(pipe, h, client, z, N)
  BY ZenonT(30), <1>3 DEF LeadsTo
<1> QED BY ZenonT(30), <1>1, <1>2, <1>4 DEF Explains

\* The thread lets the connection go, with the rows it has not read.
LEMMA DownExplained ==
  ASSUME DataTypes, NEW h, Explains(h, pipe, thr, client, db, attached, missed), NEW t,
         NEW c \in {"none", "waited"}
  PROVE  \E g : Explains(g, <<>>, t, c, db, attached, missed \cup Waiting)
<1> DEFINE x == h[Len(pipe) + 1]
           g == [i \in {1} |-> x]
           N == missed \cup Waiting
<1>1. Follows(pipe, h) /\ Carried(pipe, h, attached, missed)
  BY ZenonT(30), ZenonT(30) DEF Explains
<1>2. x \in Tables
  BY <1>1 DEF Follows, DataTypes
<1>3. Follows(<<>>, g)
  BY Zenon, ZenonT(30), <1>2, FollowsNothing
<1>4. Len(<<>>) = 0 /\ 1..0 = {} /\ g[1] = x /\ g[0 + 1] = x
  OBVIOUS
<1>5. \A d \in Netdevs \ N : d \in attached <=> enabled(x[d])
  BY Zenon, Zenon, <1>1, NoRows
<1>6. \A d \in Netdevs \ N : enabled(db[d]) \/ ~enabled(x[d])
  BY DEF Explains, LeadsTo
<1> HIDE DEF g, N, x
<1>7. Carried(<<>>, g, attached, N)
  BY ZenonT(30), ZenonT(30), <1>4, <1>5 DEF Carried, InitialOf
<1>8. Half(<<>>, g, t) /\ LeadsTo(<<>>, g, c, db, N)
  BY SMTT(30), <1>4, <1>6 DEF Half, LeadsTo
<1>9. Explains(g, <<>>, t, c, db, attached, N)
  BY ZenonT(30), <1>3, <1>7, <1>8 DEF Explains
<1> QED BY ZenonT(30), <1>9 DEF N

\* A new client reports what there is.
LEMMA ReportExplained ==
  ASSUME DataTypes, pipe = <<>>, client # "up", NEW p \in Reports, NEW t,
         NEW h, Explains(h, pipe, thr, client, db, attached, missed)
  PROVE  \E g : Explains(g, p, t, "up", db, attached, missed)
<1> DEFINE n == Len(p)
           g == [i \in 1..(n + 1) |-> db]
<1>1. /\ p \in Seq(RowStruct) /\ n \in Nat
      /\ \A k \in 1..n : p[k].action = "initial"
      /\ \A d \in Netdevs : db[d] # "absent" => \E k \in 1..n : p[k].dev = d
  BY ReportedRows
<1>2. Follows(p, g)
  BY Zenon, ZenonT(30), FollowsReport
<1>3. g[1] = db /\ g[n + 1] = db
  BY SMTT(30), <1>1
<1>4. \A d \in Netdevs \ missed : d \in attached => enabled(db[d])
  <2>1. Waiting = {}
    BY SMTT(30) DEF Waiting
  <2> QED BY Zenon, <2>1, NoRows DEF Explains, LeadsTo
<1> HIDE DEF g
<1>5. Carried(p, g, attached, missed)
  <2>1. ASSUME NEW d \in Netdevs \ missed
        PROVE  IF InitialOf(p, d) THEN enabled(g[1][d]) \/ d \notin attached
                                  ELSE d \in attached <=> enabled(g[1][d])
    <3>1. CASE InitialOf(p, d)
      BY ZenonT(30), <1>3, <1>4, <3>1
    <3>2. CASE ~InitialOf(p, d)
      <4>1. db[d] = "absent"
        BY SMTT(30), <1>1, <3>2 DEF InitialOf
      <4> QED BY SMTT(30), <1>3, <1>4, <3>2, <4>1 DEF enabled
    <3> QED BY SMTT(30), <3>1, <3>2
  <2> QED BY ZenonT(30), <1>1, <2>1 DEF Carried
<1>6. Half(p, g, t) /\ LeadsTo(p, g, "up", db, missed)
  BY SMTT(30), <1>1, <1>3 DEF Half, LeadsTo
<1>7. Explains(g, p, t, "up", db, attached, missed)
  BY ZenonT(30), <1>2, <1>5, <1>6 DEF Explains
<1> QED BY SMTT(30), <1>7

\* The steps of the thread of ovsdb_mon.c.
LEMMA OvsdbSync ==
  ASSUME ClientInv, DataTypes, Sync, OvsdbThread \/ threadmain_start
  PROVE  Sync'
<1> SUFFICES ASSUME kind = "ovsdb", thr'.pc \in {"created", "loop", "connect", "check", "read"}
             PROVE  /\ client' \in {"none", "waited"} => pipe' = <<>>
                    /\ \E g : Explains(g, pipe', thr', client', db', attached', missed')
  <2>1. kind' = kind
    BY ZenonT(30) DEF OvsdbThread, threadmain_start, ovsdb_loop, setup_ovsdb_mon, ovsdb_down, ovsdb_select_fails, ovsdb_select,
           parse_ovsdb_client
  <2> QED BY ZenonT(30), <2>1 DEF Sync
<1>1. thr.pc \in {"created", "loop", "connect", "check", "read"}
  BY ZenonT(30) DEF OvsdbThread, threadmain_start, ovsdb_loop, setup_ovsdb_mon, ovsdb_down, ovsdb_select_fails, ovsdb_select,
         parse_ovsdb_client
<1>2. client \in {"none", "waited"} => pipe = <<>>
  BY Zenon, <1>1 DEF Sync
<1>3. PICK h : Explains(h, pipe, thr, client, db, attached, missed)
  BY ZenonT(30), <1>1 DEF Sync
<1>4. thr \in ThreadStruct
  BY Zenon DEF ClientInv
\* A step that moves the label without a row half read.
<1>5. ASSUME UNCHANGED <<db, client, pipe, attached, missed>>,
             thr.pc # "read" \/ pipe = <<>>
      PROVE  \E g : Explains(g, pipe', thr', client', db', attached', missed')
  <2>1. Half(pipe, h, thr')
    BY SMTT(30), <1>3, <1>5 DEF Explains, Half
  <2>2. Explains(h, pipe, thr', client, db, attached, missed)
    BY ZenonT(30), <1>3, <2>1 DEF Explains
  <2> QED BY SMTT(30), <1>5, <2>2
<1>6. CASE threadmain_start \/ ovsdb_select
  BY SMTT(30), <1>2, <1>5, <1>6 DEF threadmain_start, ovsdb_select, Ovsdb
<1>7. CASE ovsdb_loop
  <2>1. ~must_stop
    BY SMTT(30), <1>4, <1>7, JumpFields DEF ovsdb_loop
  <2> QED BY Zenon, <1>2, <1>5, <1>7, <2>1 DEF ovsdb_loop
<1>8. CASE setup_ovsdb_mon
  <2>1. client \in {"none", "waited"}
    BY Zenon, ZenonT(30), <1>8 DEF setup_ovsdb_mon, ClientInv, ClientOfThread
  <2>2. CASE pipe' \in Reports /\ client' = "up"
    <3>1. \E g : Explains(g, pipe', thr', "up", db, attached, missed)
      BY SMTT(30), <1>2, <1>3, <2>1, <2>2, ReportExplained
    <3> QED BY Zenon, <1>8, <2>2, <3>1 DEF setup_ovsdb_mon
  <2>3. CASE client' = "waited" /\ UNCHANGED <<pipe, thr>>
    <3>1. UNCHANGED <<db, attached, missed>>
      BY Zenon, <1>8 DEF setup_ovsdb_mon
    <3>2. Explains(h, pipe, thr, "waited", db, attached, missed)
      BY ZenonT(30), <1>3, <2>1 DEF Explains, LeadsTo
    <3> QED BY Zenon, <1>2, <2>1, <2>3, <3>1, <3>2
  <2> QED BY Zenon, <1>8, <2>2, <2>3 DEF setup_ovsdb_mon
<1>9. CASE ovsdb_down
  <2>1. \E g : Explains(g, <<>>, thr', "none", db, attached, missed \cup Waiting)
    BY ZenonT(30), <1>3, <1>9, DownExplained DEF ovsdb_down
  <2> QED BY SMTT(30), <1>9, <2>1 DEF ovsdb_down
<1>11. CASE ovsdb_select_fails
  <2>1. client' \in {"none", "waited"}
    BY Zenon, <1>11 DEF ovsdb_select_fails
  <2>2. \E g : Explains(g, <<>>, thr', client', db, attached, missed \cup Waiting)
    BY ZenonT(30), <1>3, <2>1, DownExplained
  <2> QED BY SMTT(30), <1>11, <2>2 DEF ovsdb_select_fails
<1>10. CASE parse_ovsdb_client
  <2>1. CASE pipe # <<>> /\ process_external_ids(Head(pipe)) /\ pipe' = Tail(pipe)
    <3>1. \E g : Explains(g, Tail(pipe), thr', client, db, attached', missed')
      BY SMTT(30), <1>3, <1>10, <2>1, RowExplained DEF parse_ovsdb_client, DataTypes
    <3> QED BY SMTT(30), <1>2, <1>10, <2>1, <3>1 DEF parse_ovsdb_client
  <2>2. CASE pipe = <<>> /\ UNCHANGED <<pipe, attached, missed>>
    BY SMTT(30), <1>2, <1>5, <1>10, <2>2 DEF parse_ovsdb_client
  <2> QED BY <1>10, <2>1, <2>2 DEF parse_ovsdb_client
<1> QED BY SMTT(30), <1>6, <1>7, <1>8, <1>9, <1>10, <1>11 DEF OvsdbThread

\* The steps of the database, of the file monitor and of main.
LEMMA OtherSync ==
  ASSUME ClientInv, DataTypes, Sync, FileThread \/ Stopping \/ Environment
  PROVE  Sync'
<1>1. CASE FileThread
  <2>1. kind' = "file"
    BY ZenonT(30), <1>1 DEF FileThread, file_loop, scan_file, scan_file_obey, file_unlink, ClientInv
  <2> QED BY SMTT(30), <2>1 DEF Sync
<1>2. CASE mon_stop \/ mon_stop_join \/ WriteCommand \/ ServerStarts
  BY <1>2 DEF mon_stop, mon_stop_join, WriteCommand, ServerStarts, Sync, Ovsdb
<1>3. CASE mon_stop_cancel
  <2>1. thr'.pc = "cancelled"
    BY SMTT(30), <1>3, JumpFields DEF mon_stop_cancel, ClientInv
  <2> QED BY ZenonT(30), <2>1 DEF Sync
<1>4. CASE ServerEnds \/ ClientEnds
  <2>1. /\ UNCHANGED <<kind, db, pipe, thr, attached, missed>>
        /\ \/ client' = client
           \/ client = "up" /\ client' = "eof"
           \/ client = "waited" /\ client' = "none"
    BY SMTT(30), <1>4 DEF ServerEnds, ClientEnds, Ended
  <2>2. ASSUME client \in {"up", "waited"}, client' \in {"eof", "none"},
               NEW h, Explains(h, pipe, thr, client, db, attached, missed)
        PROVE  Explains(h, pipe, thr, client', db, attached, missed)
    BY ZenonT(30), <2>2 DEF Explains, LeadsTo
  <2> QED BY ZenonT(30), <2>1, <2>2 DEF Sync
<1>5. ASSUME NEW d \in Netdevs, Change(d) PROVE Sync'
  <2>1. UNCHANGED <<kind, client, thr, attached>>
    BY ZenonT(30), <1>5 DEF Change
  <2> SUFFICES ASSUME kind = "ovsdb", thr.pc \in {"created", "loop", "connect", "check", "read"}
               PROVE  /\ client \in {"none", "waited"} => pipe' = <<>>
                      /\ \E g : Explains(g, pipe', thr, client, db', attached, missed')
    BY ZenonT(30), <2>1 DEF Sync
  <2>2. client \in {"none", "waited"} => pipe = <<>>
    BY Zenon, ZenonT(30) DEF Sync
  <2>3. PICK h : Explains(h, pipe, thr, client, db, attached, missed)
    BY SMTT(30) DEF Sync
  <2>4. CASE client = "up"
    <3>1. PICK y \in ConfigsOf(d) \ {db[d]} :
            /\ db' = [db EXCEPT ![d] = y]
            /\ pipe' = pipe \o Rows(d, db[d], y)
            /\ missed' = missed \cup {e \in {d} : db[d] = "neg" /\ y = "off"}
      BY ZenonT(30), <1>5, <2>4 DEF Change
    <3>2. \E g : Explains(g, pipe \o Rows(d, db[d], y), thr, "up", [db EXCEPT ![d] = y], attached,
                         missed \cup {e \in {d} : db[d] = "neg" /\ y = "off"})
      BY ZenonT(30), <2>3, <2>4, ChangeSeen
    <3>3. \E g : Explains(g, pipe', thr, "up", db', attached, missed')
      BY Zenon, <3>1, <3>2
    <3> QED BY ZenonT(30), <2>4, <3>3
  <2>5. CASE client # "up"
    <3>1. PICK y \in ConfigsOf(d) \ {db[d]} :
            /\ db' = [db EXCEPT ![d] = y]
            /\ pipe' = pipe
            /\ missed' = missed \cup {e \in (attached \cup Waiting) \cap {d} : ~enabled(y)}
      BY ZenonT(30), <1>5, <2>5 DEF Change
    <3>2. Explains(h, pipe, thr, client, [db EXCEPT ![d] = y], attached,
                   missed \cup {e \in (attached \cup Waiting) \cap {d} : ~enabled(y)})
      BY ZenonT(30), <2>3, <2>5, ChangeUnseen
    <3>3. Explains(h, pipe', thr, client, db', attached, missed')
      BY Zenon, <3>1, <3>2
    <3> QED BY ZenonT(30), <2>2, <3>1, <3>3
  <2> QED BY SMTT(30), <2>4, <2>5
<1> QED BY SMTT(30), <1>1, <1>2, <1>3, <1>4, <1>5 DEF Stopping, Environment

\* In every state a history explains what the thread has done.
LEMMA SyncAlways == Spec => []Sync
<1>1. Init => Sync
  <2> SUFFICES ASSUME Init PROVE Sync
    BY Zenon
  <2> DEFINE g == [i \in {1} |-> db]
  <2>1. db \in Tables /\ \A d \in Netdevs : ~enabled(db[d])
    BY ZenonT(30) DEF Init, Tables, enabled
  <2>2. Follows(<<>>, g)
    BY Zenon, ZenonT(30), <2>1, FollowsNothing
  <2>3. Len(<<>>) = 0 /\ 1..0 = {} /\ g[1] = db /\ g[0 + 1] = db
    OBVIOUS
  <2> HIDE DEF g
  <2>4. Carried(<<>>, g, {}, {}) /\ Half(<<>>, g, thr) /\ LeadsTo(<<>>, g, "none", db, {})
    BY <2>1, <2>3 DEF Carried, InitialOf, Half, LeadsTo
  <2>5. Explains(g, pipe, thr, client, db, attached, missed)
    BY SMTT(30), <2>2, <2>4 DEF Explains, Init
  <2>6. pipe = <<>>
    BY ZenonT(30) DEF Init
  <2> QED BY Zenon, <2>5, <2>6 DEF Sync
<1>2. ClientInv /\ DataTypes /\ Sync /\ [Next]_vars => Sync'
  <2>1. Sync /\ UNCHANGED vars => Sync'
    BY Zenon DEF vars, Sync
  <2> QED BY SMTT(30), <2>1, OvsdbSync, OtherSync DEF Next
<1> QED BY <1>1, <1>2, DataAlways, PTL DEF Spec

\* When the monitor has read all that its client wrote, the VFs attached are
\* those of the ports with a key: for any number of netdevs, rows in the pipe
\* and reconnections, but for the netdevs of which a change was missed.
THEOREM InSyncCorrect == Spec => []InSync
<1>1. DataTypes /\ ClientInv /\ Sync => InSync
  <2> SUFFICES ASSUME DataTypes, ClientInv, Sync, thr.pc = "read", client = "up", pipe = <<>>,
                      NEW d \in Netdevs \ missed
               PROVE  d \in attached <=> enabled(db[d])
    BY ZenonT(30) DEF InSync
  <2>1. PICK h : Explains(h, pipe, thr, client, db, attached, missed)
    BY ZenonT(30), Zenon DEF Sync, ClientInv
  <2>2. h[Len(pipe) + 1] = db /\ d \notin Waiting
    BY <2>1 DEF Explains, LeadsTo, Waiting
  <2> QED BY Zenon, <2>1, <2>2, NoRows DEF Explains
<1> QED BY <1>1, DataAlways, SyncAlways, PTL
=============================================================================

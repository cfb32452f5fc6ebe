--------------------------- MODULE MigrationProofs ---------------------------
(***************************************************************************)
(* Proofs about Migration, for any set of pages, any number of dirty       *)
(* passes, writes and attempts: the types, how a migration may turn out,   *)
(* and that send_migration and vm_receive_migration implement Handover.    *)
(***************************************************************************)
EXTENDS Migration, TLAPS

Waits == {"WaitStart", "WaitMemoryFd", "WaitConfig", "WaitMemory", "WaitState",
          "WaitComplete", "WaitAbandon"}

SourcePcs ==
    {"idle", "done", "failed", "panicked", "dead"} \cup Commands \cup Waits
    \cup {"StartLog", "Memory", "Pages", "DirtyLog", "Pause", "LastLog", "StopLog",
          "Snapshot", "Completed"}

\* The command that the source waits to have answered.
Sent ==
    CASE spc = "WaitStart" -> "Start" [] spc = "WaitMemoryFd" -> "MemoryFd"
      [] spc = "WaitConfig" -> "Config" [] spc = "WaitMemory" -> "Memory"
      [] spc = "WaitState" -> "State" [] spc = "WaitComplete" -> "Complete"
      [] spc = "WaitAbandon" -> "Abandon" [] OTHER -> "none"

Requests == {<<>>} \cup {<<c>> : c \in Commands \cup {"Memory"}}
Responses == {<<>>, <<"Ok">>, <<"Error">>}

\* The types: the places of both programs, what the socket can hold, and the data.
Control ==
    /\ svm \in {"Running", "Paused", "Gone"} /\ dvm \in {"none", "Paused", "Running"}
    /\ spc \in SourcePcs
    /\ dpc \in {"listen", "loop", "closing", "resumed", "done", "failed", "dead"}

Socket == toDst \in Requests /\ toSrc \in Responses

Data ==
    /\ pass \in 0 .. LastPass /\ tries \in 0 .. MaxTries
    /\ table \subseteq Pages /\ dirty \subseteq Pages
    /\ local \in BOOLEAN /\ logging \in BOOLEAN /\ started \in BOOLEAN
    /\ received \in BOOLEAN /\ moved \in BOOLEAN
    /\ mem \in [Pages -> 0 .. MaxWrites] /\ dmem \in [Pages -> 0 .. MaxWrites]

Types == Control /\ Socket /\ Data

\* The source sends a command and waits for its response: one or the other is on
\* the socket, or neither; and a request that is left when the source has gone on
\* to fail is not read any more.
Dialogue ==
    /\ spc = "idle" <=> dpc = "listen"
    /\ spc = "idle" => dvm = "none" /\ toDst = <<>> /\ toSrc = <<>>
    /\ Sending /\ spc \notin Waits => toDst = <<>> /\ toSrc = <<>>
    /\ spc \in Waits => toDst = <<>> \/ (toDst = <<Sent>> /\ toSrc = <<>>)
    /\ spc \in {"failed", "panicked", "done"} /\ dpc = "loop" => toDst = <<>>

\* Where the VMs stand.
Places ==
    /\ spc \in {"LastLog", "StopLog", "Snapshot", "State", "WaitState", "Complete",
                "WaitComplete", "Completed"} => svm = "Paused"
    /\ spc \in {"done", "panicked", "dead"} => svm = "Gone"
    /\ dvm = "Running" => moved
    /\ dpc \in {"listen", "loop", "closing"} => dvm # "Running"
    /\ dpc = "resumed" => dvm = "Running" /\ toDst = <<>> /\ spc \in {"WaitComplete", "dead"}
    /\ dpc = "resumed" /\ spc = "WaitComplete" => toSrc = <<>>
    /\ spc \in {"Completed", "done"} => dpc = "done" /\ dvm = "Running"
    /\ spc = "WaitComplete" /\ toSrc = <<"Ok">> => dpc = "done" /\ dvm = "Running"

\* What the destination lacks is in the table being sent or in the dirty log.
Copying ==
    /\ spc \in {"StartLog", "Memory", "Pages", "WaitMemory", "DirtyLog", "LastLog", "StopLog"} => ~local
    /\ spc \in {"Start", "WaitStart", "MemoryFd", "WaitMemoryFd", "Config", "WaitConfig", "StartLog",
                "DirtyLog"} => pass # LastPass
    /\ spc \in {"Memory", "Pages", "WaitMemory"} /\ pass = LastPass => svm = "Paused" /\ dirty = {}
    /\ spc = "StopLog" => dirty = {}
    /\ ~local /\ spc \in {"WaitMemory", "DirtyLog", "Pause", "LastLog", "StopLog"} => table = {}
    /\ ~local /\ spc \in {"Memory", "Pages", "WaitMemory", "DirtyLog", "Pause", "LastLog", "StopLog"} =>
          /\ logging
          /\ ~moved => \A p \in Pages : dmem[p] = mem[p] \/ p \in dirty \/ p \in table
    /\ ~local /\ ~moved /\ spc \in {"Snapshot", "State", "WaitState", "Complete", "WaitComplete"} =>
          \A p \in Pages : dmem[p] = mem[p]
    /\ ~moved /\ dpc = "loop" /\ toDst = <<"Complete">> =>
          svm # "Running" /\ (~local => \A p \in Pages : dmem[p] = mem[p])

IInv == Types /\ Dialogue /\ Places /\ Copying /\ FailedKeepsSource

\* Where the guest has been moved, when no step fails once the destination resumes.
MovedForGood ==
    moved =>
       /\ dvm = "Running" /\ svm # "Running"
       /\ spc \in {"WaitComplete", "Completed", "done", "dead"}
       /\ dpc \in {"resumed", "done", "failed"}
       /\ spc = "WaitComplete" => dpc = "resumed" \/ (dpc = "done" /\ toSrc = <<"Ok">>)

-----------------------------------------------------------------------------
(* Lemmas.                                                                 *)

\* The socket holds one message: what is sent next is read next.
LEMMA OneMessage ==
    ASSUME NEW c
    PROVE  /\ Append(<<>>, c) = <<c>> /\ Head(<<c>>) = c /\ Tail(<<c>>) = <<>>
           /\ <<c>> # <<>> /\ Len(<<c>>) = 1 /\ Len(<<>>) = 0
OBVIOUS

\* The last pass is none of the passes made while the guest runs.
LEMMA Passes ==
    /\ LastPass \in Nat /\ LastPass # 0 /\ LastPass # MaxDirtyMigrations
    /\ \A n \in 0 .. LastPass : n # LastPass /\ n # MaxDirtyMigrations =>
          n + 1 \in 0 .. LastPass /\ n + 1 # LastPass
BY BoundsAssumption DEF LastPass

\* send_migration may fail wherever the destination can no longer complete: the
\* source goes on, and what is on the socket is not read.
LEMMA FailStep ==
    ASSUME IInv, Fail, Sending,
           UNCHANGED <<dest, toDst, tries, moved>>,
           toSrc' = toSrc \/ toSrc' = <<>>,
           dpc = "loop" => toDst = <<>>, dpc # "resumed"
    PROVE  IInv'
<1> USE DEF IInv, Fail, dest, Sending
<1>1. Control'
  BY DEF Types, Control, SourcePcs
<1>s. Socket'
  BY DEF Types, Socket, Responses
<1>d. Data'
  BY DEF Types, Data, LastPass
<1>2. Dialogue'
  BY DEF Dialogue, Waits
<1>3. Places'
  BY DEF Places
<1>4. Copying'
  BY OneMessage DEF Copying
<1>5. FailedKeepsSource'
  BY DEF FailedKeepsSource
<1> QED
  BY <1>1, <1>s, <1>d, <1>2, <1>3, <1>4, <1>5 DEF Types


\* The destination reads a request and handles it, whatever the request and whether or
\* not the source is still there to be answered.
LEMMA ReadRequestStep ==
    ASSUME IInv, ReadRequest PROVE IInv'
<1> USE DEF IInv, dest, source
<1>a. PICK c \in Commands \cup {"Memory"} : toDst = <<c>>
  BY DEF ReadRequest, Types, Socket, Requests
<1>b. /\ dpc = "loop" /\ toDst' = <<>> /\ Handle(c) /\ moved' = (moved \/ dvm' = "Running")
      /\ UNCHANGED <<spc, svm, local, pass, table, logging, dirty, mem, dmem, tries>>
  BY <1>a, OneMessage DEF ReadRequest
<1>c. \/ spc \in Waits /\ Sent = c /\ toSrc = <<>> /\ Sending
      \/ spc = "dead" /\ ~Sending
  BY <1>a, <1>b, OneMessage DEF Dialogue, Types, Control, SourcePcs, Waits, Sending
<1>d. dvm # "Running"
  BY <1>b DEF Places
<1> DEFINE Step ==
      /\ dpc' \in {"loop", "closing", "resumed", "done", "failed"}
      /\ started' \in BOOLEAN /\ received' \in BOOLEAN
      /\ dvm' \in {"none", "Paused", "Running"} /\ toSrc' \in Responses
      /\ dvm' = "Running" => c = "Complete" /\ dpc' \in {"resumed", "failed"}
      /\ dpc' = "resumed" => dvm' = "Running" /\ toSrc' = toSrc
      /\ c = "Complete" => toSrc' # <<"Ok">> \/ spc = "dead"
<1>1. Step
  <2> USE <1>b, <1>c, <1>d, OneMessage DEF Respond, Responses, Types, Socket, Data, Control, Commands, Handle
  <2>1. CASE c \in {"Start", "MemoryFd"}
    BY <2>1 DEF HandleStart, Refuse
  <2>2. CASE c = "Config"
    BY <2>2 DEF HandleConfig, Refuse, Unreadable
  <2>3. CASE c = "Memory"
    BY <2>3 DEF HandleMemory, Refuse, Unreadable
  <2>4. CASE c = "State"
    BY <2>4 DEF HandleState, Refuse, Unreadable
  <2>5. CASE c = "Complete"
    BY <2>5 DEF HandleComplete
  <2>6. CASE c = "Abandon"
    BY <2>6 DEF HandleAbandon
  <2> QED
    BY <2>1, <2>2, <2>3, <2>4, <2>5, <2>6
<1> HIDE DEF Step
<1>2. Control'
  BY <1>1, <1>b DEF Step, Types, Control
<1>3. Socket'
  BY <1>1, <1>b DEF Step, Socket, Requests
<1>4. Data'
  BY <1>1, <1>b DEF Step, Types, Data, LastPass
<1>5. Dialogue'
  BY <1>1, <1>b, <1>c DEF Step, Dialogue, Sending, Waits
<1>6. Places'
  BY <1>1, <1>b, <1>c, <1>d DEF Step, Places, Sent, Waits, Sending
<1>7. Copying'
  BY <1>1, <1>b, OneMessage DEF Step, Copying, Types, Data
<1>8. FailedKeepsSource'
  BY <1>b DEF FailedKeepsSource
<1> QED
  BY <1>2, <1>3, <1>4, <1>5, <1>6, <1>7, <1>8 DEF Types

\* Each step of the guest, of either program and of the operator keeps the inductive
\* invariant.
LEMMA InductiveStep == IInv /\ [Next]_vars => IInv'
<1> SUFFICES ASSUME IInv, [Next]_vars PROVE IInv'
  OBVIOUS
<1> USE DEF IInv, dest, source
<1>1. ASSUME NEW p \in Pages, GuestWritesSource(p) PROVE IInv'
  <2>1. Control'
    BY <1>1 DEF GuestWritesSource, Types, Control, SourcePcs, Commands, Waits
  <2>2. Socket'
    BY <1>1 DEF GuestWritesSource, Types, Socket
  <2>3. Data'
    BY <1>1, BoundsAssumption DEF GuestWritesSource, Types, Data, LastPass
  <2>4. Dialogue'
    BY <1>1 DEF GuestWritesSource, Dialogue, Waits, Sending, Sent
  <2>5. Places'
    BY <1>1 DEF GuestWritesSource, Places
  <2>6. Copying'
    BY <1>1 DEF GuestWritesSource, Copying, Places, Types, Data
  <2>7. FailedKeepsSource'
    BY <1>1 DEF GuestWritesSource, FailedKeepsSource
  <2> QED
    BY <2>1, <2>2, <2>3, <2>4, <2>5, <2>6, <2>7 DEF Types
<1>2. ASSUME NEW p \in Pages, GuestWritesDest(p) PROVE IInv'
  <2>1. Control'
    BY <1>2 DEF GuestWritesDest, Types, Control, SourcePcs, Commands, Waits
  <2>2. Socket'
    BY <1>2 DEF GuestWritesDest, Types, Socket
  <2>3. Data'
    BY <1>2, BoundsAssumption DEF GuestWritesDest, Types, Data, LastPass, GuestMemory
  <2>4. Dialogue'
    BY <1>2 DEF GuestWritesDest, Dialogue, Waits, Sending, Sent
  <2>5. Places'
    BY <1>2 DEF GuestWritesDest, Places
  <2>6. Copying'
    BY <1>2 DEF GuestWritesDest, Copying, Places, Types, Data
  <2>7. FailedKeepsSource'
    BY <1>2 DEF GuestWritesDest, FailedKeepsSource
  <2> QED
    BY <2>1, <2>2, <2>3, <2>4, <2>5, <2>6, <2>7 DEF Types
<1>3. ASSUME NEW l \in BOOLEAN, SendMigration(l) PROVE IInv'
  <2>1. Control'
    BY <1>3 DEF SendMigration, Types, Control, SourcePcs, Commands, Waits
  <2>2. Socket'
    BY <1>3 DEF SendMigration, Types, Socket
  <2>3. Data'
    BY <1>3, BoundsAssumption DEF SendMigration, Types, Data, LastPass
  <2>4. Dialogue'
    BY <1>3 DEF SendMigration, Dialogue, Waits, Sending, Sent
  <2>5. Places'
    BY <1>3 DEF SendMigration, Places
  <2>6. Copying'
    BY <1>3, Passes, OneMessage DEF SendMigration, Copying, Dialogue
  <2>7. FailedKeepsSource'
    BY <1>3 DEF SendMigration, FailedKeepsSource
  <2> QED
    BY <2>1, <2>2, <2>3, <2>4, <2>5, <2>6, <2>7 DEF Types
<1>4. CASE StartLog
  <2>1. Control'
    BY <1>4 DEF StartLog, Types, Control, SourcePcs, Commands, Waits
  <2>2. Socket'
    BY <1>4 DEF StartLog, Types, Socket
  <2>3. Data'
    BY <1>4 DEF StartLog, Types, Data, LastPass
  <2>4. Dialogue'
    BY <1>4 DEF StartLog, Dialogue, Waits, Sending, Sent
  <2>5. Places'
    BY <1>4 DEF StartLog, Places
  <2>6. Copying'
    BY <1>4 DEF StartLog, Copying
  <2>7. FailedKeepsSource'
    BY <1>4 DEF StartLog, FailedKeepsSource
  <2> QED
    BY <2>1, <2>2, <2>3, <2>4, <2>5, <2>6, <2>7 DEF Types
<1>5. CASE SendTable
  <2>1. Control'
    BY <1>5 DEF SendTable, Types, Control, SourcePcs, Commands, Waits
  <2>2. Socket'
    BY <1>5 DEF SendTable, Types, Socket
  <2>3. Data'
    BY <1>5 DEF SendTable, Types, Data, LastPass
  <2>4. Dialogue'
    BY <1>5 DEF SendTable, Dialogue, Waits, Sending, Sent
  <2>5. Places'
    BY <1>5 DEF SendTable, Places
  <2>6. Copying'
    BY <1>5 DEF SendTable, Copying
  <2>7. FailedKeepsSource'
    BY <1>5 DEF SendTable, FailedKeepsSource
  <2> QED
    BY <2>1, <2>2, <2>3, <2>4, <2>5, <2>6, <2>7 DEF Types
<1>6. CASE SentPages
  <2>1. Control'
    BY <1>6 DEF SentPages, Types, Control, SourcePcs, Commands, Waits
  <2>2. Socket'
    BY <1>6, OneMessage DEF SentPages, Types, Socket, Requests, Dialogue, Sending, Waits
  <2>3. Data'
    BY <1>6 DEF SentPages, Types, Data, LastPass
  <2>4. Dialogue'
    BY <1>6, OneMessage DEF SentPages, Dialogue, Waits, Sending, Sent
  <2>5. Places'
    BY <1>6 DEF SentPages, Places
  <2>6. Copying'
    BY <1>6, OneMessage DEF SentPages, Copying, Dialogue, Sending, Waits
  <2>7. FailedKeepsSource'
    BY <1>6 DEF SentPages, FailedKeepsSource
  <2> QED
    BY <2>1, <2>2, <2>3, <2>4, <2>5, <2>6, <2>7 DEF Types
<1>7. CASE ReadMemoryResponse
  <2>1. CASE toSrc # <<>>
    <3>1. Control'
      BY <1>7, <2>1 DEF ReadMemoryResponse, Types, Control, SourcePcs, Commands, Waits
    <3>2. Socket'
      BY <1>7, <2>1, OneMessage DEF ReadMemoryResponse, Types, Socket, Responses
    <3>3. Data'
      BY <1>7, <2>1 DEF ReadMemoryResponse, Types, Data, LastPass
    <3>4. Dialogue'
      BY <1>7, <2>1, OneMessage DEF ReadMemoryResponse, Dialogue, Waits, Sending, Sent, Types, Socket, Responses
    <3>5. Places'
      BY <1>7, <2>1 DEF ReadMemoryResponse, Places, Copying
    <3>6. Copying'
      BY <1>7, <2>1 DEF ReadMemoryResponse, Copying, Types, Data
    <3>7. FailedKeepsSource'
      BY <1>7, <2>1 DEF ReadMemoryResponse, FailedKeepsSource
    <3> QED
      BY <3>1, <3>2, <3>3, <3>4, <3>5, <3>6, <3>7 DEF Types
  <2>2. CASE toSrc = <<>>
    BY <1>7, <2>2, FailStep DEF ReadMemoryResponse, Sending, Dialogue, Waits, Places, Receiving
  <2> QED
    BY <1>7, <2>1, <2>2 DEF ReadMemoryResponse
<1>8. CASE DirtyLog
  <2>1. Control'
    BY <1>8 DEF DirtyLog, Types, Control, SourcePcs, Commands, Waits
  <2>2. Socket'
    BY <1>8 DEF DirtyLog, Types, Socket
  <2>3. Data'
    BY <1>8, Passes DEF DirtyLog, Types, Data, Copying
  <2>4. Dialogue'
    BY <1>8 DEF DirtyLog, Dialogue, Waits, Sending, Sent
  <2>5. Places'
    BY <1>8 DEF DirtyLog, Places
  <2>6. Copying'
    BY <1>8, Passes DEF DirtyLog, Copying, Types, Data
  <2>7. FailedKeepsSource'
    BY <1>8 DEF DirtyLog, FailedKeepsSource
  <2> QED
    BY <2>1, <2>2, <2>3, <2>4, <2>5, <2>6, <2>7 DEF Types
<1>9. CASE Pause
  <2>1. CASE ~Fail
    <3>1. Control'
      BY <1>9, <2>1 DEF Pause, Types, Control, SourcePcs, Commands, Waits
    <3>2. Socket'
      BY <1>9, <2>1 DEF Pause, Types, Socket
    <3>3. Data'
      BY <1>9, <2>1 DEF Pause, Types, Data, LastPass
    <3>4. Dialogue'
      BY <1>9, <2>1 DEF Pause, Dialogue, Waits, Sending, Sent
    <3>5. Places'
      BY <1>9, <2>1 DEF Pause, Places
    <3>6. Copying'
      BY <1>9, <2>1 DEF Pause, Copying
    <3>7. FailedKeepsSource'
      BY <1>9, <2>1 DEF Pause, FailedKeepsSource
    <3> QED
      BY <3>1, <3>2, <3>3, <3>4, <3>5, <3>6, <3>7 DEF Types
  <2>2. CASE Fail
    BY <1>9, <2>2, FailStep DEF Pause, Sending, Dialogue, Waits, Places
  <2> QED
    BY <1>9, <2>1, <2>2 DEF Pause
<1>10. CASE LastLog
  <2>1. Control'
    BY <1>10 DEF LastLog, Types, Control, SourcePcs, Commands, Waits
  <2>2. Socket'
    BY <1>10 DEF LastLog, Types, Socket
  <2>3. Data'
    BY <1>10, Passes DEF LastLog, Types, Data, LastPass
  <2>4. Dialogue'
    BY <1>10 DEF LastLog, Dialogue, Waits, Sending, Sent
  <2>5. Places'
    BY <1>10 DEF LastLog, Places
  <2>6. Copying'
    BY <1>10 DEF LastLog, Copying, Types, Data, Places
  <2>7. FailedKeepsSource'
    BY <1>10 DEF LastLog, FailedKeepsSource
  <2> QED
    BY <2>1, <2>2, <2>3, <2>4, <2>5, <2>6, <2>7 DEF Types
<1>11. CASE StopLog
  <2>1. Control'
    BY <1>11 DEF StopLog, Types, Control, SourcePcs, Commands, Waits
  <2>2. Socket'
    BY <1>11 DEF StopLog, Types, Socket
  <2>3. Data'
    BY <1>11 DEF StopLog, Types, Data, LastPass
  <2>4. Dialogue'
    BY <1>11 DEF StopLog, Dialogue, Waits, Sending, Sent
  <2>5. Places'
    BY <1>11 DEF StopLog, Places
  <2>6. Copying'
    BY <1>11 DEF StopLog, Copying
  <2>7. FailedKeepsSource'
    BY <1>11 DEF StopLog, FailedKeepsSource
  <2> QED
    BY <2>1, <2>2, <2>3, <2>4, <2>5, <2>6, <2>7 DEF Types
<1>12. CASE Snapshot
  <2>1. CASE ~Fail
    <3>1. Control'
      BY <1>12, <2>1 DEF Snapshot, Types, Control, SourcePcs, Commands, Waits
    <3>2. Socket'
      BY <1>12, <2>1 DEF Snapshot, Types, Socket
    <3>3. Data'
      BY <1>12, <2>1 DEF Snapshot, Types, Data, LastPass
    <3>4. Dialogue'
      BY <1>12, <2>1 DEF Snapshot, Dialogue, Waits, Sending, Sent
    <3>5. Places'
      BY <1>12, <2>1 DEF Snapshot, Places
    <3>6. Copying'
      BY <1>12, <2>1 DEF Snapshot, Copying
    <3>7. FailedKeepsSource'
      BY <1>12, <2>1 DEF Snapshot, FailedKeepsSource
    <3> QED
      BY <3>1, <3>2, <3>3, <3>4, <3>5, <3>6, <3>7 DEF Types
  <2>2. CASE Fail
    BY <1>12, <2>2, FailStep DEF Snapshot, Sending, Dialogue, Waits, Places
  <2> QED
    BY <1>12, <2>1, <2>2 DEF Snapshot
<1>13. CASE Completed
  <2>1. CASE ~Fail
    <3>1. Control'
      BY <1>13, <2>1 DEF Completed, Types, Control, SourcePcs, Commands, Waits
    <3>2. Socket'
      BY <1>13, <2>1 DEF Completed, Types, Socket
    <3>3. Data'
      BY <1>13, <2>1 DEF Completed, Types, Data, LastPass
    <3>4. Dialogue'
      BY <1>13, <2>1 DEF Completed, Dialogue, Waits, Sending, Sent
    <3>5. Places'
      BY <1>13, <2>1 DEF Completed, Places
    <3>6. Copying'
      BY <1>13, <2>1 DEF Completed, Copying
    <3>7. FailedKeepsSource'
      BY <1>13, <2>1 DEF Completed, FailedKeepsSource
    <3> QED
      BY <3>1, <3>2, <3>3, <3>4, <3>5, <3>6, <3>7 DEF Types
  <2>2. CASE Fail
    BY <1>13, <2>2, FailStep DEF Completed, Sending, Dialogue, Waits, Places
  <2> QED
    BY <1>13, <2>1, <2>2 DEF Completed
<1>14. CASE ReadEof
  <2>1. Control'
    BY <1>14 DEF ReadEof, Types, Control, SourcePcs, Commands, Waits
  <2>2. Socket'
    BY <1>14 DEF ReadEof, Types, Socket
  <2>3. Data'
    BY <1>14 DEF ReadEof, Types, Data, LastPass
  <2>4. Dialogue'
    BY <1>14 DEF ReadEof, Dialogue, Waits, Sending, Sent
  <2>5. Places'
    BY <1>14 DEF ReadEof, Places
  <2>6. Copying'
    BY <1>14 DEF ReadEof, Copying
  <2>7. FailedKeepsSource'
    BY <1>14 DEF ReadEof, FailedKeepsSource
  <2> QED
    BY <2>1, <2>2, <2>3, <2>4, <2>5, <2>6, <2>7 DEF Types
<1>15. CASE Close
  <2>1. Control'
    BY <1>15 DEF Close, Types, Control, SourcePcs, Commands, Waits
  <2>2. Socket'
    BY <1>15 DEF Close, Types, Socket
  <2>3. Data'
    BY <1>15 DEF Close, Types, Data, LastPass
  <2>4. Dialogue'
    BY <1>15 DEF Close, Dialogue, Waits, Sending, Sent
  <2>5. Places'
    BY <1>15 DEF Close, Places
  <2>6. Copying'
    BY <1>15 DEF Close, Copying
  <2>7. FailedKeepsSource'
    BY <1>15 DEF Close, FailedKeepsSource
  <2> QED
    BY <2>1, <2>2, <2>3, <2>4, <2>5, <2>6, <2>7 DEF Types
<1>16. CASE AnswerComplete
  <2>1. Control'
    BY <1>16 DEF AnswerComplete, Respond, Types, Control, SourcePcs, Commands, Waits
  <2>2. Socket'
    BY <1>16, OneMessage DEF AnswerComplete, Respond, Types, Socket, Responses, Places, Sending
  <2>3. Data'
    BY <1>16 DEF AnswerComplete, Respond, Types, Data, LastPass
  <2>4. Dialogue'
    BY <1>16, OneMessage DEF AnswerComplete, Respond, Dialogue, Waits, Sending, Sent, Places
  <2>5. Places'
    BY <1>16 DEF AnswerComplete, Respond, Places
  <2>6. Copying'
    BY <1>16 DEF AnswerComplete, Respond, Copying
  <2>7. FailedKeepsSource'
    BY <1>16 DEF AnswerComplete, Respond, FailedKeepsSource
  <2> QED
    BY <2>1, <2>2, <2>3, <2>4, <2>5, <2>6, <2>7 DEF Types
<1>17. CASE SourceDies
  <2>1. Control'
    BY <1>17 DEF SourceDies, Types, Control, SourcePcs, Commands, Waits
  <2>2. Socket'
    BY <1>17 DEF SourceDies, Types, Socket
  <2>3. Data'
    BY <1>17 DEF SourceDies, Types, Data, LastPass
  <2>4. Dialogue'
    BY <1>17 DEF SourceDies, Dialogue, Waits, Sending, Sent
  <2>5. Places'
    BY <1>17 DEF SourceDies, Places
  <2>6. Copying'
    BY <1>17 DEF SourceDies, Copying
  <2>7. FailedKeepsSource'
    BY <1>17 DEF SourceDies, FailedKeepsSource
  <2> QED
    BY <2>1, <2>2, <2>3, <2>4, <2>5, <2>6, <2>7 DEF Types
<1>18. CASE DestDies
  <2>1. Control'
    BY <1>18 DEF DestDies, Types, Control, SourcePcs, Commands, Waits
  <2>2. Socket'
    BY <1>18 DEF DestDies, Types, Socket
  <2>3. Data'
    BY <1>18 DEF DestDies, Types, Data, LastPass
  <2>4. Dialogue'
    BY <1>18 DEF DestDies, Dialogue, Waits, Sending, Sent
  <2>5. Places'
    BY <1>18 DEF DestDies, Places
  <2>6. Copying'
    BY <1>18 DEF DestDies, Copying
  <2>7. FailedKeepsSource'
    BY <1>18 DEF DestDies, FailedKeepsSource
  <2> QED
    BY <2>1, <2>2, <2>3, <2>4, <2>5, <2>6, <2>7 DEF Types
<1>19. CASE NewDestination
  <2>z. [p \in Pages |-> 0] \in [Pages -> 0 .. MaxWrites]
    BY BoundsAssumption
  <2>1. Control'
    BY <1>19, <2>z DEF NewDestination, Types, Control, SourcePcs, Commands, Waits
  <2>2. Socket'
    BY <1>19, <2>z DEF NewDestination, Types, Socket, Requests, Responses
  <2>3. Data'
    BY <1>19, <2>z, BoundsAssumption DEF NewDestination, Types, Data, LastPass
  <2>4. Dialogue'
    BY <1>19, <2>z DEF NewDestination, Dialogue, Waits, Sending, Sent
  <2>5. Places'
    BY <1>19, <2>z DEF NewDestination, Places
  <2>6. Copying'
    BY <1>19, <2>z DEF NewDestination, Copying
  <2>7. FailedKeepsSource'
    BY <1>19, <2>z DEF NewDestination, FailedKeepsSource
  <2> QED
    BY <2>1, <2>2, <2>3, <2>4, <2>5, <2>6, <2>7 DEF Types
<1>20. CASE ReadAbandoned
  <2>1. dpc = "loop" => toDst = <<>>
    BY <1>20, OneMessage DEF ReadAbandoned, Dialogue, Receiving, Waits
  <2> QED
    BY <1>20, <2>1, FailStep DEF ReadAbandoned, Sending, Places
<1>21. ASSUME NEW p \in Pages, SendPage(p) PROVE IInv'
  <2>1. CASE Receiving
    <3>1. Control'
      BY <1>21, <2>1 DEF SendPage, Types, Control, SourcePcs, Commands, Waits
    <3>2. Socket'
      BY <1>21, <2>1 DEF SendPage, Types, Socket
    <3>3. Data'
      BY <1>21, <2>1 DEF SendPage, Types, Data, LastPass
    <3>4. Dialogue'
      BY <1>21, <2>1 DEF SendPage, Dialogue, Waits, Sending, Sent
    <3>5. Places'
      BY <1>21, <2>1 DEF SendPage, Places
    <3>6. Copying'
      BY <1>21, <2>1 DEF SendPage, Copying, Types, Data
    <3>7. FailedKeepsSource'
      BY <1>21, <2>1 DEF SendPage, FailedKeepsSource
    <3> QED
      BY <3>1, <3>2, <3>3, <3>4, <3>5, <3>6, <3>7 DEF Types
  <2>2. CASE ~Receiving
    BY <1>21, <2>2, FailStep DEF SendPage, Sending, Dialogue, Waits, Places, Receiving
  <2> QED
    BY <1>21, <2>1, <2>2 DEF SendPage
<1>22. ASSUME NEW c \in Commands, SendCommand(c) PROVE IInv'
  <2>1. CASE Receiving
    <3>a. /\ spc = c /\ toDst' = Append(toDst, c) /\ spc' = Waiting(c) /\ toDst = <<>> /\ toSrc = <<>>
          /\ UNCHANGED <<svm, local, pass, table, logging, dirty, mem, dpc, started, received,
                         dvm, dmem, toSrc, tries, moved>>
      BY <1>22, <2>1 DEF SendCommand, Commands, Dialogue, Waits, Sending
    <3>b. toDst' = <<c>>
      BY <3>a, OneMessage
    <3>c. spc' \in Waits /\ Sent' = c /\ spc' # "WaitMemory"
      BY <3>a DEF Commands, Waits, Waiting, Sent
    <3>1. Control'
      BY <3>a, <3>c DEF Types, Control, SourcePcs
    <3>2. Socket'
      BY <3>a, <3>b DEF Types, Socket, Requests
    <3>3. Data'
      BY <3>a DEF Types, Data, LastPass
    <3>4. Dialogue'
      BY <3>a, <3>b, <3>c DEF Dialogue, Sending, Waits, Commands
    <3>5. Places'
      BY <3>a, <3>b, OneMessage DEF Places, Commands, Waiting
    <3>6. Copying'
      BY <3>a, <3>b, OneMessage DEF Copying, Commands, Waiting, Places
    <3>7. FailedKeepsSource'
      BY <3>a, <3>c DEF FailedKeepsSource, Waits
    <3> QED
      BY <3>1, <3>2, <3>3, <3>4, <3>5, <3>6, <3>7 DEF Types
  <2>2. CASE ~Receiving
    BY <1>22, <2>2, FailStep DEF SendCommand, Commands, Receiving, Sending
  <2> QED
    BY <2>1, <2>2
<1>23. ASSUME NEW c \in Commands, ReadResponse(c) PROVE IInv'
  <2>1. CASE toSrc # <<>>
    <3>a. /\ spc = Waiting(c) /\ c # "Abandon" /\ toSrc' = Tail(toSrc)
          /\ spc' = IF Head(toSrc) = "Ok" THEN AfterOk(c) ELSE "Abandon"
          /\ UNCHANGED <<svm, local, pass, table, logging, dirty, mem, dpc, started, received,
                         dvm, dmem, toDst, tries, moved>>
      BY <1>23, <2>1 DEF ReadResponse
    <3>w. spc \in Waits
      BY <3>a DEF Commands, Waiting, Waits
    <3>r. toSrc = <<"Ok">> \/ toSrc = <<"Error">>
      BY <2>1 DEF Types, Socket, Responses
    <3>b. toSrc' = <<>> /\ toDst = <<>> /\ toSrc = <<Head(toSrc)>>
      BY <2>1, <3>a, <3>w, <3>r, OneMessage DEF Dialogue
    <3>c. spc' \in {"MemoryFd", "Config", "Pause", "StartLog", "Complete", "Completed", "Abandon"}
      BY <3>a DEF Commands, AfterOk
    <3>1. Control'
      BY <3>a, <3>c DEF Types, Control, SourcePcs, Commands
    <3>2. Socket'
      BY <3>a, <3>b DEF Types, Socket, Responses
    <3>3. Data'
      BY <3>a DEF Types, Data, LastPass
    <3>4. Dialogue'
      BY <3>a, <3>b, <3>c DEF Dialogue, Sending, Waits, Commands, Waiting
    <3>5. Places'
      BY <3>a, <3>b, <3>c DEF Places, Commands, Waiting, AfterOk
    <3>6. Copying'
      BY <3>a, <3>b, <3>c, OneMessage DEF Copying, Commands, Waiting, AfterOk, Types, Data
    <3>7. FailedKeepsSource'
      BY <3>a, <3>c DEF FailedKeepsSource
    <3> QED
      BY <3>1, <3>2, <3>3, <3>4, <3>5, <3>6, <3>7 DEF Types
  <2>2. CASE toSrc = <<>>
    BY <1>23, <2>2, FailStep DEF ReadResponse, Commands, Waiting, Receiving, Sending
  <2> QED
    BY <2>1, <2>2
<1>24. CASE ReadRequest
  BY <1>24, ReadRequestStep
<1>25. CASE UNCHANGED vars
  <2>1. Control'
    BY <1>25 DEF vars, Types, Control, SourcePcs, Commands, Waits
  <2>2. Socket'
    BY <1>25 DEF vars, Types, Socket
  <2>3. Data'
    BY <1>25 DEF vars, Types, Data, LastPass
  <2>4. Dialogue'
    BY <1>25 DEF vars, Dialogue, Waits, Sending, Sent
  <2>5. Places'
    BY <1>25 DEF vars, Places
  <2>6. Copying'
    BY <1>25 DEF vars, Copying
  <2>7. FailedKeepsSource'
    BY <1>25 DEF vars, FailedKeepsSource
  <2> QED
    BY <2>1, <2>2, <2>3, <2>4, <2>5, <2>6, <2>7 DEF Types
<1> QED
  BY <1>1, <1>2, <1>3, <1>4, <1>5, <1>6, <1>7, <1>8, <1>9, <1>10, <1>11, <1>12, <1>13, <1>14, <1>15, <1>16, <1>17, <1>18, <1>19, <1>20, <1>21, <1>22, <1>23, <1>24, <1>25
  DEF Next, Guest, Source, Dest

\* The inductive invariant holds in every reachable state of a migration, whatever
\* fails and whoever dies.
THEOREM Invariance == Spec => []IInv
<1>1. Init => IInv
  <2> SUFFICES ASSUME Init PROVE IInv
    OBVIOUS
  <2>1. Control
    BY DEF Init, Control, SourcePcs
  <2>2. Socket
    BY DEF Init, Socket, Requests, Responses
  <2>z. [p \in Pages |-> 0] \in [Pages -> 0 .. MaxWrites]
    BY BoundsAssumption
  <2>3. Data
    <3>1. 0 \in 0 .. LastPass /\ 0 \in 0 .. MaxTries
      BY BoundsAssumption, Passes
    <3> QED
      BY <2>z, <3>1 DEF Init, Data
  <2>4. Dialogue /\ Places /\ Copying /\ FailedKeepsSource
    BY DEF Init, Dialogue, Places, Copying, FailedKeepsSource, Sending, Waits
  <2> QED
    BY <2>1, <2>2, <2>3, <2>4 DEF IInv, Types
<1> QED
  BY <1>1, InductiveStep, PTL DEF Spec

\* Every variable of the two programs, their VMs and the socket keeps its type, and
\* the socket never holds two commands or two responses.
THEOREM TypeCorrect == Spec => []TypeOK
<1>1. IInv => TypeOK
  <2> SUFFICES ASSUME IInv PROVE TypeOK
    OBVIOUS
  <2>1. Len(toDst) <= 1 /\ Len(toSrc) <= 1
    <3>1. toDst = <<>> \/ \E c \in Commands \cup {"Memory"} : toDst = <<c>>
      BY DEF IInv, Types, Socket, Requests
    <3>2. toSrc = <<>> \/ toSrc = <<"Ok">> \/ toSrc = <<"Error">>
      BY DEF IInv, Types, Socket, Responses
    <3>3. Len(<<>>) <= 1 /\ \A c : Len(<<c>>) <= 1
      OBVIOUS
    <3>4. Len(toDst) <= 1
      BY <3>1, <3>3
    <3>5. Len(toSrc) <= 1
      BY <3>2, <3>3
    <3> QED
      BY <3>4, <3>5
  <2>2. {local, logging, started, received, moved} \subseteq BOOLEAN
    BY DEF IInv, Types, Data
  <2> QED
    BY <2>1, <2>2 DEF IInv, Types, Control, Data, TypeOK
<1> QED
  BY <1>1, Invariance, PTL

\* However the guest dirties pages while they are sent, and whatever fails: the
\* destination is told to complete when it has the memory of the paused source, a
\* migration that failed leaves the source running, and one that is done has left the
\* guest running at the destination.
THEOREM Outcome == Spec => []OutcomeIsSound
<1>1. IInv => OutcomeIsSound
  <2> SUFFICES ASSUME IInv PROVE OutcomeIsSound
    OBVIOUS
  <2>1. CompleteMemory
    <3> SUFFICES ASSUME spc \in {"State", "Complete", "WaitComplete"}, ~moved, ~local
                 PROVE  dmem = mem
      BY DEF CompleteMemory, GuestMemory
    <3>1. \A p \in Pages : dmem[p] = mem[p]
      BY DEF IInv, Copying
    <3> QED
      BY <3>1 DEF IInv, Types, Data
  <2>2. DoneIsMoved
    BY DEF IInv, Places, DoneIsMoved
  <2> QED
    BY <2>1, <2>2 DEF IInv, OutcomeIsSound
<1> QED
  BY <1>1, Invariance, PTL

-----------------------------------------------------------------------------
(* The handover.                                                           *)

\* When no step fails once the destination resumes, a guest that has moved stays.
LEMMA MovedStep ==
    ASSUME LateFailure = FALSE, IInv, MovedForGood, [Next]_vars
    PROVE  MovedForGood'
<1> USE DEF IInv, MovedForGood, dest, source
<1>1. CASE ~moved
  <2>1. CASE ReadRequest
    <3>a. PICK c \in Commands \cup {"Memory"} : toDst = <<c>>
      BY <2>1 DEF ReadRequest, Types, Socket, Requests
    <3>b. /\ dpc = "loop" /\ Handle(c) /\ moved' = (moved \/ dvm' = "Running")
          /\ UNCHANGED <<spc, svm>>
      BY <2>1, <3>a, OneMessage DEF ReadRequest
    <3>c. dvm' = "Running" => c = "Complete" /\ dpc' = "resumed"
      BY <3>b DEF Places, Handle, HandleStart, HandleConfig, HandleMemory, HandleState,
                  HandleComplete, HandleAbandon, Refuse, Unreadable, Commands
    <3>d. c = "Complete" => spc \in {"WaitComplete", "dead"}
      BY <3>a, <3>b, OneMessage DEF Dialogue, Types, Control, SourcePcs, Waits, Sending, Sent
    <3>e. c = "Complete" => svm # "Running"
      BY <1>1, <3>a, <3>b DEF Copying
    <3> QED
      BY <1>1, <3>b, <3>c, <3>d, <3>e
  <2>2. CASE ~ReadRequest
    <3>1. moved' = moved
      BY <2>2 DEF Next, Guest, Source, Dest, GuestWritesSource, GuestWritesDest, SendCommand,
          ReadResponse, ReadAbandoned, StartLog, SendTable, SendPage, SentPages,
          ReadMemoryResponse, DirtyLog, Pause, LastLog, StopLog, Snapshot, Completed, ReadEof,
          Close, AnswerComplete, SourceDies, DestDies, NewDestination, SendMigration, vars
    <3> QED
      BY <1>1, <3>1
  <2> QED
    BY <2>1, <2>2
<1>2. CASE moved
  <2> USE <1>2
  <2>1. CASE Guest
    BY <2>1 DEF Guest, GuestWritesSource, GuestWritesDest
  <2>2. ASSUME NEW c \in Commands, SendCommand(c) PROVE MovedForGood'
    BY <2>2 DEF SendCommand, Commands
  <2>3. ASSUME NEW c \in Commands, ReadResponse(c) PROVE MovedForGood'
    <3>1. c = "Complete"
      BY <2>3 DEF ReadResponse, Commands, Waiting
    <3>2. toSrc # <<>>
      BY <2>3, <3>1, OneMessage DEF ReadResponse, Waiting, Receiving
    <3>3. Head(toSrc) = "Ok"
      BY <2>3, <3>1, <3>2, OneMessage DEF ReadResponse, Waiting, Places
    <3> QED
      BY <2>3, <3>1, <3>2, <3>3, OneMessage DEF ReadResponse, Waiting, AfterOk, Places
  <2>4. CASE Completed
    BY <2>4 DEF Completed
  <2>5. CASE AnswerComplete
    BY <2>5, OneMessage DEF AnswerComplete, Respond, Sending, Places
  <2>6. CASE SourceDies
    BY <2>6 DEF SourceDies
  <2>7. CASE DestDies
    BY <2>7 DEF DestDies, Places
  <2>8. CASE UNCHANGED vars
    BY <2>8 DEF vars
  <2>9. CASE ReadRequest \/ ReadEof \/ Close
    BY <2>9 DEF ReadRequest, ReadEof, Close
  <2>10. CASE NewDestination
    BY <2>10 DEF NewDestination
  <2>11. ASSUME NEW l \in BOOLEAN, SendMigration(l) PROVE MovedForGood'
    BY <2>11 DEF SendMigration
  <2>12. ASSUME NEW p \in Pages, SendPage(p) PROVE MovedForGood'
    BY <2>12 DEF SendPage
  <2>13. CASE ReadAbandoned \/ StartLog \/ SendTable \/ SentPages \/ ReadMemoryResponse
              \/ DirtyLog \/ Pause \/ LastLog \/ StopLog \/ Snapshot
    BY <2>13 DEF ReadAbandoned, StartLog, SendTable, SentPages, ReadMemoryResponse,
                 DirtyLog, Pause, LastLog, StopLog, Snapshot
  <2> QED
    BY <2>1, <2>2, <2>3, <2>4, <2>5, <2>6, <2>7, <2>8, <2>9, <2>10, <2>11, <2>12, <2>13
    DEF Next, Source, Dest
<1> QED
  BY <1>1, <1>2 DEF Types, Data

\* A migration that fails before the guest has moved lets it run on at the source.
LEMMA FailRefines ==
    ASSUME IInv, ~moved, Fail, UNCHANGED <<dest, moved>>
    PROVE  [Abstract!Next]_(Abstract!vars)
<1>1. dvm # "Running" /\ dvm' = dvm /\ svm' = "Running" /\ mem' = mem
  BY DEF IInv, Places, Fail, dest
<1>2. CASE svm = "Running"
  BY <1>1, <1>2 DEF Abstract!vars, Runs
<1>3. CASE svm # "Running"
  <2>1. Abstract!Restart
    BY <1>1, <1>3 DEF Abstract!Restart, Runs
  <2> QED
    BY <2>1 DEF Abstract!Next
<1> QED
  BY <1>2, <1>3

\* Every step of a migration is one of the handover, or none.
LEMMA StepRefines ==
    ASSUME LateFailure = FALSE, IInv, MovedForGood, [Next]_vars
    PROVE  [Abstract!Next]_(Abstract!vars)
<1> USE DEF IInv, dest, source
<1>s. ASSUME UNCHANGED <<svm, dvm, moved, mem>>, moved => UNCHANGED <<local, dmem>>
      PROVE  [Abstract!Next]_(Abstract!vars)
  BY <1>s DEF Abstract!vars, Runs, GuestMemory
<1>1. ASSUME NEW p \in Pages, GuestWritesSource(p) PROVE [Abstract!Next]_(Abstract!vars)
  <2>1. ~moved /\ dvm # "Running" /\ svm = "Running"
    BY <1>1 DEF GuestWritesSource, MovedForGood, Places
  <2>2. Abstract!Write(p)
    BY <1>1, <2>1 DEF GuestWritesSource, Abstract!Write, Runs
  <2> QED
    BY <2>2 DEF Abstract!Next
<1>2. ASSUME NEW p \in Pages, GuestWritesDest(p) PROVE [Abstract!Next]_(Abstract!vars)
  <2>1. moved /\ svm # "Running" /\ dvm = "Running"
    BY <1>2 DEF GuestWritesDest, MovedForGood, Places
  <2>2. Abstract!Write(p)
    BY <1>2, <2>1 DEF GuestWritesDest, Abstract!Write, Runs, GuestMemory
  <2> QED
    BY <2>2 DEF Abstract!Next
<1>3. ASSUME NEW l \in BOOLEAN, SendMigration(l) PROVE [Abstract!Next]_(Abstract!vars)
  BY <1>3, <1>s DEF SendMigration, MovedForGood
<1>4. ASSUME NEW c \in Commands, SendCommand(c) PROVE [Abstract!Next]_(Abstract!vars)
  <2>1. ~moved
    BY <1>4 DEF SendCommand, MovedForGood, Commands
  <2>2. CASE Receiving
    BY <1>4, <2>2, <1>s DEF SendCommand
  <2>3. CASE ~Receiving
    BY <1>4, <2>1, <2>3, FailRefines DEF SendCommand
  <2> QED
    BY <2>2, <2>3
<1>5. ASSUME NEW c \in Commands, ReadResponse(c) PROVE [Abstract!Next]_(Abstract!vars)
  <2>1. CASE toSrc # <<>>
    BY <1>5, <2>1, <1>s DEF ReadResponse
  <2>2. CASE toSrc = <<>>
    <3>1. spc = Waiting(c) /\ ~Receiving /\ Fail /\ UNCHANGED <<dest, moved>>
      BY <1>5, <2>2 DEF ReadResponse
    <3>2. ~moved
      BY <2>2, <3>1, OneMessage DEF MovedForGood, Receiving, Commands, Waiting
    <3> QED
      BY <3>1, <3>2, FailRefines
  <2> QED
    BY <2>1, <2>2
<1>6. CASE ReadAbandoned
  BY <1>6, FailRefines DEF ReadAbandoned, MovedForGood
<1>7. CASE StartLog \/ SentPages \/ DirtyLog \/ LastLog \/ StopLog \/ ReadEof \/ Close
  BY <1>7, <1>s DEF StartLog, SentPages, DirtyLog, LastLog, StopLog, ReadEof, Close
<1>8. CASE SendTable
  <2>1. ~moved /\ dvm # "Running"
    BY <1>8 DEF SendTable, MovedForGood, Places
  <2>2. CASE Receiving
    BY <1>8, <2>2, <1>s DEF SendTable
  <2>3. CASE ~Receiving
    <3>1. Abstract!Stop
      BY <1>8, <2>1, <2>3 DEF SendTable, Abstract!Stop, Runs
    <3> QED
      BY <3>1 DEF Abstract!Next
  <2> QED
    BY <2>2, <2>3
<1>9. ASSUME NEW p \in Pages, SendPage(p) PROVE [Abstract!Next]_(Abstract!vars)
  <2>1. ~moved
    BY <1>9 DEF SendPage, MovedForGood
  <2>2. CASE Receiving
    BY <1>9, <2>1, <2>2, <1>s DEF SendPage
  <2>3. CASE ~Receiving
    BY <1>9, <2>1, <2>3, FailRefines DEF SendPage
  <2> QED
    BY <2>2, <2>3
<1>10. CASE ReadMemoryResponse
  <2>1. ~moved
    BY <1>10 DEF ReadMemoryResponse, MovedForGood
  <2>2. CASE toSrc # <<>>
    BY <1>10, <2>2, <1>s DEF ReadMemoryResponse
  <2>3. CASE toSrc = <<>>
    BY <1>10, <2>1, <2>3, FailRefines DEF ReadMemoryResponse
  <2> QED
    BY <2>2, <2>3
<1>11. CASE Pause
  <2>1. ~moved /\ dvm # "Running"
    BY <1>11 DEF Pause, MovedForGood, Places
  <2>2. CASE Fail
    BY <1>11, <2>1, <2>2, FailRefines DEF Pause
  <2>3. CASE ~Fail
    <3>1. Abstract!Stop
      BY <1>11, <2>1, <2>3 DEF Pause, Abstract!Stop, Runs
    <3> QED
      BY <3>1 DEF Abstract!Next
  <2> QED
    BY <2>2, <2>3
<1>12. CASE Snapshot
  <2>1. ~moved
    BY <1>12 DEF Snapshot, MovedForGood
  <2>2. CASE Fail
    BY <1>12, <2>1, <2>2, FailRefines DEF Snapshot
  <2>3. CASE ~Fail
    BY <1>12, <2>3, <1>s DEF Snapshot
  <2> QED
    BY <2>2, <2>3
<1>13. CASE Completed
  <2>1. svm = "Paused" /\ svm' = "Gone" /\ dvm = "Running" /\ UNCHANGED <<dvm, moved, mem, local, dmem>>
    BY <1>13 DEF Completed, Places
  <2> QED
    BY <2>1 DEF Abstract!vars, Runs, GuestMemory
<1>14. CASE ReadRequest
  <2>a. PICK c \in Commands \cup {"Memory"} : toDst = <<c>>
    BY <1>14 DEF ReadRequest, Types, Socket, Requests
  <2>b. /\ dpc = "loop" /\ Handle(c) /\ moved' = (moved \/ dvm' = "Running")
        /\ UNCHANGED <<spc, svm, mem, local, dmem>>
    BY <1>14, <2>a, OneMessage DEF ReadRequest
  <2>c. dvm # "Running" /\ ~moved
    BY <2>b DEF Places, MovedForGood
  <2>1. CASE dvm' = "Running"
    <3>1. c = "Complete"
      BY <2>1, <2>b, <2>c DEF Handle, HandleStart, HandleConfig, HandleMemory, HandleState,
                  HandleComplete, HandleAbandon, Refuse, Unreadable, Commands
    <3>2. svm # "Running" /\ (~local => \A p \in Pages : dmem[p] = mem[p])
      BY <2>a, <2>b, <2>c, <3>1 DEF Copying
    <3>3. GuestMemory = mem
      BY <3>2 DEF GuestMemory, Types, Data
    <3>4. Abstract!Move
      BY <2>1, <2>b, <2>c, <3>2, <3>3 DEF Abstract!Move, Runs, GuestMemory
    <3> QED
      BY <3>4 DEF Abstract!Next
  <2>2. CASE dvm' # "Running"
    BY <2>2, <2>b, <2>c DEF Abstract!vars, Runs, Types, Data
  <2> QED
    BY <2>1, <2>2
<1>15. CASE AnswerComplete
  BY <1>15, <1>s DEF AnswerComplete
<1>16. CASE SourceDies
  <2>1. CASE dvm = "Running"
    <3>1. svm # "Running"
      BY <2>1 DEF Places, MovedForGood
    <3> QED
      BY <1>16, <2>1, <3>1 DEF SourceDies, Abstract!vars, Runs, GuestMemory
  <2>2. CASE dvm # "Running"
    <3>1. Abstract!Stop
      BY <1>16, <2>2 DEF SourceDies, Abstract!Stop, Runs, GuestMemory
    <3> QED
      BY <3>1 DEF Abstract!Next
  <2> QED
    BY <2>1, <2>2
<1>17. CASE DestDies
  BY <1>17 DEF DestDies, Places, Abstract!vars, Runs, GuestMemory
<1>18. CASE NewDestination
  BY <1>18 DEF NewDestination, MovedForGood, Places, Abstract!vars, Runs, GuestMemory
<1>19. CASE UNCHANGED vars
  BY <1>19, <1>s DEF vars
<1> QED
  BY <1>1, <1>2, <1>3, <1>4, <1>5, <1>6, <1>7, <1>8, <1>9, <1>10, <1>11, <1>12, <1>13, <1>14,
     <1>15, <1>16, <1>17, <1>18, <1>19 DEF Next, Guest, Source, Dest

\* send_migration and vm_receive_migration hand the guest over, whatever fails before
\* the destination resumes it: it never runs on both sides, it runs on from the memory
\* it was paused with, and it does not come back to the source once it has run at the
\* destination.  With LateFailure it does run on both sides.
THEOREM HandsOver ==
    ASSUME LateFailure = FALSE
    PROVE  Spec => ImplementsHandover
<1>1. Init => MovedForGood
  BY DEF Init, MovedForGood
<1>2. IInv /\ MovedForGood /\ [Next]_vars => MovedForGood'
  BY MovedStep
<1>3. Init => Abstract!Init
  BY DEF Init, Abstract!Init, Runs
<1>4. IInv /\ MovedForGood /\ [Next]_vars => [Abstract!Next]_(Abstract!vars)
  BY StepRefines
<1> QED
  BY <1>1, <1>2, <1>3, <1>4, Invariance, PTL DEF Spec, ImplementsHandover, Abstract!Spec
=============================================================================

----------------------------- MODULE Migration ------------------------------
(***************************************************************************)
(* Live migration between two VMM processes over a Unix socket             *)
(* (vmm/src/lib.rs, vm-migration/src/protocol.rs): the source sends the    *)
(* commands Start, MemoryFd or Memory, Config, State, Complete and waits   *)
(* for the response to each; the guest runs and dirties pages until the    *)
(* source pauses it; either side may fail at any `?' and either process    *)
(* may die.                                                                *)
(***************************************************************************)
EXTENDS Naturals, Sequences, FiniteSets

CONSTANTS Pages,
          MaxDirtyMigrations, \* MAX_DIRTY_MIGRATIONS, 5 in the code
          MaxWrites,          \* bound on the writes of the guest
          MaxTries,           \* bound on the migrations attempted
          LateFailure         \* a step may fail once the destination resumes

ASSUME BoundsAssumption ==
    /\ MaxDirtyMigrations \in Nat /\ MaxWrites \in Nat /\ MaxTries \in Nat
    /\ LateFailure \in BOOLEAN

VARIABLES spc,      \* where send_migration is
          svm,      \* state of the VM at the source
          local,    \* VmSendMigrationData.local
          pass,     \* dirty passes made; LastPass when the VM is paused
          table,    \* pages of the table being sent
          logging,  \* dirty pages are logged
          dirty,    \* the dirty log
          mem,      \* memory of the source
          dpc,      \* where vm_receive_migration is
          started,  \* its local variable `started'
          received, \* its local variable `vm': configured, state not received
          dvm,      \* self.vm at the destination
          dmem,     \* memory of the destination
          toDst,    \* commands on the socket
          toSrc,    \* responses on the socket
          tries, moved

source == <<spc, svm, local, pass, table, logging, dirty, mem>>
dest == <<dpc, started, received, dvm, dmem>>
vars == <<source, dest, toDst, toSrc, tries, moved>>

LastPass == MaxDirtyMigrations + 1

\* send_migration is running, and its end of the socket is open.
Sending == spc \notin {"idle", "done", "failed", "panicked", "dead"}
\* vm_receive_migration is running, and its end of the socket is open.
Receiving == dpc \in {"loop", "closing", "resumed"}

Init ==
    /\ spc = "idle" /\ svm \in {"Running", "Paused"} /\ local = FALSE
    /\ pass = 0 /\ table = {} /\ logging = FALSE /\ dirty = {}
    /\ mem = [p \in Pages |-> 0]
    /\ dpc = "listen" /\ started = FALSE /\ received = FALSE /\ dvm = "none"
    /\ dmem = [p \in Pages |-> 0]
    /\ toDst = <<>> /\ toSrc = <<>>
    /\ tries = 0 /\ moved = FALSE

-----------------------------------------------------------------------------
(* The guest *)

\* A page is written at most MaxWrites times.
GuestWritesSource(p) ==
    /\ svm = "Running" /\ mem[p] < MaxWrites
    /\ mem' = [mem EXCEPT ![p] = @ + 1]
    /\ dirty' = IF logging THEN dirty \cup {p} ELSE dirty
    /\ UNCHANGED <<spc, svm, local, pass, table, logging, dest, toDst, toSrc, tries, moved>>

\* Local migration maps the memory of the source at the destination.
GuestMemory == IF local THEN mem ELSE dmem

GuestWritesDest(p) ==
    /\ dvm = "Running" /\ GuestMemory[p] < MaxWrites
    /\ IF local
       THEN mem' = [mem EXCEPT ![p] = @ + 1] /\ UNCHANGED dmem
       ELSE dmem' = [dmem EXCEPT ![p] = @ + 1] /\ UNCHANGED mem
    /\ UNCHANGED <<spc, svm, local, pass, table, logging, dirty,
                   dpc, started, received, dvm, toDst, toSrc, tries, moved>>

-----------------------------------------------------------------------------
(* The source *)

\* vm_send_migration: the destination listens and the socket connects.
SendMigration(l) ==
    /\ spc = "idle" /\ svm \in {"Running", "Paused"} /\ dpc = "listen"
    /\ tries < MaxTries /\ tries' = tries + 1
    /\ local' = l /\ pass' = 0
    /\ spc' = "Start"
    /\ dpc' = "loop"
    /\ UNCHANGED <<svm, table, logging, dirty, mem, started, received, dvm, dmem, toDst, toSrc, moved>>

\* send_migration returned an error: stop_dirty_log, and resume a VM that is
\* paused.
Fail ==
    /\ spc' = "failed" /\ logging' = FALSE /\ table' = {}
    /\ svm' = "Running"
    /\ UNCHANGED <<local, pass, dirty, mem>>

\* Commands without memory, in the order send_migration sends them.
Commands == {"Start", "MemoryFd", "Config", "State", "Complete", "Abandon"}

Waiting(c) ==
    CASE c = "Start" -> "WaitStart" [] c = "MemoryFd" -> "WaitMemoryFd"
      [] c = "Config" -> "WaitConfig" [] c = "State" -> "WaitState"
      [] c = "Complete" -> "WaitComplete" [] c = "Abandon" -> "WaitAbandon"

\* Request::write_to: an error when the destination has closed the socket.
SendCommand(c) ==
    /\ spc = c
    /\ IF Receiving
       THEN /\ toDst' = Append(toDst, c)
            /\ spc' = Waiting(c)
            /\ UNCHANGED <<svm, local, pass, table, logging, dirty, mem>>
       ELSE Fail /\ UNCHANGED toDst
    /\ UNCHANGED <<dest, toSrc, tries, moved>>

AfterOk(c) ==
    CASE c = "Start" -> IF local THEN "MemoryFd" ELSE "Config"
      [] c = "MemoryFd" -> "Config"
      [] c = "Config" -> IF local THEN "Pause" ELSE "StartLog"
      [] c = "State" -> "Complete"
      [] c = "Complete" -> "Completed"

\* Mutant: the end of the stream is not noticed.
ReadResponseOnly(c) ==
    /\ spc = Waiting(c) /\ c # "Abandon"
    /\ toSrc # <<>>
    /\ toSrc' = Tail(toSrc)
    /\ spc' = IF Head(toSrc) = "Ok" THEN AfterOk(c) ELSE "Abandon"
    /\ UNCHANGED <<svm, local, pass, table, logging, dirty, mem, dest, toDst, tries, moved>>

\* The response to a command: go on, or abandon; closed, fail.
ReadResponse(c) ==
    /\ spc = Waiting(c) /\ c # "Abandon"
    /\ IF toSrc # <<>>
       THEN /\ toSrc' = Tail(toSrc)
            /\ spc' = IF Head(toSrc) = "Ok" THEN AfterOk(c) ELSE "Abandon"
            /\ UNCHANGED <<svm, local, pass, table, logging, dirty, mem>>
       ELSE ~Receiving /\ Fail /\ UNCHANGED toSrc
    /\ UNCHANGED <<dest, toDst, tries, moved>>

\* The response to Abandon does not matter.
ReadAbandoned ==
    /\ spc = "WaitAbandon"
    /\ toSrc # <<>> \/ ~Receiving
    /\ toSrc' = <<>>
    /\ Fail
    /\ UNCHANGED <<dest, toDst, tries, moved>>

\* Mutant: logging starts when the whole memory has been sent.
StartLogLate ==
    /\ spc = "StartLog"
    /\ table' = Pages /\ spc' = "Memory"
    /\ UNCHANGED <<svm, local, pass, logging, dirty, mem, dest, toDst, toSrc, tries, moved>>

\* start_migration, start_dirty_log and the table of the whole memory.
StartLog ==
    /\ spc = "StartLog"
    /\ logging' = TRUE /\ dirty' = {}
    /\ table' = Pages /\ spc' = "Memory"
    /\ UNCHANGED <<svm, local, pass, mem, dest, toDst, toSrc, tries, moved>>

\* The request and the table of a Memory command.  Its write_to() is followed
\* by unwrap(): with the socket closed the thread panics, and with it the VMM.
SendTable ==
    /\ spc = "Memory"
    /\ IF Receiving
       THEN spc' = "Pages" /\ UNCHANGED <<svm, local, pass, table, logging, dirty, mem>>
       ELSE /\ spc' = "panicked" /\ svm' = "Gone"
            /\ UNCHANGED <<local, pass, table, logging, dirty, mem>>
    /\ UNCHANGED <<dest, toDst, toSrc, tries, moved>>

\* send_memory_regions: each page is copied as it is when it is sent.
SendPage(p) ==
    /\ spc = "Pages" /\ p \in table
    /\ IF Receiving
       THEN /\ dmem' = [dmem EXCEPT ![p] = mem[p]]
            /\ table' = table \ {p}
            /\ UNCHANGED <<spc, svm, local, pass, logging, dirty, mem>>
       ELSE Fail /\ UNCHANGED dmem
    /\ UNCHANGED <<dpc, started, received, dvm, toDst, toSrc, tries, moved>>

\* The last byte is on the socket; the destination can answer.
SentPages ==
    /\ spc = "Pages" /\ table = {}
    /\ spc' = "WaitMemory"
    /\ toDst' = Append(toDst, "Memory")
    /\ UNCHANGED <<svm, local, pass, table, logging, dirty, mem, dest, toSrc, tries, moved>>

ReadMemoryResponse ==
    /\ spc = "WaitMemory"
    /\ IF toSrc # <<>>
       THEN /\ toSrc' = Tail(toSrc)
            /\ spc' = IF Head(toSrc) # "Ok" THEN "Abandon"
                      ELSE IF pass = LastPass THEN "StopLog" ELSE "DirtyLog"
            /\ UNCHANGED <<svm, local, pass, table, logging, dirty, mem>>
       ELSE ~Receiving /\ Fail /\ UNCHANGED toSrc
    /\ UNCHANGED <<dest, toDst, tries, moved>>

\* One of at most MaxDirtyMigrations passes of vm_maybe_send_dirty_pages: the
\* dirty log is read and reset.
DirtyLog ==
    /\ spc = "DirtyLog"
    /\ IF pass = MaxDirtyMigrations
       THEN spc' = "Pause" /\ UNCHANGED <<pass, table, dirty>>
       ELSE /\ table' = dirty /\ dirty' = {}
            /\ IF dirty = {}
               THEN spc' = "Pause" /\ UNCHANGED pass
               ELSE spc' = "Memory" /\ pass' = pass + 1
    /\ UNCHANGED <<svm, local, logging, mem, dest, toDst, toSrc, tries, moved>>

\* vm.pause(): an error, with no effect, when the VM is paused already or
\* when the transition fails.
Pause ==
    /\ spc = "Pause"
    /\ \/ /\ svm = "Running" /\ svm' = "Paused"
          /\ spc' = IF local THEN "Snapshot" ELSE "LastLog"
          /\ UNCHANGED <<local, pass, table, logging, dirty, mem>>
       \/ Fail
    /\ UNCHANGED <<dest, toDst, toSrc, tries, moved>>

\* The last batch of dirty pages.
LastLog ==
    /\ spc = "LastLog"
    /\ table' = dirty /\ dirty' = {} /\ pass' = LastPass
    /\ spc' = IF dirty = {} THEN "StopLog" ELSE "Memory"
    /\ UNCHANGED <<svm, local, logging, mem, dest, toDst, toSrc, tries, moved>>

StopLog ==
    /\ spc = "StopLog"
    /\ logging' = FALSE
    /\ spc' = "Snapshot"
    /\ UNCHANGED <<svm, local, pass, table, dirty, mem, dest, toDst, toSrc, tries, moved>>

\* vm.snapshot() of the paused VM, or an error.
Snapshot ==
    /\ spc = "Snapshot"
    /\ \/ /\ spc' = "State"
          /\ UNCHANGED <<svm, local, pass, table, logging, dirty, mem>>
       \/ Fail
    /\ UNCHANGED <<dest, toDst, toSrc, tries, moved>>

\* complete_migration, then the exit event; its error is one more failure of
\* send_migration.
Completed ==
    /\ spc = "Completed"
    /\ \/ /\ spc' = "done" /\ svm' = "Gone"
          /\ UNCHANGED <<local, pass, table, logging, dirty, mem>>
       \/ LateFailure /\ Fail
    /\ UNCHANGED <<dest, toDst, toSrc, tries, moved>>

-----------------------------------------------------------------------------
(* The destination *)

\* A response is on the socket before the destination closes it; with the
\* source gone the write is an error, which ends the loop as well.
Respond(r, next) ==
    /\ toSrc' = IF Sending THEN Append(toSrc, r) ELSE toSrc
    /\ dpc' = IF Sending THEN next ELSE "failed"

HandleStart ==
    /\ started' = TRUE
    /\ Respond("Ok", "loop")
    /\ UNCHANGED <<received, dvm>>

\* Config, State, Memory and MemoryFd before Start, or State and Memory
\* before Config.
Refuse == Respond("Error", "loop") /\ UNCHANGED <<started, received, dvm>>

\* A request that cannot be read or used ends the loop without a response.
Unreadable == dpc' = "failed" /\ UNCHANGED <<started, received, dvm, toSrc>>

\* vm_receive_config: an incompatible CPUID or a VM that cannot be created
\* ends the loop without a response.
HandleConfig ==
    \/ /\ received' = TRUE
       /\ Respond("Ok", "loop")
       /\ UNCHANGED <<started, dvm>>
    \/ Unreadable

\* vm_receive_memory; a failure in the memory itself is answered.
HandleMemory ==
    \/ /\ Respond("Ok", "loop") \/ Respond("Error", "closing")
       /\ UNCHANGED <<started, received, dvm>>
    \/ Unreadable

\* Mutant: the restored VM starts at once.
HandleStateRuns ==
    /\ received' = FALSE
    /\ \/ dvm' = "Running" /\ Respond("Ok", "loop")
       \/ Respond("Error", "closing") /\ UNCHANGED dvm
    /\ UNCHANGED started

\* vm_receive_state: the restored VM is paused.
HandleState ==
    \/ /\ received' = FALSE
       /\ \/ dvm' = "Paused" /\ Respond("Ok", "loop")
          \/ Respond("Error", "closing") /\ UNCHANGED dvm
       /\ UNCHANGED started
    \/ Unreadable

\* Complete: resume, then answer.  A resume that fails once the vCPUs run
\* ends the loop without a response.
HandleComplete ==
    /\ \/ /\ dvm = "Paused" /\ dvm' = "Running"
          /\ dpc' = "resumed" \/ (LateFailure /\ dpc' = "failed")
          /\ UNCHANGED toSrc
       \/ dvm = "none" /\ Respond("Error", "closing") /\ UNCHANGED dvm
    /\ UNCHANGED <<started, received>>

HandleAbandon ==
    /\ dvm' = "none"
    /\ toSrc' = IF Sending THEN Append(toSrc, "Ok") ELSE toSrc
    /\ dpc' = "done"
    /\ UNCHANGED <<started, received>>

Handle(c) ==
    CASE c = "Start" -> HandleStart
      [] c = "MemoryFd" -> IF started THEN HandleStart ELSE Refuse
      [] c = "Config" -> IF started THEN HandleConfig ELSE Refuse
      [] c = "Memory" -> IF started /\ received THEN HandleMemory ELSE Refuse
      [] c = "State" -> IF started /\ received THEN HandleState ELSE Refuse
      [] c = "Complete" -> HandleComplete
      [] c = "Abandon" -> HandleAbandon

ReadRequest ==
    /\ dpc = "loop" /\ toDst # <<>>
    /\ toDst' = Tail(toDst)
    /\ Handle(Head(toDst))
    /\ moved' = (moved \/ dvm' = "Running")
    /\ UNCHANGED <<source, dmem, tries>>

\* The source has closed the socket and nothing is left to read.
ReadEof ==
    /\ dpc = "loop" /\ toDst = <<>> /\ ~Sending
    /\ dpc' = "failed"
    /\ UNCHANGED <<source, started, received, dvm, dmem, toDst, toSrc, tries, moved>>

\* The handler that answered with an error returns and the socket is closed;
\* the source may have written Abandon meanwhile.
Close ==
    /\ dpc = "closing"
    /\ dpc' = "failed"
    /\ UNCHANGED <<source, started, received, dvm, dmem, toDst, toSrc, tries, moved>>

AnswerComplete ==
    /\ dpc = "resumed"
    /\ Respond("Ok", "done")
    /\ UNCHANGED <<source, started, received, dvm, dmem, toDst, tries, moved>>

-----------------------------------------------------------------------------
(* Processes that die, and another attempt *)

SourceDies ==
    /\ Sending
    /\ spc' = "dead" /\ svm' = "Gone"
    /\ UNCHANGED <<local, pass, table, logging, dirty, mem, dest, toDst, toSrc, tries, moved>>

DestDies ==
    /\ dpc \in {"loop", "closing"} \/ (LateFailure /\ dpc = "resumed")
    /\ dpc' = "dead" /\ dvm' = "none"
    /\ UNCHANGED <<source, started, received, dmem, toDst, toSrc, tries, moved>>

\* The operator tries again with another destination.
NewDestination ==
    /\ spc = "failed" /\ ~Receiving /\ dvm # "Running" /\ tries < MaxTries
    /\ spc' = "idle"
    /\ dpc' = "listen" /\ started' = FALSE /\ received' = FALSE /\ dvm' = "none"
    /\ dmem' = [p \in Pages |-> 0]
    /\ toDst' = <<>> /\ toSrc' = <<>>
    /\ UNCHANGED <<svm, local, pass, table, logging, dirty, mem, tries, moved>>

Guest == \E p \in Pages : GuestWritesSource(p) \/ GuestWritesDest(p)

Source ==
    \/ \E c \in Commands : SendCommand(c) \/ ReadResponse(c)
    \/ ReadAbandoned \/ StartLog \/ SendTable
    \/ \E p \in Pages : SendPage(p)
    \/ SentPages \/ ReadMemoryResponse \/ DirtyLog \/ Pause \/ LastLog
    \/ StopLog \/ Snapshot \/ Completed

Dest == ReadRequest \/ ReadEof \/ Close \/ AnswerComplete

Next ==
    \/ Guest \/ Source \/ Dest \/ SourceDies \/ DestDies \/ NewDestination
    \/ \E l \in BOOLEAN : SendMigration(l)

Spec == Init /\ [][Next]_vars

\* Both VMM threads go on; nothing is assumed of the guest or the operator.
FairSpec == Spec /\ WF_vars(Source) /\ WF_vars(Dest)

-----------------------------------------------------------------------------
TypeOK ==
    /\ svm \in {"Running", "Paused", "Gone"} /\ dvm \in {"none", "Paused", "Running"}
    /\ dpc \in {"listen", "loop", "closing", "resumed", "done", "failed", "dead"}
    /\ pass \in 0 .. LastPass /\ tries \in 0 .. MaxTries
    /\ table \subseteq Pages /\ dirty \subseteq Pages
    /\ {local, logging, started, received, moved} \subseteq BOOLEAN
    /\ mem \in [Pages -> 0 .. MaxWrites] /\ dmem \in [Pages -> 0 .. MaxWrites]
    /\ Len(toDst) <= 1 /\ Len(toSrc) <= 1

\* Where the guest runs, for the abstract specification.
Runs ==
    CASE svm = "Running" /\ dvm = "Running" -> "both"
      [] svm = "Running" /\ dvm # "Running" -> "source"
      [] svm # "Running" /\ dvm = "Running" -> "destination"
      [] OTHER -> "nobody"

Abstract ==
    INSTANCE Handover WITH runs <- Runs, mem <- IF moved THEN GuestMemory ELSE mem

\* The guest runs in one place, on the memory it was paused with, and not at
\* the source once it has run at the destination: send_migration and
\* vm_receive_migration implement the handover.
ImplementsHandover == Abstract!Spec

\* A migration that fails leaves the VM running at the source with the dirty
\* log off, whichever step failed (the error path of vm_send_migration).
FailedKeepsSource == spc = "failed" => svm = "Running" /\ ~logging

\* "Now the destination VM is running while the source VM is terminated
\* gracefully."
DoneIsMoved == spc = "done" => svm = "Gone" /\ dvm = "Running"

\* The destination is only told to complete when its memory is the memory of
\* the paused source, however the guest dirtied pages while they were sent.
CompleteMemory == spc \in {"State", "Complete", "WaitComplete"} /\ ~moved => GuestMemory = mem

\* send_migration ends, with the destination alive or dead: it does not wait
\* for ever for a response.
MigrationEnds == Sending ~> ~Sending

\* vm_receive_migration ends, with the source alive or dead, and the VMM
\* thread of the destination serves its API again.
ReceiveEnds == dpc = "loop" ~> dpc # "loop"

\* How a migration may turn out: the destination completes with the memory of
\* the source and the source ends, or it fails and the source runs on.
OutcomeIsSound == CompleteMemory /\ FailedKeepsSource /\ DoneIsMoved

\* Both sides of a migration end it.
BothSidesEnd == MigrationEnds /\ ReceiveEnds
=============================================================================

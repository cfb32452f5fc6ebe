-------------------------------- MODULE Debug -------------------------------
(***************************************************************************)
(* Looking into a VM, in two independent parts: the GDB stub (GdbNew,      *)
(* GdbNext), and core dumps (DumpNew, DumpNext).                           *)
(***************************************************************************)
EXTENDS Integers, Sequences, FiniteSets, SequencesExt, TLC

CONSTANTS
    Vcpus,         \* 0 .. n - 1
    Stepped,       \* the vCPUs the debugger steps
    Prompt,        \* TRUE: no vCPU stops while the stub asks the VMM for something
    Detaches,      \* TRUE: the debugger leaves with a detach, never by just closing
    ApiOps,        \* what the API does meanwhile, a subset of {"pause", "resume"}
    MaxPc, MaxCommands, MaxApi,
    Layouts,       \* of the boot memory: sequences of [gpa, size], in the order of the zones
    Resizes,       \* what resizing does, a subset of {"grow", "shrink", "plug"}
    ElfNote, VmmNote,   \* units of the two notes
    Files, Faults, MaxVcpus, MaxOps

VARIABLES dev, guest, host

Now == [dev |-> dev, guest |-> guest, host |-> host]
Become(s) == dev' = s.dev /\ guest' = s.guest /\ host' = s.host

-----------------------------------------------------------------------------
(***************************************************************************)
(* Debugging a VM: the GDB stub thread (vmm/src/gdb.rs), the requests the  *)
(* VMM thread serves for it (vmm/src/lib.rs, vmm/src/vm.rs,                *)
(* vmm/src/cpu.rs), the debug registers of KVM                             *)
(* (hypervisor/src/kvm/mod.rs) and the vCPU threads that stop at them.     *)
(*                                                                         *)
(* dev is the VMM thread and what it shares with the others, guest the     *)
(* vCPUs and the memory, host the stub thread and the debugger.            *)
(***************************************************************************)

PageSize == 2
PageTable == 1 :> 2 @@ 2 :> 1      \* of the guest: virtual page to physical page
Memory == 0 .. 3 * PageSize - 1    \* physical addresses
Low(a, b) == IF a < b THEN a ELSE b

Request(op, cpu) == [op |-> op, cpu |-> cpu, addrs |-> {}, on |-> FALSE, at |-> 0]
NoReport == [why |-> "none", tid |-> 0]

GdbNew ==
    /\ dev = [state |-> "BreakPoint", pause_signalled |-> FALSE, event |-> 0, request |-> <<>>,
              busy |-> "none", reply |-> "none", api |-> 0]
    /\ guest = [at |-> [c \in Vcpus |-> "off"],
                regs |-> [c \in Vcpus |-> [rip |-> 0, high |-> 1, selector |-> 0, base |-> 1]],
                debug |-> [c \in Vcpus |-> [addrs |-> {}, singlestep |-> FALSE]],
                ran |-> [c \in Vcpus |-> 0], entered |-> FALSE, mem |-> [a \in Memory |-> a]]
    /\ host = [at |-> "stopped", todo |-> <<>>, then |-> "stopped", hw_breakpoints |-> <<>>,
               single_step |-> FALSE, stepping |-> 0, report |-> NoReport, data |-> <<>>,
               commands |-> 0]

-----------------------------------------------------------------------------
(* The vCPU threads.                                                       *)

\* The top of the loop: with a pause signalled the thread parks, else it goes to
\* KVM_RUN, where it keeps the lock of its vCPU.
LoopTop(c) ==
    /\ guest.at[c] = "top"
    /\ guest' = [guest EXCEPT !.at[c] = IF dev.pause_signalled THEN "parked" ELSE "guest",
                              !.entered = @ \/ (~dev.pause_signalled /\ host.at = "stopped")]
    /\ UNCHANGED <<dev, host>>

Unparked(c) ==
    /\ guest.at[c] = "parked"
    /\ ~dev.pause_signalled
    /\ guest' = [guest EXCEPT !.at[c] = "top"]
    /\ UNCHANGED <<dev, host>>

\* The guest executes one instruction; a breakpoint or a single step makes KVM_RUN
\* return VmExit::Debug, and the thread signals the pause itself.
Instruction(c) ==
    /\ guest.at[c] = "guest"
    /\ guest.regs[c].rip < MaxPc
    /\ LET pc == guest.regs[c].rip + 1
           hit == pc \in guest.debug[c].addrs \/ guest.debug[c].singlestep
       IN /\ hit /\ Prompt => host.at \in {"running", "gone"}
          /\ guest' = [guest EXCEPT !.regs[c].rip = pc, !.ran[c] = @ + 1,
                                    !.at[c] = IF hit THEN "top" ELSE @]
          /\ dev' = IF hit THEN [dev EXCEPT !.pause_signalled = TRUE, !.event = @ + c + 1] ELSE dev
    /\ UNCHANGED host

\* KVM_RUN returns for another reason, or the signal of a pause interrupts it.
OtherExit(c) ==
    /\ guest.at[c] = "guest"
    /\ guest' = [guest EXCEPT !.at[c] = "top"]
    /\ UNCHANGED <<dev, host>>

-----------------------------------------------------------------------------
(* Requests, served by the VMM thread.                                     *)

Free(c) == guest.at[c] # "guest"
Started == {c \in Vcpus : guest.at[c] # "off"}
vcpus_paused == dev.pause_signalled
Answer(s, r) == [s EXCEPT !.dev.request = <<>>, !.dev.busy = "none", !.dev.reply = r]

\* The debug registers of one vCPU: at most four addresses.
set_guest_debug(s, c, addrs, singlestep) ==
    IF Cardinality(addrs) > 4 THEN Answer(s, "err")
    ELSE Answer([s EXCEPT !.guest.debug[c] = [addrs |-> addrs, singlestep |-> singlestep]], "ok")

\* Mutant: the pause is noted, and the vCPUs are not stopped.
debug_pause_noted(s) == Answer([s EXCEPT !.dev.state = "BreakPoint"], "ok")

\* A pause that a vCPU has signalled already is only noted; otherwise the VM is
\* paused, which waits for its vCPUs.
debug_pause(s) ==
    IF vcpus_paused THEN Answer([s EXCEPT !.dev.state = "BreakPoint"], "ok")
    ELSE IF s.dev.state # "Running" THEN Answer(s, "err")
    ELSE [s EXCEPT !.dev.busy = "debug_pause", !.dev.pause_signalled = TRUE]

\* The first resume starts the vCPUs.
start_boot_vcpus(s) ==
    [s EXCEPT !.guest.at = [c \in Vcpus |-> IF @[c] = "off" THEN "top" ELSE @[c]]]

Resumed(s) ==
    [s EXCEPT !.dev.pause_signalled = FALSE, !.dev.state = "Running",
              !.guest.ran = [c \in Vcpus |-> 0]]

debug_resume(s) ==
    IF ~vcpus_paused
    THEN Answer([start_boot_vcpus(s) EXCEPT !.dev.state = "Running"], "ok")
    ELSE IF s.dev.state \in {"Paused", "BreakPoint"} THEN Answer(Resumed(s), "ok")
    ELSE Answer(s, "err")

\* Registers: GDB has only the low half of the flags, and selectors.
read_regs(c) == [rip |-> guest.regs[c].rip, selector |-> guest.regs[c].selector]

write_regs(s, c, regs) ==
    [s EXCEPT !.guest.regs[c].rip = regs.rip, !.guest.regs[c].selector = regs.selector]

\* The physical address of a virtual one; address 0 stands for itself when it is
\* not mapped, -1 is a failed translation.
translate_gva(v) ==
    CASE v \div PageSize \in DOMAIN PageTable -> PageTable[v \div PageSize] * PageSize + (v % PageSize)
      [] v = 0 -> 0
      [] OTHER -> -1

\* The physical addresses of an access, page by page; it fails at the first page
\* that is not mapped.
Pieces[v \in Nat, len \in Nat] ==
    LET paddr == translate_gva(v)
        n == Low(len, PageSize - (paddr % PageSize))
        piece == [i \in 1 .. n |-> paddr + i - 1]
    IN CASE len = 0 -> <<>>
         [] len > 0 /\ paddr < 0 -> <<-1>>
         [] OTHER -> piece \o Pieces[v + n, len - n]

Done(p) == IF -1 \in {p[i] : i \in DOMAIN p} THEN SubSeq(p, 1, Len(p) - 1) ELSE p

read_mem(s, v, len) ==
    LET p == Pieces[v, len]
    IN IF Done(p) = p THEN Answer([s EXCEPT !.host.data = [i \in DOMAIN p |-> s.guest.mem[p[i]]]], "ok")
       ELSE Answer(s, "err")

\* What was written before the page that fails stays written.
write_mem(s, v, len) ==
    LET p == Pieces[v, len]
        hit == {p[i] : i \in DOMAIN Done(p)}
    IN Answer([s EXCEPT !.guest.mem = [a \in Memory |-> IF a \in hit THEN 9 ELSE @[a]]],
              IF Done(p) = p THEN "ok" ELSE "err")

active_vcpus == IF Started = {} THEN Vcpus ELSE Started

debug_request(s, r) ==
    CASE r.op = "SetSingleStep" -> set_guest_debug(s, r.cpu, {}, r.on)
      [] r.op = "SetHwBreakPoint" -> set_guest_debug(s, r.cpu, r.addrs, FALSE)
      [] r.op = "Pause" -> debug_pause(s)
      [] r.op = "Resume" -> debug_resume(s)
      [] r.op = "ReadRegs" -> Answer(s, "ok")
      [] r.op = "WriteRegs" -> Answer(write_regs(s, r.cpu, [read_regs(r.cpu) EXCEPT !.rip = r.at]), "ok")
      [] r.op = "ReadMem" -> read_mem(s, r.at, 3)
      [] r.op = "WriteMem" -> write_mem(s, r.at, 3)

\* What concerns one vCPU takes its lock, and so waits until it is out of KVM_RUN.
Locks(r) == r.op \notin {"Pause", "Resume"}

Debug ==
    /\ dev.request # <<>> /\ dev.busy = "none"
    /\ LET r == dev.request[1]
       IN /\ Locks(r) => Free(r.cpu)
          /\ Become(debug_request(Now, r))

\* The pause has interrupted every vCPU.
PauseEnds ==
    /\ dev.busy \in {"debug_pause", "vm_pause"}
    /\ \A c \in Started : guest.at[c] = "parked"
    /\ Become(IF dev.busy = "debug_pause" THEN Answer([Now EXCEPT !.dev.state = "BreakPoint"], "ok")
              ELSE [Now EXCEPT !.dev.state = "Paused", !.dev.busy = "none"])

\* The API, between two requests of the stub.
Api ==
    /\ dev.busy = "none" /\ dev.request = <<>>
    /\ dev.api < MaxApi
    /\ \/ /\ "pause" \in ApiOps /\ dev.state = "Running"
          /\ dev' = [dev EXCEPT !.busy = "vm_pause", !.pause_signalled = TRUE, !.api = @ + 1]
          /\ UNCHANGED <<guest, host>>
       \/ /\ "resume" \in ApiOps /\ dev.state \in {"Paused", "BreakPoint"}
          /\ Become(Resumed([Now EXCEPT !.dev.api = @ + 1]))

-----------------------------------------------------------------------------
(* The stub thread.                                                        *)

\* The requests a command of the debugger makes, one after the other, and the
\* state of the stub once all are answered.
Ask(s, todo, then) == [s EXCEPT !.host.at = "asking", !.host.todo = todo, !.host.then = then]

vm_request ==
    /\ host.at = "asking" /\ host.todo # <<>>
    /\ dev.request = <<>> /\ dev.reply = "none"
    /\ dev' = [dev EXCEPT !.request = <<Head(host.todo)>>]
    /\ UNCHANGED <<guest, host>>

\* A refused Pause or Resume ends the session; another refusal is an error to the
\* debugger only.
Response ==
    /\ dev.reply # "none"
    /\ LET r == Head(host.todo)
           fatal == dev.reply = "err" /\ r.op \in {"Pause", "Resume", "SetSingleStep"}
           rest == IF dev.reply = "err" /\ host.then # "detached" THEN <<>> ELSE Tail(host.todo)
       IN host' = [host EXCEPT !.todo = rest,
                               !.single_step = IF r.op = "SetSingleStep" /\ dev.reply = "ok"
                                               THEN r.on ELSE @,
                               !.at = CASE fatal /\ host.then # "detached" -> "failed"
                                        [] rest = <<>> -> host.then
                                        [] OTHER -> @]
    /\ dev' = [dev EXCEPT !.reply = "none"]
    /\ UNCHANGED guest

Command(s) == [s EXCEPT !.host.commands = @ + 1, !.host.data = <<>>, !.host.report = NoReport]
Stopped == host.at = "stopped" /\ host.commands < MaxCommands

clear_resume_actions ==
    IF host.single_step THEN <<[Request("SetSingleStep", 0) EXCEPT !.on = FALSE]>> ELSE <<>>

\* The debugger names the thread to continue, or lets all continue.
set_resume_action_continue(c) == <<Request("Resume", c)>>
resume == <<Request("Resume", 0)>>

Continue ==
    /\ Stopped
    /\ \E named \in {<<>>} \cup {set_resume_action_continue(c) : c \in Vcpus} :
          Become(Ask(Command(Now),
                     clear_resume_actions \o named \o resume, "running"))

set_resume_action_step(c) ==
    <<[Request("SetSingleStep", c) EXCEPT !.on = TRUE], Request("Resume", c)>>

Step ==
    /\ Stopped
    /\ \E c \in Stepped :
          Become(Ask([Command(Now) EXCEPT !.host.stepping = c],
                     clear_resume_actions \o set_resume_action_step(c) \o resume, "running"))

SetOf(q) == {q[i] : i \in DOMAIN q}
SetHwBreakPoint(q) == <<[Request("SetHwBreakPoint", 0) EXCEPT !.addrs = SetOf(q)]>>

add_hw_breakpoint ==
    /\ Stopped
    /\ Len(host.hw_breakpoints) < 4
    /\ \E a \in 1 .. MaxPc :
          LET q == Append(host.hw_breakpoints, a)
          IN Become(Ask([Command(Now) EXCEPT !.host.hw_breakpoints = q], SetHwBreakPoint(q), "stopped"))

remove_hw_breakpoint ==
    /\ Stopped
    /\ \E i \in DOMAIN host.hw_breakpoints :
          LET q == SubSeq(host.hw_breakpoints, 1, i - 1)
                     \o SubSeq(host.hw_breakpoints, i + 1, Len(host.hw_breakpoints))
          IN Become(Ask([Command(Now) EXCEPT !.host.hw_breakpoints = q], SetHwBreakPoint(q), "stopped"))

read_registers ==
    Stopped /\ \E c \in active_vcpus : Become(Ask(Command(Now), <<Request("ReadRegs", c)>>, "stopped"))

write_registers ==
    Stopped /\ \E c \in Vcpus, a \in 0 .. MaxPc :
        Become(Ask(Command(Now), <<[Request("WriteRegs", c) EXCEPT !.at = a]>>, "stopped"))

read_addrs ==
    Stopped /\ \E v \in {0, 1, PageSize + 1} :
        Become(Ask(Command(Now), <<[Request("ReadMem", 0) EXCEPT !.at = v]>>, "stopped"))

write_addrs ==
    Stopped /\ \E v \in {0, 1, PageSize + 1} :
        Become(Ask(Command(Now), <<[Request("WriteMem", 0) EXCEPT !.at = v]>>, "stopped"))

\* The stub polls the event of the vCPUs, and pauses the VM when one stopped.
wait_for_stop_reason ==
    /\ host.at = "running" /\ dev.event > 0
    /\ Become(Ask([Now EXCEPT !.dev.event = 0,
                              !.host.report = IF host.single_step
                                              THEN [why |-> "DoneStep", tid |-> 0]
                                              ELSE [why |-> "HwBreak", tid |-> dev.event]],
                  <<Request("Pause", 0)>>, "stopped"))

\* The debugger interrupts the VM.
on_interrupt ==
    /\ host.at = "running" /\ host.commands < MaxCommands
    /\ Prompt => dev.event = 0
    /\ Become(Ask([Command(Now) EXCEPT !.host.report = [why |-> "Signal", tid |-> 0]],
                  <<Request("Pause", 0)>>, "stopped"))

\* Mutant: the stub leaves the single step and the breakpoints behind.
Disconnect_unclean == <<Request("Resume", 0)>>

Disconnect ==
    <<[Request("SetSingleStep", 0) EXCEPT !.on = FALSE]>> \o SetHwBreakPoint(<<>>)
        \o <<Request("Resume", 0)>>

gdb_thread ==
    \/ /\ host.at = "stopped"
       /\ Become(Ask([Now EXCEPT !.host.report = NoReport], Disconnect, "detached"))
    \/ /\ ~Detaches /\ host.at \in {"stopped", "running"}
       /\ host' = [host EXCEPT !.at = "failed"]
       /\ UNCHANGED <<dev, guest>>

GdbNext ==
    \/ \E c \in Vcpus : LoopTop(c) \/ Unparked(c) \/ Instruction(c) \/ OtherExit(c)
    \/ Debug \/ PauseEnds \/ Api
    \/ vm_request \/ Response
    \/ Continue \/ Step \/ add_hw_breakpoint \/ remove_hw_breakpoint
    \/ read_registers \/ write_registers \/ read_addrs \/ write_addrs
    \/ wait_for_stop_reason \/ on_interrupt \/ gdb_thread

GdbSpec == GdbNew /\ [][GdbNext]_<<dev, guest, host>>

-----------------------------------------------------------------------------
(* Properties.                                                             *)

\* A stop is where the debugger is told: at a breakpoint of the vCPU named, or one
\* instruction after the step began.
StopIsTrue ==
    host.at = "stopped" =>
        /\ host.report.why = "HwBreak" =>
              /\ host.report.tid - 1 \in Vcpus
              /\ guest.regs[host.report.tid - 1].rip \in guest.debug[host.report.tid - 1].addrs
        /\ host.report.why = "DoneStep" => guest.ran[host.stepping] = 1

\* While the debugger has the VM stopped no vCPU goes back to the guest, and no
\* answer of the VMM makes the stub give up.
StoppedStaysStopped == ~guest.entered /\ host.at # "failed"

\* A debugger that has detached leaves a VM that runs and that nothing will stop.
DetachedIsClean ==
    host.at = "detached" /\ dev.api = 0 =>
        /\ dev.state = "Running" /\ ~dev.pause_signalled
        /\ \A c \in Vcpus : guest.debug[c] = [addrs |-> {}, singlestep |-> FALSE]

\* What the debugger reads is what the guest would read at these addresses, and
\* what it cannot see of the registers survives its writes.
DebuggerSeesGuest ==
    /\ \A c \in Vcpus : guest.regs[c].high = 1 /\ guest.regs[c].base = 1
    /\ \A v \in Memory : LET p == Pieces[v, 3] IN
          Done(p) = p => \A i \in DOMAIN p : p[i] = IF v = 0 /\ i <= PageSize THEN i - 1
                                                   ELSE translate_gva(v + i - 1)

DebuggerIsRight == StopIsTrue /\ StoppedStaysStopped /\ DetachedIsClean /\ DebuggerSeesGuest

-----------------------------------------------------------------------------
(***************************************************************************)
(* A core dump of a paused VM: the layout of the ELF file                  *)
(* (vmm/src/coredump.rs, vmm/src/vm.rs), the notes of the vCPUs            *)
(* (vmm/src/cpu.rs) and the memory (vmm/src/memory_manager.rs), for a VM   *)
(* that is resized before.                                                 *)
(*                                                                         *)
(* dev is the VM, guest the regions of its memory, host the files.  A file *)
(* is a sequence of units: a header, a program header and a page take one, *)
(* a note takes what its kind does.                                        *)
(***************************************************************************)

Ehdr == 1
Phdr == 1
PagesOf(m) == m.gpa .. m.gpa + m.size - 1
NoFile == <<>>

DumpNew ==
    /\ \E l \in Layouts :
          /\ dev = [state |-> "Running", boot_vcpus |-> 1, vcpus |-> 1, guest_ram_mappings |-> l,
                    ops |-> 0]
          /\ guest = [zone |-> l]
    /\ host = [files |-> [f \in Files |-> NoFile], whole |-> [f \in Files |-> FALSE],
               answer |-> "none"]

-----------------------------------------------------------------------------
(* The VM.                                                                 *)

Op(s) == [s EXCEPT !.dev.ops = @ + 1]
More == dev.ops < MaxOps

vm_pause == More /\ dev.state = "Running" /\ Become([Op(Now) EXCEPT !.dev.state = "Paused"])
vm_resume == More /\ dev.state = "Paused" /\ Become([Op(Now) EXCEPT !.dev.state = "Running"])

\* The vCPUs created stay when fewer are wanted; the configuration follows.
resize_vcpus ==
    /\ More
    /\ \E n \in 1 .. MaxVcpus :
          /\ n > dev.boot_vcpus => "grow" \in Resizes
          /\ n < dev.boot_vcpus => "shrink" \in Resizes
          /\ Become([Op(Now) EXCEPT !.dev.boot_vcpus = n,
                                    !.dev.vcpus = IF n > @ THEN n ELSE @])

\* Memory added at the end of what there is.
hotplug_ram_region ==
    /\ More
    /\ "plug" \in Resizes
    /\ LET end == FoldLeft(LAMBDA e, m : IF m.gpa + m.size > e THEN m.gpa + m.size ELSE e, 0, guest.zone)
           m == [gpa |-> end, size |-> 1]
       IN Become([Op(Now) EXCEPT !.dev.guest_ram_mappings = Append(@, m), !.guest.zone = Append(@, m)])

-----------------------------------------------------------------------------
(* The dump.                                                               *)

get_note_size(kind, n) ==
    n * CASE kind = "Elf" -> ElfNote [] kind = "Vmm" -> VmmNote [] kind = "ElfAndVmm" -> ElfNote + VmmNote

\* Mutant: the program header of the notes is forgotten.
coredump_get_mem_offset_loads(phdrs, notes) == Ehdr + notes + Phdr * (phdrs - 1)

coredump_get_mem_offset(phdrs, notes) == Ehdr + notes + Phdr * phdrs

\* The place of each mapping in the file: by address.
coredump_memory_regions(offset) ==
    LET sorted == SortSeq(dev.guest_ram_mappings, LAMBDA a, b : a.gpa < b.gpa)
        before(i) == FoldLeft(LAMBDA n, m : n + m.size, 0, SubSeq(sorted, 1, i - 1))
    IN [i \in DOMAIN sorted |-> [gpa |-> sorted[i].gpa, size |-> sorted[i].size,
                                 offset |-> offset + before(i)]]

get_dump_state ==
    LET notes == get_note_size("ElfAndVmm", dev.boot_vcpus)
        phdrs == 1 + Len(dev.guest_ram_mappings)
        offset == coredump_get_mem_offset(phdrs, notes)
    IN [elf_note_size |-> notes, elf_phdr_num |-> phdrs, mem_offset |-> offset,
        mem_info |-> coredump_memory_regions(offset)]

\* The units of the file.
Unit(what, id, at, size) == [what |-> what, id |-> id, at |-> at, size |-> size]
Units(what, id, n) == [i \in 1 .. n |-> Unit(what, id, i, n)]

write_header(d) == <<Unit("header", d.elf_phdr_num, 0, 0)>>
write_note(d) == <<Unit("PT_NOTE", 0, d.mem_offset - d.elf_note_size, d.elf_note_size)>>
write_load(l) == <<Unit("PT_LOAD", l.gpa, l.offset, l.size)>>
write_loads(d) == FlattenSeq([i \in DOMAIN d.mem_info |-> write_load(d.mem_info[i])])

cpu_write_elf64_note(n) == FlattenSeq([i \in 1 .. n |-> Units("elf note", i - 1, get_note_size("Elf", 1))])
cpu_write_vmm_note(n) == FlattenSeq([i \in 1 .. n |-> Units("vmm note", i - 1, get_note_size("Vmm", 1))])

\* The memory, in the order of the zones.
coredump_iterate_save_mem(zone) ==
    FlattenSeq([i \in DOMAIN zone |-> [k \in 1 .. zone[i].size |-> Unit("page", zone[i].gpa + k - 1, 0, 1)]])

Parts(d) ==
    <<write_header(d), write_note(d), write_loads(d), cpu_write_elf64_note(dev.vcpus),
      cpu_write_vmm_note(dev.vcpus), coredump_iterate_save_mem(guest.zone)>>

MayDump == dev.state = "Paused"

\* Each part is appended to a file that did not exist; a part that fails leaves the
\* ones before it.
coredump(f) ==
    /\ More
    /\ \/ /\ ~MayDump
          /\ Become([Op(Now) EXCEPT !.host.answer = "running"])
       \/ /\ MayDump /\ host.files[f] # NoFile
          /\ Become([Op(Now) EXCEPT !.host.answer = "exists"])
       \/ /\ MayDump /\ host.files[f] = NoFile
          /\ LET parts == Parts(get_dump_state)
             IN \/ Become([Op(Now) EXCEPT !.host.files[f] = FlattenSeq(parts), !.host.answer = "ok",
                                          !.host.whole[f] = TRUE])
                \/ /\ "write" \in Faults
                   /\ \E n \in 1 .. Len(parts) - 1 :
                         Become([Op(Now) EXCEPT !.host.files[f] = FlattenSeq(SubSeq(parts, 1, n)),
                                                !.host.answer = "failed"])

DumpNext ==
    \/ vm_pause \/ vm_resume \/ resize_vcpus \/ hotplug_ram_region
    \/ \E f \in Files : coredump(f)

DumpSpec == DumpNew /\ [][DumpNext]_<<dev, guest, host>>

-----------------------------------------------------------------------------
(* Properties.                                                             *)

\* Units a debugger finds at an offset of the file.
At(file, offset, n) == SubSeq(file, offset + 1, offset + n)
Loads(file) == {i \in DOMAIN file : file[i].what = "PT_LOAD"}
Notes(file) == {i \in DOMAIN file : file[i].what = "PT_NOTE"}

\* A dump that is reported done shows every page at its address, nothing else in a
\* segment, and the notes are whole and nothing but notes.
DumpIsReadable ==
    \A f \in Files : host.whole[f] =>
        LET file == host.files[f] IN
        /\ Cardinality(Loads(file) \cup Notes(file)) = file[1].id
        /\ \A i \in Loads(file) :
              At(file, file[i].at, file[i].size)
                = [k \in 1 .. file[i].size |-> Unit("page", file[i].id + k - 1, 0, 1)]
        /\ \A i \in Notes(file) :
              LET notes == At(file, file[i].at, file[i].size) IN
              /\ \A u \in ToSet(notes) : u.what \in {"elf note", "vmm note"}
              /\ Cardinality({u.id : u \in ToSet(notes)}) * (ElfNote + VmmNote) = Len(notes)
        /\ Len(file) = 1 + file[1].id + FoldLeft(LAMBDA n, u : n + u.size, 0,
                                          SelectSeq(file, LAMBDA u : u.what \in {"PT_NOTE", "PT_LOAD"}))

=============================================================================

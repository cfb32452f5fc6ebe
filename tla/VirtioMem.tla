------------------------------ MODULE VirtioMem ------------------------------
(***************************************************************************)
(* virtio-mem (virtio-devices/src/mem.rs): the worker that plugs and       *)
(* unplugs blocks for the driver, the resize handshake with the VMM        *)
(* thread, and the DMA mappings that passed-through devices hold on the    *)
(* plugged blocks.  Sizes are numbers of blocks, addresses are relative to *)
(* the region.  The VMM thread answers requests and activates devices, so  *)
(* it does neither while it waits for a resize.                            *)
(***************************************************************************)
EXTENDS Integers, Sequences, FiniteSets

CONSTANTS
    Region,         \* blocks of the region
    CountWidth,     \* width of the block count of set_range (a u16)
    Sources,        \* VirtioMemMappingSources
    DmaFails,       \* a DMA map or unmap may fail
    Pauses,         \* the VM may be paused
    Resets          \* bound: driver resets

VARIABLES dev, guest, host

memVars == <<dev, guest, host>>

Blocks == 0..(Region - 1)
Range(first, n) == {b \in Blocks : first <= b /\ b < first + n}

\* dev: the device and its worker; host: the VMM thread, what the memory
\* manager remembers, and the mappings of each source.
TypeOK ==
    /\ dev \in [requested : 0..Region, plugged : Nat, blocks : SUBSET Blocks,
                handlers : SUBSET Sources, activated : BOOLEAN, want : 0..(Region + 1),
                evt : BOOLEAN, answers : Seq(BOOLEAN),
                worker : {"none", "run", "parked"}]
    /\ host \in [vmm : {"idle", "resize"}, zone : 0..Region, paused : BOOLEAN,
                 mapped : [Sources -> SUBSET Blocks], leaving : SUBSET Sources]
    /\ guest.resets \in 0..Resets

\* Mem::new with an initial size, before the driver has set the device up.
New ==
    /\ \E size \in 0..Region :
        /\ dev = [requested |-> size, plugged |-> 0, blocks |-> {}, handlers |-> {},
                  activated |-> FALSE, want |-> size, evt |-> FALSE, answers |-> <<>>,
                  worker |-> "none"]
        /\ host = [vmm |-> "idle", zone |-> size, paused |-> FALSE,
                   mapped |-> [s \in Sources |-> {}], leaving |-> {}]
    /\ guest = [req |-> <<>>, resp |-> "none", resets |-> 0]

-----------------------------------------------------------------------------
(* The VMM thread.                                                         *)

\* Resize::work, up to the wait for the worker's answer; refused when the
\* driver is not there.
ResizeWork(size) ==
    /\ host.vmm = "idle"
    /\ dev.activated
    /\ dev' = [dev EXCEPT !.want = size, !.evt = TRUE]
    /\ host' = [host EXCEPT !.vmm = "resize"]
    /\ UNCHANGED guest

\* MemoryManager::virtio_mem_resize records the size when the answer is Ok.
ResizeAnswered ==
    /\ host.vmm = "resize" /\ dev.answers # <<>>
    /\ dev' = [dev EXCEPT !.answers = Tail(@)]
    /\ host' = [host EXCEPT !.vmm = "idle",
                            !.zone = IF Head(dev.answers) THEN dev.want ELSE @]
    /\ UNCHANGED guest

\* Mutant: a source that comes late gets no mapping for what is plugged.
AddDmaMappingHandlerLate(s) ==
    /\ host.vmm = "idle" /\ host.leaving = {} /\ s \notin dev.handlers
    /\ dev' = [dev EXCEPT !.handlers = @ \cup {s}]
    /\ host' = [host EXCEPT !.mapped[s] = {}]
    /\ UNCHANGED guest

\* add_dma_mapping_handler holds the config lock, which the worker needs to
\* change a block; a mapping that fails leaves the earlier ones.  The source
\* is a new object and starts without mappings.
AddDmaMappingHandler(s) ==
    /\ host.vmm = "idle" /\ host.leaving = {} /\ s \notin dev.handlers
    /\ LET known == IF dev.plugged > 0 THEN dev.blocks ELSE {} IN
       \/ /\ host' = [host EXCEPT !.mapped[s] = known]
          /\ dev' = [dev EXCEPT !.handlers = @ \cup {s}]
       \/ /\ DmaFails /\ known # {}
          /\ \E done \in (SUBSET known) \ {known} :
                host' = [host EXCEPT !.mapped[s] = done]
          /\ UNCHANGED dev
    /\ UNCHANGED guest

\* remove_dma_mapping_handler, on the vCPU that ejects the source: it takes the
\* handler out of the map, and only then the config lock under which it unmaps
\* what is plugged by now.  The device manager's lock keeps others out.
RemoveDmaMappingHandler(s) ==
    /\ host.leaving = {} /\ s \in dev.handlers
    /\ dev' = [dev EXCEPT !.handlers = @ \ {s}]
    /\ host' = [host EXCEPT !.leaving = {s}]
    /\ UNCHANGED guest

\* An unmap of a block that was never mapped fails, and the rest stays.
UnmapLeaving(s) ==
    /\ s \in host.leaving
    /\ LET known == IF dev.plugged > 0 THEN dev.blocks ELSE {} IN
       \E done \in SUBSET known :
          /\ done = known \/ DmaFails \/ ~ known \subseteq host.mapped[s]
          /\ done \subseteq host.mapped[s]
          /\ host' = [host EXCEPT !.leaving = {}, !.mapped[s] = @ \ done]
    /\ UNCHANGED <<dev, guest>>

\* The worker parks when it has been told; a resume lets it go.
PauseVm ==
    /\ Pauses /\ host.vmm = "idle" /\ ~ host.paused
    /\ host' = [host EXCEPT !.paused = TRUE]
    /\ dev' = [dev EXCEPT !.worker = IF @ = "run" THEN "parked" ELSE @]
    /\ UNCHANGED guest
ResumeVm ==
    /\ host.vmm = "idle" /\ host.paused
    /\ host' = [host EXCEPT !.paused = FALSE]
    /\ dev' = [dev EXCEPT !.worker = IF @ = "parked" THEN "run" ELSE @]
    /\ UNCHANGED guest

\* The driver has set the device up, and the VMM thread activates it.
Activate ==
    /\ host.vmm = "idle" /\ ~ host.paused /\ dev.worker = "none"
    /\ dev' = [dev EXCEPT !.worker = "run", !.activated = TRUE]
    /\ UNCHANGED <<guest, host>>

-----------------------------------------------------------------------------
(* The driver, on a vCPU: one request at a time.                           *)

DriverRequest(op, first, n) ==
    /\ dev.activated /\ ~ host.paused /\ guest.req = <<>>
    /\ guest' = [guest EXCEPT !.req = <<[op |-> op, first |-> first, n |-> n]>>,
                              !.resp = "none"]
    /\ UNCHANGED <<dev, host>>

\* reset ends and joins the worker; what was plugged stays plugged.
DriverReset ==
    /\ ~ host.paused /\ guest.resets < Resets /\ dev.worker = "run"
    /\ guest' = [guest EXCEPT !.req = <<>>, !.resets = @ + 1]
    /\ dev' = [dev EXCEPT !.worker = "none", !.activated = FALSE]
    /\ UNCHANGED host

-----------------------------------------------------------------------------
(* The worker.                                                             *)

\* VirtioMemConfig::resize.
config_resize_ok(size) == size # dev.requested /\ size <= Region

\* Mutant: a size that is refused is not answered.
ResizeEventSilent ==
    /\ dev.worker = "run" /\ dev.evt
    /\ dev' = [dev EXCEPT !.evt = FALSE,
                          !.requested = IF config_resize_ok(dev.want) THEN dev.want ELSE @,
                          !.answers = IF config_resize_ok(dev.want) THEN Append(@, TRUE) ELSE @]
    /\ UNCHANGED <<guest, host>>

\* RESIZE_EVENT; the config interrupt does not fail.
ResizeEvent ==
    /\ dev.worker = "run" /\ dev.evt
    /\ dev' = [dev EXCEPT !.evt = FALSE,
                          !.requested = IF config_resize_ok(dev.want) THEN dev.want ELSE @,
                          !.answers = Append(@, config_resize_ok(dev.want))]
    /\ UNCHANGED <<guest, host>>

\* The end of the range must be below the end of the region, so the last
\* block is never valid.
is_valid_range(first, n) == n > 0 /\ first + n < Region
is_range_state(first, n, plug) == \A b \in Range(first, n) : (b \in dev.blocks) = plug

Respond(resp) == guest' = [guest EXCEPT !.req = <<>>, !.resp = resp]

\* state_change_request: the blocks change state before the mappings do, and
\* plugged_size after them; a mapping that fails returns in between.
StateChange(r, plug) ==
    LET range == Range(r.first, r.n)
        blocks == IF plug THEN dev.blocks \cup range ELSE dev.blocks \ range
        Mapped(done) == [s \in Sources |->
            IF s \notin dev.handlers THEN host.mapped[s]
            ELSE IF plug THEN host.mapped[s] \cup done[s] ELSE host.mapped[s] \ done[s]] IN
    CASE plug /\ dev.plugged + r.n > dev.requested ->
            Respond("NACK") /\ UNCHANGED <<dev, host>>
      [] ~ (plug /\ dev.plugged + r.n > dev.requested) /\
         (~ is_valid_range(r.first, r.n) \/ ~ is_range_state(r.first, r.n, ~ plug)) ->
            Respond("ERROR") /\ UNCHANGED <<dev, host>>
      [] OTHER ->
         \/ /\ Respond("ACK")
            /\ dev' = [dev EXCEPT !.blocks = blocks,
                                  !.plugged = IF plug THEN @ + r.n ELSE @ - r.n]
            /\ host' = [host EXCEPT !.mapped = Mapped([s \in Sources |-> range])]
         \/ /\ DmaFails /\ dev.handlers # {}
            /\ Respond("ERROR")
            /\ dev' = [dev EXCEPT !.blocks = blocks]
            /\ \E done \in [Sources -> SUBSET range] :
                  /\ \E s \in dev.handlers : done[s] # range
                  /\ host' = [host EXCEPT !.mapped = Mapped(done)]

\* unplug_all clears a number of blocks cut to CountWidth bits.
UnplugAll ==
    \/ /\ Respond("ACK")
       /\ dev' = [dev EXCEPT !.plugged = 0, !.blocks = @ \ Range(0, Region % 2^CountWidth)]
       /\ host' = [host EXCEPT !.mapped = [s \in Sources |->
              IF s \in dev.handlers /\ dev.plugged > 0 THEN @[s] \ dev.blocks ELSE @[s]]]
    \/ /\ DmaFails /\ dev.handlers # {} /\ dev.plugged > 0
       /\ Respond("ERROR")
       /\ \E s \in dev.handlers : \E done \in (SUBSET dev.blocks) \ {dev.blocks} :
              host' = [host EXCEPT !.mapped[s] = @ \ done]
       /\ UNCHANGED dev

\* state_request changes nothing; the state it answers with is not kept.
StateRequest(r) ==
    /\ Respond(IF is_valid_range(r.first, r.n) THEN "ACK" ELSE "ERROR")
    /\ UNCHANGED <<dev, host>>

ProcessQueue ==
    /\ dev.worker = "run" /\ guest.req # <<>>
    /\ LET r == Head(guest.req) IN
       CASE r.op = "PLUG" -> StateChange(r, TRUE)
         [] r.op = "UNPLUG" -> StateChange(r, FALSE)
         [] r.op = "UNPLUG_ALL" -> UnplugAll
         [] r.op = "STATE" -> StateRequest(r)

Next ==
    \/ \E size \in 0..(Region + 1) : ResizeWork(size)
    \/ ResizeAnswered
    \/ \E s \in Sources :
        AddDmaMappingHandler(s) \/ RemoveDmaMappingHandler(s) \/ UnmapLeaving(s)
    \/ PauseVm \/ ResumeVm \/ Activate \/ DriverReset
    \/ \E first \in Blocks, n \in 1..Region :
        \E op \in {"PLUG", "UNPLUG", "STATE"} : DriverRequest(op, first, n)
    \/ DriverRequest("UNPLUG_ALL", 0, 0)
    \/ ResizeEvent \/ ProcessQueue

Spec == New /\ [][Next]_memVars

-----------------------------------------------------------------------------
(* Properties.                                                             *)

\* A device that shares the guest's memory for DMA can reach every plugged
\* block and no other, whether it came before or after the blocks
\* (add_dma_mapping_handler, state_change_request, unplug_all).
DmaSeesPlugged ==
    /\ dev.plugged = Cardinality(dev.blocks)
    /\ \A s \in dev.handlers : host.mapped[s] = dev.blocks

\* What the memory manager keeps for a reboot or a migration is what the
\* driver has been asked for (virtio_mem_resize, RESIZE_EVENT).
ZoneMatchesDevice == host.vmm # "resize" /\ ~ dev.evt => host.zone = dev.requested

\* "request to unplug all blocks" (mem.rs): once acknowledged none is
\* plugged.  It does not hold for a region of 2^CountWidth blocks, whose count
\* is cut to zero.
UnplugAllUnplugs == dev.plugged = 0 => dev.blocks = {}

\* A resize always comes back (Resize::work).  It does not when the driver
\* resets the device, or the VM is paused, before the worker has answered.
ResizeAlwaysReturns == host.vmm = "resize" ~> host.vmm = "idle"
=============================================================================

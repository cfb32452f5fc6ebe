-------------------------------- MODULE Api --------------------------------
(***************************************************************************)
(* The way of a command from the user to the VMM: ch-remote and its client *)
(* library (src/bin/ch-remote.rs, api_client), the HTTP server thread      *)
(* (vmm/src/api/http.rs, http_endpoint.rs), the requests to the VMM thread *)
(* (vmm/src/api/mod.rs), and the start and end of the process              *)
(* (src/main.rs, start_vmm_thread).                                        *)
(*                                                                         *)
(* dev is the process: its main, HTTP and VMM threads; guest the clients,  *)
(* host the socket in the file system.                                     *)
(***************************************************************************)
EXTENDS Integers, Sequences

CONSTANTS
    Clients,       \* users of ch-remote
    Starts,        \* how the process is started: "kernel", "restore" or "bare"
    Faults,        \* "boot": the virtual machine does not boot; "exit": the guest powers off
    Idle,          \* the process is ended while no other command is under way
    MaxCommands, MaxStarts

VARIABLES dev, guest, host

Now == [dev |-> dev, guest |-> guest, host |-> host]
Become(s) == dev' = s.dev /\ guest' = s.guest /\ host' = s.host

Request(who, action, data) == [who |-> who, action |-> action, data |-> data]
NoRequest == Request("nobody", "none", FALSE)
NoAnswer == [ok |-> TRUE, payload |-> "none"]
Calm == [pc |-> "idle", command |-> "none", status |-> 0, read |-> 0, whole |-> 0]
Down == [alive |-> FALSE, how |-> "none", main |-> "off", vmm |-> "off", vm |-> "none", http |-> "off",
         serving |-> NoRequest, inbox |-> <<>>, channel |-> <<>>, evt |-> 0,
         answer |-> [w \in Clients \cup {"main"} |-> NoAnswer]]

New ==
    /\ dev = Down
    /\ guest = [c \in Clients |-> Calm]
    /\ host = [socket |-> FALSE, starts |-> 0, commands |-> 0,
               done |-> [c \in Clients |-> <<>>]]    \* history: what the VMM did for each client

-----------------------------------------------------------------------------
(* ch-remote.                                                              *)

Put(c, body) == [method |-> "PUT", path |-> c, body |-> body, files |-> FALSE]
Get(c) == [method |-> "GET", path |-> c, body |-> FALSE, files |-> FALSE]

resize_api_command == Put("resize", TRUE)
resize_zone_api_command == Put("resize-zone", TRUE)
add_device_api_command == Put("add-device", TRUE)
add_user_device_api_command == Put("add-user-device", TRUE)
remove_device_api_command == Put("remove-device", TRUE)
add_disk_api_command == Put("add-disk", TRUE)
add_fs_api_command == Put("add-fs", TRUE)
add_pmem_api_command == Put("add-pmem", TRUE)
\* The file descriptors go next to the text, not in it.
add_net_api_command == [Put("add-net", TRUE) EXCEPT !.files = TRUE]
add_vdpa_api_command == Put("add-vdpa", TRUE)
add_vsock_api_command == Put("add-vsock", TRUE)
snapshot_api_command == Put("snapshot", TRUE)
restore_api_command == Put("restore", TRUE)
coredump_api_command == Put("coredump", TRUE)
receive_migration_api_command == Put("receive-migration", TRUE)
send_migration_api_command == Put("send-migration", TRUE)

\* Mutant: counters are asked for like a change.
do_command_puts(c) ==
    CASE c = "info" -> Get("info")
      [] OTHER -> Put(c, c \notin {"counters", "pause", "reboot", "power-button", "resume", "shutdown"})

do_command(c) ==
    CASE c \in {"info", "counters"} -> Get(c)
      [] c = "resize" -> resize_api_command
      [] c = "resize-zone" -> resize_zone_api_command
      [] c = "add-device" -> add_device_api_command
      [] c = "add-user-device" -> add_user_device_api_command
      [] c = "remove-device" -> remove_device_api_command
      [] c = "add-disk" -> add_disk_api_command
      [] c = "add-fs" -> add_fs_api_command
      [] c = "add-pmem" -> add_pmem_api_command
      [] c = "add-net" -> add_net_api_command
      [] c = "add-vdpa" -> add_vdpa_api_command
      [] c = "add-vsock" -> add_vsock_api_command
      [] c = "snapshot" -> snapshot_api_command
      [] c = "restore" -> restore_api_command
      [] c = "coredump" -> coredump_api_command
      [] c = "send-migration" -> send_migration_api_command
      [] c = "receive-migration" -> receive_migration_api_command
      [] OTHER -> Put(c, FALSE)

Subcommands == {"add-device", "add-disk", "add-fs", "add-pmem", "add-net", "add-user-device", "add-vdpa",
                "add-vsock", "remove-device", "info", "counters", "pause", "reboot", "power-button", "resize",
                "resize-zone", "resume", "shutdown", "snapshot", "restore", "coredump", "send-migration",
                "receive-migration"}

\* Requests ch-remote has no subcommand for, sent as the description of the API says.
Others == {"create", "boot", "delete", "ping", "vmm-shutdown"}
http_client(c) == IF c = "ping" THEN Get(c) ELSE Put(c, c = "create")

is_server_error(status) == status \notin {100, 200, 204}

-----------------------------------------------------------------------------
(* The HTTP server.                                                        *)

Lifecycle == {"boot", "delete", "shutdown", "reboot", "pause", "resume", "power-button"}
Additions == {"add-device", "add-user-device", "add-disk", "add-fs", "add-pmem", "add-net", "add-vdpa", "add-vsock"}
Changes == Additions \cup {"resize", "resize-zone", "remove-device"}
Transfers == {"receive-migration", "send-migration", "snapshot", "restore", "coredump"}
HTTP_ROUTES == Lifecycle \cup Changes \cup Transfers \cup {"counters", "create", "info", "ping", "vmm-shutdown"}

\* What a request asks of the VMM; "bad" if nothing.
put_handler(r) ==
    CASE r.body /\ r.path \in Changes \cup Transfers -> r.path
      [] ~r.body /\ r.path \in Lifecycle -> r.path
      [] OTHER -> "bad"
get_handler(r) == IF r.path = "counters" THEN r.path ELSE "bad"
VmCreate(r) == IF r.method = "PUT" /\ r.body THEN "create" ELSE "bad"
VmInfo(r) == IF r.method = "GET" THEN "info" ELSE "bad"
VmmPing(r) == IF r.method = "GET" THEN "ping" ELSE "bad"
VmmShutdown(r) == IF r.method = "PUT" THEN "vmm-shutdown" ELSE "bad"

Asked(r) ==
    CASE r.path \notin HTTP_ROUTES -> "unknown"
      [] r.path = "create" -> VmCreate(r)
      [] r.path = "info" -> VmInfo(r)
      [] r.path = "ping" -> VmmPing(r)
      [] r.path = "vmm-shutdown" -> VmmShutdown(r)
      [] OTHER -> CASE r.method = "PUT" -> put_handler(r)
                    [] r.method = "GET" -> get_handler(r)
                    [] OTHER -> "bad"

\* What the caller of a request accepts as the payload of its answer.
Accepted(action, payload) ==
    CASE action = "info" -> payload = "VmInfo"
      [] action = "ping" -> payload = "VmmPing"
      [] action \in {"create", "vmm-shutdown"} -> TRUE
      [] OTHER -> payload \in {"VmAction", "Empty"}

\* The status of an answer.
handle_request(action, a) ==
    IF ~a.ok \/ ~Accepted(action, a.payload) THEN 500
    ELSE IF a.payload \in {"VmAction", "VmInfo", "VmmPing"} \/ action = "vmm-shutdown" THEN 200
    ELSE 204

\* The text after the header of an answer.
HasBody(status, action) == is_server_error(status) \/ (status = 200 /\ action # "vmm-shutdown")

Reply(s, c, status, action) ==
    [s EXCEPT !.guest[c].status = status, !.guest[c].whole = IF HasBody(status, action) THEN 2 ELSE 1,
              !.dev.http = "idle", !.dev.serving = NoRequest]

\* A request for the VMM: into the channel, then the event.
vm_action(s, who, action, data) ==
    [s EXCEPT !.dev.channel = Append(@, Request(who, action, data)), !.dev.evt = @ + 1,
              !.dev.answer[who] = NoAnswer]

-----------------------------------------------------------------------------
(* The VMM.                                                                *)

Payload(action) ==
    CASE action = "info" -> "VmInfo"
      [] action = "ping" -> "VmmPing"
      [] action \in Additions \cup {"counters"} -> "VmAction"
      [] OTHER -> "Empty"

\* The state a command needs and leaves; the commands themselves are other modules'.
Effect(vm, action) ==
    CASE action = "create" -> [ok |-> vm = "none", vm |-> "created"]
      [] action = "boot" -> [ok |-> vm = "created", vm |-> "running"]
      [] action = "restore" -> [ok |-> vm = "none", vm |-> "paused"]
      [] action = "pause" -> [ok |-> vm = "running", vm |-> "paused"]
      [] action = "resume" -> [ok |-> vm = "paused", vm |-> "running"]
      [] action = "shutdown" -> [ok |-> vm \in {"running", "paused"}, vm |-> "created"]
      [] action \in {"delete", "vmm-shutdown"} -> [ok |-> TRUE, vm |-> "none"]
      [] action = "ping" -> [ok |-> TRUE, vm |-> vm]
      [] OTHER -> [ok |-> vm # "none", vm |-> vm]

Respond(s, r, ok) == [s EXCEPT !.dev.answer[r.who] = [ok |-> ok, payload |-> Payload(r.action)]]

VmmTakes ==
    /\ dev.alive /\ dev.vmm = "on" /\ dev.evt > 0 /\ dev.channel # <<>>
    /\ LET r == Head(dev.channel)
           e == Effect(dev.vm, r.action)
       IN \E ok \in IF e.ok /\ r.action = "boot" /\ "boot" \in Faults THEN BOOLEAN ELSE {e.ok} :
            Become([Respond(Now, r, ok) EXCEPT
                !.dev.evt = 0, !.dev.channel = Tail(@),
                !.dev.vm = IF ok THEN e.vm ELSE @,
                !.host.done = [c \in Clients |-> IF ok /\ r.who = c THEN Append(@[c], r) ELSE @[c]],
                !.dev.vmm = IF r.action = "vmm-shutdown" THEN "off" ELSE @])

\* The guest powers off, or a thread asks for the end.
VmmExits ==
    /\ dev.alive /\ dev.vmm = "on" /\ "exit" \in Faults /\ dev.vm = "running"
    /\ Idle => \A c \in Clients : guest[c].pc # "wait"
    /\ Become([Now EXCEPT !.dev.vmm = "off", !.dev.vm = "none", !.dev.channel = <<>>,
         !.dev.answer = [w \in DOMAIN @ |-> IF @[w] = NoAnswer THEN [ok |-> FALSE, payload |-> "gone"]
                                            ELSE @[w]]])

-----------------------------------------------------------------------------
(* The process.                                                            *)

\* The threads; a socket that exists already cannot be bound again.
start_vmm_thread(s, how) ==
    [s EXCEPT !.dev = [Down EXCEPT !.alive = TRUE, !.how = how, !.vmm = "on", !.http = "idle",
                                   !.main = "threads"],
              !.host.socket = TRUE]

Start(how) ==
    /\ ~dev.alive /\ host.starts < MaxStarts
    /\ Become([(IF host.socket THEN Now ELSE start_vmm_thread(Now, how)) EXCEPT !.host.starts = @ + 1])

\* What is not yet in the client's hands is lost; ch-remote goes on reading.
Die(s) ==
    LET lost(g) == g.pc = "wait" /\ (g.status = 0 \/ g.read < g.whole)
    IN [s EXCEPT !.dev = Down,
                 !.guest = [c \in Clients |-> [@[c] EXCEPT !.pc =
                     CASE ~lost(s.guest[c]) -> @
                       [] lost(s.guest[c]) /\ s.guest[c].command \in Others -> "lost"
                       [] OTHER -> "spins"]]]

\* Mutant: the socket stays.
main_leaves(s, ok) == Die(s)

\* The end of main: the socket is removed when all went well.
main(s, ok) == Die([s EXCEPT !.host.socket = IF ok THEN FALSE ELSE @])

\* The main thread makes its own requests, then waits for the VMM thread.
start_vmm ==
    /\ dev.alive
    /\ LET a == dev.answer["main"]
           ask(next, action) == [vm_action(Now, "main", action, FALSE) EXCEPT !.dev.main = next]
       IN \/ /\ dev.main = "threads"
             /\ Become(CASE dev.how = "kernel" -> ask("creating", "create")
                         [] dev.how = "restore" -> ask("restoring", "restore")
                         [] OTHER -> [Now EXCEPT !.dev.main = "joining"])
          \/ /\ dev.main \in {"creating", "booting", "restoring"} /\ a # NoAnswer
             /\ Become(CASE ~a.ok -> main(Now, FALSE)
                         [] a.ok /\ dev.main = "creating" -> ask("booting", "boot")
                         [] OTHER -> [Now EXCEPT !.dev.main = "joining"])
          \/ /\ dev.main = "joining" /\ dev.vmm = "off"
             /\ Become(main(Now, TRUE))

-----------------------------------------------------------------------------
(* Steps of the HTTP thread and of the clients.                            *)

\* One request at a time, each until its answer is there.
handle_http_request ==
    /\ dev.alive /\ dev.http = "idle" /\ dev.inbox # <<>>
    /\ LET q == Head(dev.inbox)
           action == Asked(q.request)
           s1 == [Now EXCEPT !.dev.inbox = Tail(@)]
       IN Become(CASE action = "unknown" -> Reply(s1, q.who, 404, action)
                   [] action = "bad" -> Reply(s1, q.who, 400, action)
                   [] dev.vmm = "off" /\ action \notin {"unknown", "bad"} -> Reply(s1, q.who, 500, action)
                   [] OTHER -> [vm_action(s1, q.who, action, q.request.files) EXCEPT
                                   !.dev.http = "waiting",
                                   !.dev.serving = Request(q.who, action, q.request.files)])

Answered ==
    /\ dev.alive /\ dev.http = "waiting" /\ dev.answer[dev.serving.who] # NoAnswer
    /\ LET c == dev.serving.who
       IN Become(Reply(Now, c, handle_request(dev.serving.action, dev.answer[c]), dev.serving.action))

\* A user runs a command once the process has started what it was asked to.
simple_api_command_with_fds(c, command) ==
    /\ guest[c].pc = "idle" /\ host.commands < MaxCommands
    /\ dev.alive /\ dev.main = "joining"
    /\ Idle => /\ dev.vmm = "on"
               /\ \A o \in Clients : guest[o].pc = "wait" => "vmm-shutdown" \notin {command, guest[o].command}
    /\ Become([Now EXCEPT !.guest[c] = [Calm EXCEPT !.pc = "wait", !.command = command],
         !.dev.inbox = Append(@, [who |-> c, request |-> IF command \in Others THEN http_client(command)
                                                        ELSE do_command(command)]),
         !.host.commands = @ + 1, !.host.done[c] = <<>>])

\* The answer comes in pieces, header and text.
parse_http_response(c) ==
    /\ guest[c].pc = "wait" /\ guest[c].status # 0
    /\ \E n \in guest[c].read + 1 .. guest[c].whole :
         Become([Now EXCEPT !.guest[c].read = n,
            !.guest[c].pc = IF n < guest[c].whole THEN "wait"
                            ELSE IF is_server_error(guest[c].status) THEN "failed" ELSE "ok"])

Finish(c) == guest[c].pc \in {"ok", "failed", "lost"} /\ Become([Now EXCEPT !.guest[c] = Calm])

Next ==
    \/ VmmTakes \/ VmmExits \/ start_vmm \/ handle_http_request \/ Answered
    \/ \E how \in Starts : Start(how)
    \/ \E c \in Clients :
          \/ parse_http_response(c) \/ Finish(c)
          \/ \E command \in Subcommands \cup Others : simple_api_command_with_fds(c, command)

Spec == New /\ [][Next]_<<dev, guest, host>>

-----------------------------------------------------------------------------
(* Properties.                                                             *)

\* Every subcommand of ch-remote is one the server knows, by its method, path and text:
\* no user is told that the request was malformed (do_command, HTTP_ROUTES, put_handler).
CommandsAreKnown == \A c \in Clients : guest[c].status \notin {400, 404}

\* A user is told of success when and only when the VMM carried out their command, once, as
\* the action they named and with the files sent along (vm_action, control_loop).
AnswerIsOwn ==
    \A c \in Clients :
        LET command == guest[c].command
        IN /\ guest[c].pc = "ok" => host.done[c] = <<Request(c, command, command = "add-net")>>
           /\ guest[c].pc = "failed" => host.done[c] = <<>>

\* A process that has ended leaves no socket behind, so it can be started again (main).
SocketIsRemoved == ~dev.alive => ~host.socket

\* No client reads for ever from a connection that was closed (parse_http_response).
NobodySpins == \A c \in Clients : guest[c].pc # "spins"

CommandsAreServed == CommandsAreKnown /\ AnswerIsOwn /\ SocketIsRemoved /\ NobodySpins
=============================================================================

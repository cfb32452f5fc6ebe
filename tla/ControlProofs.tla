---------------------------- MODULE ControlProofs ----------------------------
(***************************************************************************)
(* Proofs about what the VMM thread waits for (Vmm) and what a guest makes *)
(* of a resize of its CPUs (CpuHotplug), as MCControl puts them together.  *)
(*                                                                         *)
(* Why the loop never blocks in api_receiver.recv() is a matter of         *)
(* counting.  A client sends its request before it writes api_evt, and the *)
(* loop takes one request for every time it reads the counter, so the      *)
(* channel holds at least one request for every client that is between the *)
(* two statements, and one more while api_evt is readable.  The argument   *)
(* holds for every finite set of clients, whatever they ask for, and       *)
(* whether operations fail or not: it is about what a step does to the     *)
(* channel and the event (ApiStep), and both instances of Vmm take such    *)
(* steps only.                                                             *)
(*                                                                         *)
(* That a paused VM executes nothing and that no vCPU outlives its VM is   *)
(* proved where no operation fails half-way: a resume that fails after the *)
(* vCPUs were released, or a shutdown that fails before they were joined,  *)
(* leaves them running.                                                    *)
(*                                                                         *)
(* For any number of vCPUs, the guest comes across every change, and, if   *)
(* it ejects the highest vCPU first, no vCPU is run by two threads.        *)
(***************************************************************************)
EXTENDS MCControl, FiniteSetTheorems, TLAPS

Events == {"exit", "reset", "activate", "api"}
ClientStates == {"idle", "sent", "waiting", "created", "sent_boot", "waiting_boot", "done",
                 "answered", "answered_boot"}
Unwritten == {"sent", "sent_boot", "answered", "answered_boot"}
Messages(S) == S \X E!AllRequests

ApiTypes(S) ==
    /\ evt \in [Events -> BOOLEAN]
    /\ batch \subseteq Events
    /\ channel \in Seq(Messages(S))
    /\ client \in [S -> ClientStates]

\* The clients that have sent a request and not yet written api_evt.
Writers(S) == {c \in S : client[c] \in Unwritten}

\* Requests in the channel for each of them, and one for the counter.
Counted(S) == Cardinality(Writers(S)) + (IF evt["api"] THEN 1 ELSE 0) <= Len(channel)

\* Only the loop reads api_evt, when it serves the event.
Readable == "api" \in batch => evt["api"]

ApiInv(S) == ApiTypes(S) /\ Counted(S) /\ Readable

\* Where a request is answered, its client is one of S.
Served(S) == serving \in S \cup {"nobody"}

\* What a step of the VMM, its guest and its clients does to the requests: a
\* client moves on, ...
Moves(c, s) == s \in ClientStates /\ client' = [client EXCEPT ![c] = s]

\* ... is answered, which makes no client one that has to write its event, ...
Answers(c) == \E s : Moves(c, s) /\ (s \in Unwritten => client[c] \in Unwritten)

\* ... sends a request, writes its event; the loop looks for events, and takes
\* a request; or the channel and api_evt are left alone.
Sends(c, r) ==
    /\ r \in E!AllRequests /\ client[c] \notin Unwritten
    /\ \E s \in Unwritten : Moves(c, s)
    /\ channel' = Append(channel, <<c, r>>) /\ UNCHANGED <<evt, batch>>
Writes(c) ==
    /\ client[c] \in Unwritten /\ \E s : s \notin Unwritten /\ Moves(c, s)
    /\ evt' = [evt EXCEPT !["api"] = TRUE] /\ UNCHANGED <<channel, batch>>
Polls == batch' = {e \in Events : evt[e]} /\ UNCHANGED <<evt, channel, client>>
Answering(S) == UNCHANGED client \/ \E c \in S : Answers(c)
Takes(S) ==
    /\ "api" \in batch /\ channel # <<>>
    /\ batch' = batch \ {"api"} /\ evt' = [evt EXCEPT !["api"] = FALSE]
    /\ channel' = Tail(channel) /\ Answering(S)
Leaves(S) ==
    /\ evt' \in [Events -> BOOLEAN] /\ evt'["api"] = evt["api"]
    /\ batch' \subseteq batch /\ UNCHANGED channel /\ Answering(S)

ApiStep(S) ==
    \/ \E c \in S : Writes(c) \/ \E r : Sends(c, r)
    \/ Polls \/ Takes(S) \/ Leaves(S)

\* The life of the VM when no operation fails.
Life ==
    /\ vm \in {"None", "Running", "Paused"}
    /\ vm = "Paused" => vcpu \in {"parked", "gone", "absent"}
    /\ vm = "None" /\ stage = "begin" => vcpu \in {"absent", "gone"}
    /\ stage = "stopping" => job # "none"
    /\ job = "pause" /\ stage = "stopping" => vm = "Running"
    /\ stage \in {"begin", "stopping"}

-----------------------------------------------------------------------------
(* Requests are counted.                                                   *)

\* A client that is answered becomes no writer (the response channel of the
\* request, read by recv() after api_evt.write()).
LEMMA AnsweredCount ==
    ASSUME NEW S, IsFiniteSet(S), ApiTypes(S), Answering(S)
    PROVE  /\ client' \in [S -> ClientStates]
           /\ Cardinality(Writers(S)) \in Nat /\ Cardinality(Writers(S)') \in Nat
           /\ Cardinality(Writers(S)') <= Cardinality(Writers(S))
<1>1. client' \in [S -> ClientStates]
  BY DEF ApiTypes, Answering, Answers, Moves
<1>2. Writers(S)' \subseteq Writers(S)
  <2>1. CASE UNCHANGED client
    BY <2>1 DEF Writers
  <2>2. ASSUME NEW c \in S, Answers(c) PROVE Writers(S)' \subseteq Writers(S)
    <3>1. PICK s : Moves(c, s) /\ (s \in Unwritten => client[c] \in Unwritten)
      BY <2>2 DEF Answers
    <3> QED
      BY <3>1 DEF Moves, Writers, ApiTypes
  <2> QED
    BY <2>1, <2>2 DEF Answering
<1>3. IsFiniteSet(Writers(S))
  BY FS_Subset DEF Writers
<1>4. IsFiniteSet(Writers(S)') /\ Cardinality(Writers(S)') <= Cardinality(Writers(S))
  BY <1>2, <1>3, FS_Subset
<1> QED
  BY <1>1, <1>3, <1>4, FS_CardinalityType

\* Each such step keeps the requests counted: send() comes before write(), and
\* recv() follows one read of the counter.
LEMMA CountStep ==
    ASSUME NEW S, IsFiniteSet(S), ApiInv(S), ApiStep(S)
    PROVE  ApiInv(S)'
<1>0. /\ Len(channel) \in Nat /\ IsFiniteSet(Writers(S)) /\ Cardinality(Writers(S)) \in Nat
      /\ "api" \in Events
  BY FS_Subset, FS_CardinalityType DEF Writers, ApiInv, ApiTypes, Events
<1>1. ASSUME NEW c \in S, NEW r, Sends(c, r) PROVE ApiInv(S)'
  <2>1. PICK s \in Unwritten : Moves(c, s)
    BY <1>1 DEF Sends
  <2>2. c \notin Writers(S) /\ Writers(S)' = Writers(S) \cup {c}
    BY <1>1, <2>1 DEF Sends, Moves, Writers, ApiInv, ApiTypes
  <2>3. Cardinality(Writers(S)') = Cardinality(Writers(S)) + 1
    BY <1>0, <2>2, FS_AddElement
  <2>4. <<c, r>> \in Messages(S)
    BY <1>1 DEF Sends, Messages
  <2>5. channel' \in Seq(Messages(S)) /\ Len(channel') = Len(channel) + 1
    BY <1>1, <2>4 DEF Sends, ApiInv, ApiTypes
  <2>6. ApiTypes(S)'
    BY <1>1, <2>1, <2>5 DEF Sends, Moves, ApiInv, ApiTypes
  <2>7. UNCHANGED <<evt, batch>>
    BY <1>1 DEF Sends
  <2>8. Counted(S)'
    BY <1>0, <2>3, <2>5, <2>7 DEF ApiInv, Counted
  <2> QED
    BY <2>6, <2>7, <2>8 DEF ApiInv, Readable
<1>2. ASSUME NEW c \in S, Writes(c) PROVE ApiInv(S)'
  <2>1. PICK s : s \notin Unwritten /\ Moves(c, s)
    BY <1>2 DEF Writes
  <2>2. c \in Writers(S) /\ Writers(S)' = Writers(S) \ {c}
    BY <1>2, <2>1 DEF Writes, Moves, Writers, ApiInv, ApiTypes
  <2>3. /\ Cardinality(Writers(S)') = Cardinality(Writers(S)) - 1
        /\ Cardinality(Writers(S)') \in Nat
    BY <1>0, <2>2, FS_RemoveElement, FS_CardinalityType
  <2>4. ApiTypes(S)' /\ evt'["api"] = TRUE
    BY <1>0, <1>2, <2>1 DEF Writes, Moves, ApiInv, ApiTypes
  <2>5. Cardinality(Writers(S)) <= Len(channel)
    BY <1>0 DEF ApiInv, Counted
  <2>6. Counted(S)'
    BY <1>0, <1>2, <2>3, <2>4, <2>5 DEF Writes, Counted
  <2> QED
    BY <2>4, <2>6 DEF ApiInv, Readable
<1>3. CASE Polls
  <2>1. Writers(S)' = Writers(S)
    BY <1>3 DEF Polls, Writers
  <2>2. ApiTypes(S)' /\ Counted(S)'
    BY <1>3, <2>1 DEF Polls, ApiInv, ApiTypes, Counted
  <2> QED
    BY <1>3, <2>2 DEF Polls, ApiInv, Readable
<1>4. CASE Takes(S)
  <2>1. /\ client' \in [S -> ClientStates]
        /\ Cardinality(Writers(S)') <= Cardinality(Writers(S))
        /\ Cardinality(Writers(S)') \in Nat
    BY <1>4, AnsweredCount DEF Takes, ApiInv
  <2>2. channel' \in Seq(Messages(S)) /\ Len(channel') = Len(channel) - 1
    BY <1>4 DEF Takes, ApiInv, ApiTypes
  <2>3. ApiTypes(S)'
    BY <1>4, <2>1, <2>2 DEF Takes, ApiInv, ApiTypes
  <2>4. evt["api"] /\ evt'["api"] = FALSE
    BY <1>0, <1>4 DEF Takes, ApiInv, Readable, ApiTypes
  <2>5. Cardinality(Writers(S)) + 1 <= Len(channel)
    BY <1>0, <2>4 DEF ApiInv, Counted
  <2>6. Counted(S)'
    BY <1>0, <2>1, <2>2, <2>4, <2>5 DEF Counted
  <2> QED
    BY <1>4, <2>3, <2>6 DEF Takes, ApiInv, Readable
<1>5. CASE Leaves(S)
  <2>1. /\ client' \in [S -> ClientStates]
        /\ Cardinality(Writers(S)') <= Cardinality(Writers(S))
        /\ Cardinality(Writers(S)') \in Nat
    BY <1>5, AnsweredCount DEF Leaves, ApiInv
  <2>2. ApiTypes(S)'
    BY <1>5, <2>1 DEF Leaves, ApiInv, ApiTypes
  <2>3. Counted(S)'
    BY <1>0, <1>5, <2>1 DEF Leaves, ApiInv, Counted
  <2> QED
    BY <1>5, <2>2, <2>3 DEF Leaves, ApiInv, Readable
<1> QED
  BY <1>1, <1>2, <1>3, <1>4, <1>5 DEF ApiStep

\* What is counted is enough: an event to serve has its request.
LEMMA CountedHasRequest ==
    ASSUME NEW S, IsFiniteSet(S), ApiInv(S), evt["api"] \/ "api" \in batch
    PROVE  channel # <<>>
<1>1. Cardinality(Writers(S)) \in Nat
  BY FS_Subset, FS_CardinalityType DEF Writers
<1>2. evt["api"]
  BY DEF ApiInv, Readable
<1>3. Len(channel) # 0
  BY <1>1, <1>2 DEF ApiInv, Counted, ApiTypes
<1> QED
  BY <1>3

\* Before anyone has sent anything there is nothing to count.
LEMMA InitiallyCounted ==
    ASSUME NEW S, evt = [e \in Events |-> FALSE], batch = {}, channel = <<>>,
           client = [c \in S |-> "idle"]
    PROVE  ApiInv(S)
<1>1. Writers(S) = {}
  BY DEF Writers, Unwritten
<1>2. Counted(S)
  BY <1>1, FS_EmptySet DEF Counted, Events
<1> QED
  BY <1>2 DEF ApiInv, ApiTypes, Readable, ClientStates

\* Two instances of Vmm name the same things.
LEMMA Names ==
    /\ E!Events = Events /\ F!Events = Events
    /\ E!Unwritten = Unwritten /\ F!Unwritten = Unwritten
    /\ F!AllRequests = E!AllRequests
    /\ E!NoClient = "nobody" /\ F!NoClient = "nobody"
BY DEF E!Events, F!Events, Events, E!Unwritten, F!Unwritten, Unwritten, E!AllRequests,
       F!AllRequests, E!NoClient, F!NoClient

-----------------------------------------------------------------------------
(* The steps of the VMM without failures.                                  *)

\* A client that is answered moves on as its next statement says.
LEMMA EAnswers == ASSUME NEW c, E!Answered(c) PROVE Answers(c)
<1> DEFINE s == CASE client[c] = "sent" -> "answered"
                  [] client[c] = "sent_boot" -> "answered_boot"
                  [] OTHER -> E!Answer(c, client[c])
<1>1. client' = [client EXCEPT ![c] = s]
  BY DEF E!Answered
<1>2. s \in ClientStates /\ (s \in Unwritten => client[c] \in Unwritten)
  BY DEF E!Answer, ClientStates, Unwritten
<1> HIDE DEF s
<1> QED
  BY <1>1, <1>2 DEF Answers, Moves

\* An operation that ends answers the client that asked for it.
LEMMA EFinishAnswers == ASSUME Served(Clients), NEW ok, E!Finish(ok) PROVE Answering(Clients)
BY Names, EAnswers DEF Served, E!Finish, Answering

\* The client being served is one of those that send: it comes from the channel.
LEMMA EServedStep ==
    ASSUME ApiTypes(Clients), Served(Clients), [E!Next]_(E!vars)
    PROVE  Served(Clients)'
<1>1. serving' \in {serving, E!NoClient} \/ E!ServeApi
  <2>1. CASE UNCHANGED E!vars
    BY <2>1 DEF E!vars, E!control
  <2>2. CASE E!ServeExit \/ E!ServeReset
    BY <2>2 DEF E!ServeExit, E!ServeReset, E!Start, E!ReadFails
  <2>3. CASE E!PauseBegin \/ E!ShutdownBegin
    BY <2>3 DEF E!PauseBegin, E!ShutdownBegin, E!Finish, E!GoOn
  <2>4. CASE E!PauseDone \/ E!ShutdownDone
    BY <2>4 DEF E!PauseDone, E!ShutdownDone, E!Rebooted, E!Finish
  <2>5. CASE E!EpollWait \/ E!EndOfBatch \/ E!ServeActivate
    BY <2>5 DEF E!EpollWait, E!EndOfBatch, E!ServeActivate, E!ReadFails
  <2>6. CASE E!VcpuStops \/ E!GuestActivate \/ \E e \in E!Events : E!GuestLeaves(e)
    BY <2>6 DEF E!VcpuStops, E!GuestActivate, E!GuestLeaves, E!control
  <2>7. CASE \E c \in Clients : E!WriteApiEvent(c) \/ \E r \in E!AllRequests : E!SendRequest(c, r)
    BY <2>7 DEF E!WriteApiEvent, E!SendRequest, E!control
  <2> QED
    BY <2>1, <2>2, <2>3, <2>4, <2>5, <2>6, <2>7 DEF E!Next, E!LoopStep
<1>2. CASE E!ServeApi
  <2>1. channel # <<>> /\ serving' \in {serving, Head(channel)[1]}
    BY <1>2 DEF E!ServeApi, E!Start
  <2>2. Head(channel) \in Messages(Clients)
    BY <2>1 DEF ApiTypes
  <2>3. Head(channel)[1] \in Clients
    BY <2>2 DEF Messages
  <2> QED
    BY <2>1, <2>3 DEF Served
<1> QED
  BY <1>1, <1>2, Names DEF Served

\* Each step of the loop, the vCPU and the clients does to the requests what
\* ApiStep says.
LEMMA EApiSteps ==
    ASSUME ApiTypes(Clients), Served(Clients), [E!Next]_(E!vars)
    PROVE  ApiStep(Clients)
<1>1. ASSUME NEW c \in Clients, NEW r \in E!AllRequests, E!SendRequest(c, r) PROVE Sends(c, r)
  <2> DEFINE s == IF r = "boot" /\ c = "main" THEN "sent_boot" ELSE "sent"
  <2>1. /\ client[c] \in {"idle", "created"} /\ client' = [client EXCEPT ![c] = s]
        /\ channel' = Append(channel, <<c, r>>) /\ UNCHANGED <<evt, batch>>
    BY <1>1 DEF E!SendRequest, E!control
  <2>2. s \in Unwritten /\ s \in ClientStates /\ client[c] \notin Unwritten
    BY <2>1 DEF Unwritten, ClientStates
  <2> HIDE DEF s
  <2> QED
    BY <2>1, <2>2, Names DEF Sends, Moves
<1>2. ASSUME NEW c \in Clients, E!WriteApiEvent(c) PROVE Writes(c)
  <2> DEFINE s == CASE client[c] = "sent" -> "waiting"
                    [] client[c] = "sent_boot" -> "waiting_boot"
                    [] OTHER -> E!Answer(c, client[c])
  <2>1. /\ client[c] \in E!Unwritten /\ client' = [client EXCEPT ![c] = s]
        /\ evt' = [evt EXCEPT !["api"] = TRUE] /\ UNCHANGED <<channel, batch>>
    BY <1>2 DEF E!WriteApiEvent, E!control
  <2>2. s \in ClientStates /\ s \notin Unwritten
    BY DEF E!Answer, ClientStates, Unwritten
  <2> HIDE DEF s
  <2> QED
    BY <2>1, <2>2, Names DEF Writes, Moves
<1>3. CASE E!EpollWait
  BY <1>3, Names DEF E!EpollWait, E!api, ApiStep, Polls
<1>4. CASE E!ServeApi
  <2>1. /\ "api" \in batch /\ channel # <<>>
        /\ batch' = batch \ {"api"} /\ evt' = [evt EXCEPT !["api"] = FALSE]
        /\ channel' = Tail(channel)
        /\ UNCHANGED client \/ E!Answered(Head(channel)[1])
    BY <1>4 DEF E!ServeApi, E!Consume
  <2>2. Head(channel) \in Messages(Clients)
    BY <2>1 DEF ApiTypes
  <2>3. Head(channel)[1] \in Clients
    BY <2>2 DEF Messages
  <2>4. Answering(Clients)
    BY <2>1, <2>3, EAnswers DEF Answering
  <2> QED
    BY <2>1, <2>4 DEF ApiStep, Takes
<1>5. CASE E!ServeExit \/ E!ServeReset \/ E!ServeActivate
  <2>1. /\ batch' \subseteq batch /\ UNCHANGED <<channel, client>>
        /\ UNCHANGED evt \/ \E e \in {"exit", "reset", "activate"} : evt' = [evt EXCEPT ![e] = FALSE]
    BY <1>5 DEF E!ServeExit, E!ServeReset, E!ServeActivate, E!ReadFails, E!Consume, E!Start, E!api
  <2>2. evt' \in [Events -> BOOLEAN] /\ evt'["api"] = evt["api"]
    BY <2>1 DEF ApiTypes, Events
  <2> QED
    BY <2>1, <2>2 DEF ApiStep, Leaves, Answering
<1>6. CASE E!PauseBegin \/ E!ShutdownBegin \/ E!PauseDone
  <2>1. UNCHANGED <<evt, batch, channel>>
    BY <1>6 DEF E!PauseBegin, E!ShutdownBegin, E!PauseDone
  <2>2. UNCHANGED client \/ E!Finish(TRUE) \/ E!Finish(FALSE) \/ E!Finish(E!Deletes)
    BY <1>6 DEF E!PauseBegin, E!ShutdownBegin, E!PauseDone, E!GoOn
  <2>3. Answering(Clients)
    BY <2>2, EFinishAnswers DEF Answering
  <2> QED
    BY <2>1, <2>3 DEF ApiStep, Leaves, ApiTypes
<1>7. CASE E!ShutdownDone
  <2>1. /\ UNCHANGED <<batch, channel>> /\ (E!Finish(TRUE) \/ E!Finish(FALSE))
        /\ UNCHANGED evt \/ evt' = [evt EXCEPT !["reset"] = FALSE]
    BY <1>7 DEF E!ShutdownDone, E!Rebooted
  <2>2. Answering(Clients)
    BY <2>1, EFinishAnswers
  <2>3. evt' \in [Events -> BOOLEAN] /\ evt'["api"] = evt["api"]
    BY <2>1 DEF ApiTypes, Events
  <2> QED
    BY <2>1, <2>2, <2>3 DEF ApiStep, Leaves
<1>8. CASE E!EndOfBatch \/ E!VcpuStops \/ UNCHANGED E!vars
  <2>1. UNCHANGED <<evt, batch, channel, client>>
    BY <1>8 DEF E!EndOfBatch, E!VcpuStops, E!vars, E!control, E!api
  <2> QED
    BY <2>1 DEF ApiStep, Leaves, Answering, ApiTypes
<1>9. CASE E!GuestActivate \/ \E e \in E!Events : E!GuestLeaves(e)
  <2>1. /\ UNCHANGED <<batch, channel, client>>
        /\ \E e \in {"exit", "reset", "activate"} : evt' = [evt EXCEPT ![e] = TRUE]
    BY <1>9 DEF E!GuestActivate, E!GuestLeaves, E!Raise, E!control, E!api
  <2>2. evt' \in [Events -> BOOLEAN] /\ evt'["api"] = evt["api"]
    BY <2>1 DEF ApiTypes, Events
  <2> QED
    BY <2>1, <2>2 DEF ApiStep, Leaves, Answering
<1> QED
  BY <1>1, <1>2, <1>3, <1>4, <1>5, <1>6, <1>7, <1>8, <1>9 DEF E!Next, E!LoopStep, ApiStep

-----------------------------------------------------------------------------
(* The life of the VM.                                                     *)

\* An operation that ends leaves no stage behind.
LEMMA FinishEnds == ASSUME NEW ok, E!Finish(ok) PROVE job' = "none" /\ stage' = "begin"
BY DEF E!Finish

\* Each step keeps the state of the VM and that of its vCPU in line: Vm::pause
\* and Vm::shutdown report only after the vCPU has parked or gone.
LEMMA LifeStep ==
    ASSUME Life, [E!Next]_(E!vars) PROVE Life'
<1>1. CASE E!ServeApi
  <2>1. CASE Head(channel)[2] \in E!StopOps
    BY <1>1, <2>1 DEF E!ServeApi, E!Idle, E!Start, E!StopOps, E!machine, Life
  <2>2. CASE Head(channel)[2] \notin E!StopOps
    <3>1. /\ job = "none" /\ UNCHANGED <<job, stage>>
          /\ E!Keep \/ E!VmCreate \/ E!VmBoot \/ (vm # "None" /\ E!VmResume) \/ E!VmRestore
      BY <1>1, <2>2 DEF E!ServeApi, E!Idle
    <3>2. stage = "begin"
      BY <3>1 DEF Life
    <3>3. CASE E!Keep \/ E!VmCreate
      BY <3>1, <3>3 DEF E!Keep, E!VmCreate, E!machine, Life
    <3>4. CASE vm # "None" /\ E!VmResume
      BY <3>1, <3>2, <3>4 DEF E!VmResume, E!ValidTransition, Life
    <3>5. CASE E!VmBoot
      <4>1. CASE E!Keep
        BY <3>1, <4>1 DEF E!Keep, E!machine, Life
      <4>2. CASE vm = "Paused" /\ E!VmResume
        BY <3>1, <3>2, <4>2 DEF E!VmResume, E!ValidTransition, Life
      <4>3. CASE vm = "None" /\ E!BootFrom("loading", 0)
        BY <3>1, <3>2, <4>3 DEF E!BootFrom, Life
      <4> QED
        BY <3>5, <4>1, <4>2, <4>3 DEF E!VmBoot, Life
    <3>6. CASE E!VmRestore
      BY <3>1, <3>2, <3>6 DEF E!VmRestore, E!Keep, E!machine, Life
    <3> QED
      BY <3>1, <3>3, <3>4, <3>5, <3>6
  <2> QED
    BY <2>1, <2>2
<1>2. CASE E!ServeExit \/ E!ServeReset
  BY <1>2 DEF E!ServeExit, E!ServeReset, E!Idle, E!ReadFails, E!Start, E!machine, Life
<1>3. CASE E!ServeActivate
  BY <1>3 DEF E!ServeActivate, E!Idle, E!ReadFails, E!ActivateDevices, E!machine, Life
<1>4. CASE E!PauseBegin
  <2>1. CASE ~E!ValidTransition(vm, "Paused")
    <3>1. E!Finish(FALSE) /\ UNCHANGED <<vm, vcpu>> /\ stage = "begin"
      BY <1>4, <2>1 DEF E!PauseBegin, E!Keep, E!machine
    <3> QED
      BY <3>1, FinishEnds DEF Life
  <2>2. CASE E!ValidTransition(vm, "Paused")
    <3>1. vm = "Running"
      BY <2>2 DEF E!ValidTransition, Life
    <3>2. vm' = vm /\ stage' = "stopping" /\ job' = "pause"
      BY <1>4, <2>2 DEF E!PauseBegin, E!GoOn
    <3> QED
      BY <3>1, <3>2 DEF Life
  <2> QED
    BY <2>1, <2>2
<1>5. CASE E!ShutdownBegin
  <2>1. vm' = "None" /\ vcpu' = vcpu /\ job \notin {"none", "pause"} /\ stage = "begin"
    BY <1>5 DEF E!ShutdownBegin
  <2>2. CASE vm = "None"
    <3>1. E!Finish(E!Deletes)
      BY <1>5, <2>2 DEF E!ShutdownBegin
    <3> QED
      BY <2>1, <2>2, <3>1, FinishEnds DEF Life
  <2>3. CASE vm # "None"
    <3>1. E!ValidTransition(vm, "Shutdown")
      BY <2>3 DEF E!ValidTransition, Life
    <3>2. E!GoOn
      BY <1>5, <2>3, <3>1 DEF E!ShutdownBegin
    <3> QED
      BY <2>1, <3>2 DEF E!GoOn, Life
  <2> QED
    BY <2>2, <2>3
<1>6. CASE E!PauseDone
  <2>1. vm' = "Paused" /\ vcpu' = vcpu /\ vcpu \in {"parked", "gone", "absent"} /\ E!Finish(TRUE)
    BY <1>6 DEF E!PauseDone
  <2> QED
    BY <2>1, FinishEnds DEF Life
<1>7. CASE E!ShutdownDone
  <2>1. /\ E!Finish(TRUE)
        /\ vm' = "Running" \/ (vm' = "None" /\ vcpu' = "absent")
    BY <1>7 DEF E!ShutdownDone, E!Rebooted
  <2> QED
    BY <2>1, FinishEnds DEF Life
<1>8. CASE E!VcpuStops
  BY <1>8 DEF E!VcpuStops, E!control, Life
<1>9. CASE E!GuestActivate \/ \E e \in E!Events : E!GuestLeaves(e)
  BY <1>9 DEF E!GuestActivate, E!GuestLeaves, E!control, Life
<1>10. CASE \/ E!EpollWait \/ E!EndOfBatch \/ UNCHANGED E!vars
            \/ \E c \in Clients : E!WriteApiEvent(c) \/ \E r \in E!AllRequests : E!SendRequest(c, r)
  <2>1. UNCHANGED <<vm, vcpu, job, stage>>
    BY <1>10 DEF E!EpollWait, E!EndOfBatch, E!WriteApiEvent, E!SendRequest, E!vars, E!machine, E!control
  <2> QED
    BY <2>1 DEF Life
<1> QED
  BY <1>1, <1>2, <1>3, <1>4, <1>5, <1>6, <1>7, <1>8, <1>9, <1>10 DEF E!Next, E!LoopStep

-----------------------------------------------------------------------------
(* The steps of the VMM with failures.                                     *)

\* A client that is answered moves on as its next statement says.
LEMMA FAnswers == ASSUME NEW c, F!Answered(c) PROVE Answers(c)
<1> DEFINE s == CASE client[c] = "sent" -> "answered"
                  [] client[c] = "sent_boot" -> "answered_boot"
                  [] OTHER -> F!Answer(c, client[c])
<1>1. client' = [client EXCEPT ![c] = s]
  BY DEF F!Answered
<1>2. s \in ClientStates /\ (s \in Unwritten => client[c] \in Unwritten)
  BY DEF F!Answer, ClientStates, Unwritten
<1> HIDE DEF s
<1> QED
  BY <1>1, <1>2 DEF Answers, Moves

\* An operation that ends answers the client that asked for it.
LEMMA FFinishAnswers == ASSUME Served(FaultyClients), NEW ok, F!Finish(ok) PROVE Answering(FaultyClients)
BY Names, FAnswers DEF Served, F!Finish, Answering

\* The client being served is one of those that send: it comes from the channel.
LEMMA FServedStep ==
    ASSUME ApiTypes(FaultyClients), Served(FaultyClients), [F!Next]_(F!vars)
    PROVE  Served(FaultyClients)'
<1>1. serving' \in {serving, F!NoClient} \/ F!ServeApi
  <2>1. CASE UNCHANGED F!vars
    BY <2>1 DEF F!vars, F!control
  <2>2. CASE F!ServeExit \/ F!ServeReset
    BY <2>2 DEF F!ServeExit, F!ServeReset, F!Start, F!ReadFails
  <2>3. CASE F!PauseBegin \/ F!ShutdownBegin
    BY <2>3 DEF F!PauseBegin, F!ShutdownBegin, F!Finish, F!GoOn
  <2>4. CASE F!PauseDone \/ F!ShutdownDone
    BY <2>4 DEF F!PauseDone, F!ShutdownDone, F!Rebooted, F!Finish
  <2>5. CASE F!EpollWait \/ F!EndOfBatch \/ F!ServeActivate
    BY <2>5 DEF F!EpollWait, F!EndOfBatch, F!ServeActivate, F!ReadFails
  <2>6. CASE F!VcpuStops \/ F!GuestActivate \/ \E e \in F!Events : F!GuestLeaves(e)
    BY <2>6 DEF F!VcpuStops, F!GuestActivate, F!GuestLeaves, F!control
  <2>7. CASE \E c \in FaultyClients : F!WriteApiEvent(c) \/ \E r \in F!AllRequests : F!SendRequest(c, r)
    BY <2>7 DEF F!WriteApiEvent, F!SendRequest, F!control
  <2> QED
    BY <2>1, <2>2, <2>3, <2>4, <2>5, <2>6, <2>7 DEF F!Next, F!LoopStep
<1>2. CASE F!ServeApi
  <2>1. channel # <<>> /\ serving' \in {serving, Head(channel)[1]}
    BY <1>2 DEF F!ServeApi, F!Start
  <2>2. Head(channel) \in Messages(FaultyClients)
    BY <2>1 DEF ApiTypes
  <2>3. Head(channel)[1] \in FaultyClients
    BY <2>2 DEF Messages
  <2> QED
    BY <2>1, <2>3 DEF Served
<1> QED
  BY <1>1, <1>2, Names DEF Served

\* Each step of the loop, the vCPU and the clients does to the requests what
\* ApiStep says.
LEMMA FApiSteps ==
    ASSUME ApiTypes(FaultyClients), Served(FaultyClients), [F!Next]_(F!vars)
    PROVE  ApiStep(FaultyClients)
<1>1. ASSUME NEW c \in FaultyClients, NEW r \in F!AllRequests, F!SendRequest(c, r) PROVE Sends(c, r)
  <2> DEFINE s == IF r = "boot" /\ c = "main" THEN "sent_boot" ELSE "sent"
  <2>1. /\ client[c] \in {"idle", "created"} /\ client' = [client EXCEPT ![c] = s]
        /\ channel' = Append(channel, <<c, r>>) /\ UNCHANGED <<evt, batch>>
    BY <1>1 DEF F!SendRequest, F!control
  <2>2. s \in Unwritten /\ s \in ClientStates /\ client[c] \notin Unwritten
    BY <2>1 DEF Unwritten, ClientStates
  <2> HIDE DEF s
  <2> QED
    BY <2>1, <2>2, Names DEF Sends, Moves
<1>2. ASSUME NEW c \in FaultyClients, F!WriteApiEvent(c) PROVE Writes(c)
  <2> DEFINE s == CASE client[c] = "sent" -> "waiting"
                    [] client[c] = "sent_boot" -> "waiting_boot"
                    [] OTHER -> F!Answer(c, client[c])
  <2>1. /\ client[c] \in F!Unwritten /\ client' = [client EXCEPT ![c] = s]
        /\ evt' = [evt EXCEPT !["api"] = TRUE] /\ UNCHANGED <<channel, batch>>
    BY <1>2 DEF F!WriteApiEvent, F!control
  <2>2. s \in ClientStates /\ s \notin Unwritten
    BY DEF F!Answer, ClientStates, Unwritten
  <2> HIDE DEF s
  <2> QED
    BY <2>1, <2>2, Names DEF Writes, Moves
<1>3. CASE F!EpollWait
  BY <1>3, Names DEF F!EpollWait, F!api, ApiStep, Polls
<1>4. CASE F!ServeApi
  <2>1. /\ "api" \in batch /\ channel # <<>>
        /\ batch' = batch \ {"api"} /\ evt' = [evt EXCEPT !["api"] = FALSE]
        /\ channel' = Tail(channel)
        /\ UNCHANGED client \/ F!Answered(Head(channel)[1])
    BY <1>4 DEF F!ServeApi, F!Consume
  <2>2. Head(channel) \in Messages(FaultyClients)
    BY <2>1 DEF ApiTypes
  <2>3. Head(channel)[1] \in FaultyClients
    BY <2>2 DEF Messages
  <2>4. Answering(FaultyClients)
    BY <2>1, <2>3, FAnswers DEF Answering
  <2> QED
    BY <2>1, <2>4 DEF ApiStep, Takes
<1>5. CASE F!ServeExit \/ F!ServeReset \/ F!ServeActivate
  <2>1. /\ batch' \subseteq batch /\ UNCHANGED <<channel, client>>
        /\ UNCHANGED evt \/ \E e \in {"exit", "reset", "activate"} : evt' = [evt EXCEPT ![e] = FALSE]
    BY <1>5 DEF F!ServeExit, F!ServeReset, F!ServeActivate, F!ReadFails, F!Consume, F!Start, F!api
  <2>2. evt' \in [Events -> BOOLEAN] /\ evt'["api"] = evt["api"]
    BY <2>1 DEF ApiTypes, Events
  <2> QED
    BY <2>1, <2>2 DEF ApiStep, Leaves, Answering
<1>6. CASE F!PauseBegin \/ F!ShutdownBegin \/ F!PauseDone
  <2>1. UNCHANGED <<evt, batch, channel>>
    BY <1>6 DEF F!PauseBegin, F!ShutdownBegin, F!PauseDone
  <2>2. UNCHANGED client \/ F!Finish(TRUE) \/ F!Finish(FALSE) \/ F!Finish(F!Deletes)
    BY <1>6 DEF F!PauseBegin, F!ShutdownBegin, F!PauseDone, F!GoOn
  <2>3. Answering(FaultyClients)
    BY <2>2, FFinishAnswers DEF Answering
  <2> QED
    BY <2>1, <2>3 DEF ApiStep, Leaves, ApiTypes
<1>7. CASE F!ShutdownDone
  <2>1. /\ UNCHANGED <<batch, channel>> /\ (F!Finish(TRUE) \/ F!Finish(FALSE))
        /\ UNCHANGED evt \/ evt' = [evt EXCEPT !["reset"] = FALSE]
    BY <1>7 DEF F!ShutdownDone, F!Rebooted
  <2>2. Answering(FaultyClients)
    BY <2>1, FFinishAnswers
  <2>3. evt' \in [Events -> BOOLEAN] /\ evt'["api"] = evt["api"]
    BY <2>1 DEF ApiTypes, Events
  <2> QED
    BY <2>1, <2>2, <2>3 DEF ApiStep, Leaves
<1>8. CASE F!EndOfBatch \/ F!VcpuStops \/ UNCHANGED F!vars
  <2>1. UNCHANGED <<evt, batch, channel, client>>
    BY <1>8 DEF F!EndOfBatch, F!VcpuStops, F!vars, F!control, F!api
  <2> QED
    BY <2>1 DEF ApiStep, Leaves, Answering, ApiTypes
<1>9. CASE F!GuestActivate \/ \E e \in F!Events : F!GuestLeaves(e)
  <2>1. /\ UNCHANGED <<batch, channel, client>>
        /\ \E e \in {"exit", "reset", "activate"} : evt' = [evt EXCEPT ![e] = TRUE]
    BY <1>9 DEF F!GuestActivate, F!GuestLeaves, F!Raise, F!control, F!api
  <2>2. evt' \in [Events -> BOOLEAN] /\ evt'["api"] = evt["api"]
    BY <2>1 DEF ApiTypes, Events
  <2> QED
    BY <2>1, <2>2 DEF ApiStep, Leaves, Answering
<1> QED
  BY <1>1, <1>2, <1>3, <1>4, <1>5, <1>6, <1>7, <1>8, <1>9 DEF F!Next, F!LoopStep, ApiStep

-----------------------------------------------------------------------------
(* The vCPUs of a guest that is resized.                                   *)

\* Of the vCPU objects only their number matters.
Listed == \E S : vcpus \in Seq(S)

\* The types of the rest.
CpuTypes ==
    /\ threads \in [C!Ids -> Int] /\ active \in [C!Ids -> BOOLEAN]
    /\ inserting \in [C!Ids -> BOOLEAN] /\ removing \in [C!Ids -> BOOLEAN]
    /\ notify \in BOOLEAN /\ ged \in BOOLEAN
    /\ scan \in 0 .. C!NoScan /\ ack \in {"none", "inserting", "tested", "removing"}
    /\ requested \in SUBSET C!Ids

\* The guest holds a flag only while it scans.
ScanHolds == ack # "none" => scan # C!NoScan

\* The inductive invariant of ChangeIsAnnounced.
CpuInv == Listed /\ CpuTypes /\ ScanHolds /\ C!ChangeIsAnnounced

\* The vCPUs with a handle are the first n, and each of them has its thread.
Prefix(n) == \A i \in C!Ids : (active[i] <=> i < n) /\ threads[i] = IF i < n THEN 1 ELSE 0

\* What OneThreadPerVcpu needs: activate_vcpus counts the vCPUs that are there and
\* starts the ids from that number on, which is right only if none above it runs.
FirstOnes == \E n \in 0 .. MaxVcpus : Prefix(n)

-----------------------------------------------------------------------------

\* CpuHotplug counts as FiniteSets does.
LEMMA SameCardinality == ASSUME NEW S PROVE C!Cardinality(S) = Cardinality(S)
BY Zenon DEF C!Cardinality, Cardinality

\* The number of vCPUs is that of their indices.
LEMMA PrefixCount ==
    ASSUME MaxVcpus \in Nat, NEW n \in 0 .. MaxVcpus, Prefix(n)
    PROVE  C!PresentVcpus = n
<1>1. {i \in C!Ids : active[i]} = 0 .. n - 1
  BY DEF Prefix, C!Ids
<1>2. Cardinality(0 .. n - 1) = n
  BY FS_Interval
<1> QED BY <1>1, <1>2, SameCardinality DEF C!PresentVcpus

\* Creating vCPUs appends to the list of them.
LEMMA CreatedIsSeq ==
    ASSUME NEW S, vcpus \in Seq(S), NEW desired \in Nat, C!CreateVcpus(desired)
    PROVE  \E T : vcpus' \in Seq(T)
<1> DEFINE new == [i \in 1 .. desired - Len(vcpus) |-> Len(vcpus) + i - 1]
<1>1. new \in Seq(Int)
  <2>1. CASE desired <= Len(vcpus)
    <3>1. 1 .. desired - Len(vcpus) = {}
      BY <2>1
    <3>2. new = <<>>
      BY <3>1
    <3> QED BY <3>2
  <2>2. CASE desired > Len(vcpus)
    BY <2>2
  <2> QED BY <2>1, <2>2
<1>2. vcpus \in Seq(S \cup Int) /\ new \in Seq(S \cup Int)
  BY <1>1
<1>3. vcpus \o new \in Seq(S \cup Int)
  BY <1>2
<1> QED BY <1>3 DEF C!CreateVcpus

\* So does a restored list.
LEMMA RestoredIsSeq ==
    ASSUME NEW S, vcpus \in Seq(S)
    PROVE  \E T : C!InStringOrder(C!Range(vcpus)) \in Seq(T)
<1>1. Cardinality(C!Range(vcpus)) \in Nat
  <2>1. IsFiniteSet(1 .. Len(vcpus))
    BY FS_Interval
  <2>2. vcpus \in Surjection(1 .. Len(vcpus), C!Range(vcpus))
    BY DEF C!Range, Surjection
  <2> QED BY <2>1, <2>2, FS_Surjection, FS_CardinalityType
<1> DEFINE order == C!InStringOrder(C!Range(vcpus))
           T == {order[k] : k \in 1 .. Cardinality(C!Range(vcpus))}
<1>2. order \in [1 .. Cardinality(C!Range(vcpus)) -> T]
  BY SameCardinality DEF C!InStringOrder
<1>3. order \in Seq(T)
  BY <1>1, <1>2
<1> QED BY <1>3

\* The guest of a VM that has just booted has nothing to be told.
LEMMA CpuInitially ==
    ASSUME MaxVcpus \in Nat, BootVcpus \in 0 .. MaxVcpus, C!Init PROVE CpuInv /\ FirstOnes
<1> USE DEF C!Init
<1>1. vcpus \in Seq(Int)
  BY DEF C!Created
<1>2. Listed /\ ScanHolds
  BY <1>1 DEF Listed, ScanHolds
<1>5. CpuTypes
  <2>1. active \in [C!Ids -> BOOLEAN] /\ inserting \in [C!Ids -> BOOLEAN] /\ removing \in [C!Ids -> BOOLEAN]
    BY DEF C!Ids
  <2>2. threads \in [C!Ids -> Int] /\ scan \in 0 .. C!NoScan
    BY DEF C!NoScan
  <2> QED BY <2>1, <2>2 DEF CpuTypes
<1>3. C!ChangeIsAnnounced
  BY DEF C!ChangeIsAnnounced
<1>4. Prefix(BootVcpus)
  BY DEF Prefix, C!Ids
<1> QED BY <1>2, <1>3, <1>4, <1>5 DEF CpuInv, FirstOnes

\* Every step keeps what is announced: a flag is raised with the notification due,
\* and lowered by the scan that has come to it.
LEMMA CpuStep ==
    ASSUME MaxVcpus \in Nat, CpuInv, [C!Next]_(C!vars) PROVE CpuInv'
<1> USE DEF CpuInv, C!vars, C!states, C!guest, C!Ids, C!NoScan
<1>0. PICK S : vcpus \in Seq(S)
  BY DEF Listed
<1>1. ASSUME NEW d \in 0 .. MaxVcpus, C!ResizeUp(d) PROVE CpuInv'
  <2> USE <1>1 DEF C!ResizeUp, C!ActivateVcpus
  <2>0. Listed'
    BY <1>0, CreatedIsSeq DEF Listed
  <2>1. CpuTypes'
    BY DEF CpuTypes, ScanHolds
  <2>2. ScanHolds'
    BY DEF ScanHolds, CpuTypes
  <2>3. C!ChangeIsAnnounced'
    BY DEF C!ChangeIsAnnounced, ScanHolds, CpuTypes
  <2> QED BY <2>0, <2>1, <2>2, <2>3
<1>2. ASSUME NEW d \in 0 .. MaxVcpus, C!ResizeDown(d) PROVE CpuInv'
  <2> USE <1>2 DEF C!ResizeDown
  <2>0. Listed'
    BY DEF Listed
  <2>1. CpuTypes'
    BY DEF CpuTypes, ScanHolds
  <2>2. ScanHolds'
    BY DEF ScanHolds, CpuTypes
  <2>3. C!ChangeIsAnnounced'
    BY DEF C!ChangeIsAnnounced, ScanHolds, CpuTypes
  <2> QED BY <2>0, <2>1, <2>2, <2>3
<1>3. ASSUME C!NotifyHotplug PROVE CpuInv'
  <2> USE <1>3 DEF C!NotifyHotplug
  <2>0. Listed'
    BY DEF Listed
  <2>1. CpuTypes'
    BY DEF CpuTypes, ScanHolds
  <2>2. ScanHolds'
    BY DEF ScanHolds, CpuTypes
  <2>3. C!ChangeIsAnnounced'
    BY DEF C!ChangeIsAnnounced, ScanHolds, CpuTypes
  <2> QED BY <2>0, <2>1, <2>2, <2>3
<1>4. ASSUME C!Restore PROVE CpuInv'
  <2> USE <1>4 DEF C!Restore
  <2>0. Listed'
    BY <1>0, RestoredIsSeq DEF Listed
  <2>1. CpuTypes'
    <3>1. active' \in [C!Ids -> BOOLEAN] /\ inserting' \in [C!Ids -> BOOLEAN] /\ removing' \in [C!Ids -> BOOLEAN]
      OBVIOUS
    <3>2. threads' \in [C!Ids -> Int]
      OBVIOUS
    <3> QED BY <3>1, <3>2 DEF CpuTypes
  <2>2. ScanHolds'
    BY DEF ScanHolds, CpuTypes
  <2>3. C!ChangeIsAnnounced'
    BY DEF C!ChangeIsAnnounced, ScanHolds, CpuTypes
  <2> QED BY <2>0, <2>1, <2>2, <2>3
<1>5. ASSUME C!GedRead PROVE CpuInv'
  <2> USE <1>5 DEF C!GedRead
  <2>0. Listed'
    BY DEF Listed
  <2>1. CpuTypes'
    <3>1. scan' \in 0 .. C!NoScan
      OBVIOUS
    <3>2. ged' \in BOOLEAN
      OBVIOUS
    <3> QED BY <3>1, <3>2 DEF CpuTypes
  <2>2. ScanHolds'
    BY DEF ScanHolds, CpuTypes
  <2>3. C!ChangeIsAnnounced'
    BY DEF C!ChangeIsAnnounced, ScanHolds, CpuTypes
  <2> QED BY <2>0, <2>1, <2>2, <2>3
<1>6. ASSUME C!ScanInserting PROVE CpuInv'
  <2> USE <1>6 DEF C!ScanInserting
  <2>0. Listed'
    BY DEF Listed
  <2>1. CpuTypes'
    BY DEF CpuTypes, ScanHolds
  <2>2. ScanHolds'
    BY DEF ScanHolds, CpuTypes
  <2>3. C!ChangeIsAnnounced'
    BY DEF C!ChangeIsAnnounced, ScanHolds, CpuTypes
  <2> QED BY <2>0, <2>1, <2>2, <2>3
<1>7. ASSUME C!AckInserting PROVE CpuInv'
  <2> USE <1>7 DEF C!AckInserting
  <2>0. Listed'
    BY DEF Listed
  <2>1. CpuTypes'
    BY DEF CpuTypes, ScanHolds
  <2>2. ScanHolds'
    BY DEF ScanHolds, CpuTypes
  <2>3. C!ChangeIsAnnounced'
    BY DEF C!ChangeIsAnnounced, ScanHolds, CpuTypes
  <2> QED BY <2>0, <2>1, <2>2, <2>3
<1>8. ASSUME C!ScanRemoving PROVE CpuInv'
  <2> USE <1>8 DEF C!ScanRemoving
  <2>0. Listed'
    BY DEF Listed
  <2>1. CpuTypes'
    BY SMTT(30) DEF CpuTypes, ScanHolds
  <2>2. ScanHolds'
    BY DEF ScanHolds, CpuTypes
  <2>3. C!ChangeIsAnnounced'
    BY DEF C!ChangeIsAnnounced, ScanHolds, CpuTypes
  <2> QED BY <2>0, <2>1, <2>2, <2>3
<1>9. ASSUME C!AckRemoving PROVE CpuInv'
  <2> USE <1>9 DEF C!AckRemoving
  <2>0. Listed'
    BY DEF Listed
  <2>1. CpuTypes'
    BY SMTT(30) DEF CpuTypes, ScanHolds
  <2>2. ScanHolds'
    BY DEF ScanHolds, CpuTypes
  <2>3. C!ChangeIsAnnounced'
    BY SMTT(30) DEF C!ChangeIsAnnounced, ScanHolds, CpuTypes
  <2> QED BY <2>0, <2>1, <2>2, <2>3
<1>10. ASSUME C!ScanNext PROVE CpuInv'
  <2> USE <1>10 DEF C!ScanNext
  <2>0. Listed'
    BY DEF Listed
  <2>1. CpuTypes'
    BY SMTT(30) DEF CpuTypes, ScanHolds
  <2>2. ScanHolds'
    BY DEF ScanHolds, CpuTypes
  <2>3. C!ChangeIsAnnounced'
    BY SMTT(30) DEF C!ChangeIsAnnounced, ScanHolds, CpuTypes
  <2> QED BY <2>0, <2>1, <2>2, <2>3
<1>11. ASSUME NEW i \in C!Ids, C!Eject(i) PROVE CpuInv'
  <2> USE <1>11 DEF C!Eject
  <2>0. Listed'
    BY DEF Listed
  <2>1. CpuTypes'
    <3>1. threads' \in [C!Ids -> Int] /\ active' \in [C!Ids -> BOOLEAN]
      BY DEF CpuTypes
    <3> QED BY <3>1 DEF CpuTypes
  <2>2. ScanHolds'
    BY DEF ScanHolds, CpuTypes
  <2>3. C!ChangeIsAnnounced'
    BY DEF C!ChangeIsAnnounced, ScanHolds, CpuTypes
  <2> QED BY <2>0, <2>1, <2>2, <2>3
<1>12. ASSUME NEW i \in C!Ids, C!RefuseEject(i) PROVE CpuInv'
  <2> USE <1>12 DEF C!RefuseEject
  <2>0. Listed'
    BY DEF Listed
  <2>1. CpuTypes'
    BY DEF CpuTypes, ScanHolds
  <2>2. ScanHolds'
    BY DEF ScanHolds, CpuTypes
  <2>3. C!ChangeIsAnnounced'
    BY DEF C!ChangeIsAnnounced, ScanHolds, CpuTypes
  <2> QED BY <2>0, <2>1, <2>2, <2>3
<1>13. CASE UNCHANGED C!vars
  BY <1>13 DEF Listed, CpuTypes, ScanHolds, C!ChangeIsAnnounced
<1> QED
  BY <1>1, <1>2, <1>3, <1>4, <1>5, <1>6, <1>7, <1>8, <1>9, <1>10, <1>11, <1>12, <1>13 DEF C!Next, C!Scan

\* Where the guest ejects from the top, the vCPUs that run stay the first ones.
LEMMA ThreadStep ==
    ASSUME MaxVcpus \in Nat, EjectsFromTop = TRUE, CpuInv, FirstOnes, [C!Next]_(C!vars) PROVE FirstOnes'
<1> USE DEF CpuInv, C!vars, C!states, C!guest
<1>0. PICK n \in 0 .. MaxVcpus : Prefix(n)
  BY DEF FirstOnes
<1>1. ASSUME NEW d \in 0 .. MaxVcpus, C!ResizeUp(d) PROVE FirstOnes'
  <2>1. C!PresentVcpus = n
    BY <1>0, PrefixCount
  <2>2. d > n
    BY <1>1, <2>1 DEF C!ResizeUp
  <2>3. Prefix(d)'
    <3>1. ASSUME NEW i \in C!Ids PROVE (active'[i] <=> i < d) /\ threads'[i] = IF i < d THEN 1 ELSE 0
      <4>1. /\ active'[i] = (active[i] \/ i \in n .. d - 1)
            /\ threads'[i] = IF i \in n .. d - 1 THEN threads[i] + 1 ELSE threads[i]
        BY <1>1, <2>1 DEF C!ResizeUp, C!ActivateVcpus
      <4>2. (active[i] <=> i < n) /\ threads[i] = IF i < n THEN 1 ELSE 0
        BY <1>0 DEF Prefix
      <4>3. i \in Int /\ i >= 0 /\ active[i] \in BOOLEAN
        BY DEF C!Ids, CpuTypes
      <4>4. i < d <=> i < n \/ i \in n .. d - 1
        BY <4>3, <2>2
      <4>5. ~(i < n /\ i \in n .. d - 1)
        BY <4>3
      <4>6. active'[i] <=> i < d
        BY <4>1, <4>2, <4>4
      <4> QED BY <4>1, <4>2, <4>4, <4>5, <4>6
    <3> QED BY <3>1 DEF Prefix
  <2> QED BY <2>3 DEF FirstOnes
<1>2. CASE C!Restore
  <2>1. PICK S : vcpus \in Seq(S)
    BY DEF Listed
  <2>2. PICK m \in 0 .. MaxVcpus : m = IF Len(vcpus) < MaxVcpus THEN Len(vcpus) ELSE MaxVcpus
    BY <2>1
  <2>3. Prefix(m)'
    <3>1. ASSUME NEW i \in C!Ids PROVE (active'[i] <=> i < m) /\ threads'[i] = IF i < m THEN 1 ELSE 0
      <4>1. active'[i] = (i < Len(vcpus)) /\ threads'[i] = IF i < Len(vcpus) THEN 1 ELSE 0
        BY <1>2 DEF C!Restore
      <4>2. i < Len(vcpus) <=> i < m
        BY <2>1, <2>2 DEF C!Ids
      <4> QED BY <4>1, <4>2
    <3> QED BY <3>1 DEF Prefix
  <2> QED BY <2>3 DEF FirstOnes
<1>3. ASSUME NEW i \in C!Ids, C!Eject(i) PROVE FirstOnes'
  <2>1. i < n /\ \A j \in C!Ids : j < n => j <= i
    BY <1>0, <1>3 DEF C!Eject, Prefix
  <2>2. n = i + 1
    BY <2>1 DEF C!Ids
  <2>3. Prefix(i)'
    BY SMTT(30), <1>0, <1>3, <2>2 DEF C!Eject, Prefix, CpuTypes, C!Ids
  <2> QED BY <2>3 DEF FirstOnes, C!Ids
<1>4. ASSUME UNCHANGED <<active, threads>> PROVE FirstOnes'
  BY <1>0, <1>4 DEF FirstOnes, Prefix
<1>5. CASE \/ \E d \in 0 .. MaxVcpus : C!ResizeDown(d)
           \/ C!NotifyHotplug \/ C!Scan \/ (\E i \in C!Ids : C!RefuseEject(i)) \/ UNCHANGED C!vars
  BY <1>4, <1>5 DEF C!ResizeDown, C!NotifyHotplug, C!Scan, C!GedRead, C!ScanInserting, C!AckInserting,
                    C!ScanRemoving, C!AckRemoving, C!ScanNext, C!RefuseEject
<1> QED BY <1>1, <1>2, <1>3, <1>5 DEF C!Next

-----------------------------------------------------------------------------
(* The run.                                                                *)

\* A behaviour of the run is that of the part it starts as.
LEMMA Parts ==
    ASSUME [Next]_vars
    PROVE  /\ part' = part
           /\ part = "vmm" => [E!Next]_(E!vars)
           /\ part = "vmm with faults" => [F!Next]_(F!vars)
           /\ part = "cpus" => [C!Next]_(C!vars)
<1>1. CASE UNCHANGED vars
  BY <1>1 DEF vars, both, vmmVars, pciVars, cpuVars, memVars, E!vars, E!machine, E!control, E!api,
              F!vars, F!machine, F!control, F!api, C!vars, C!states, C!guest
<1>2. CASE Next
  BY <1>2 DEF Next, Vmm, Faulty, Pci, Cpus, Memory
<1> QED
  BY <1>1, <1>2

\* What the event loop keeps true between any two events: it never waits for a
\* request that is not there; and, where no operation fails half-way, a VM that
\* reports Paused executes nothing (Vm::pause) and no vCPU outlives its VM
\* (Vm::shutdown).  It does so for every set of clients and requests, and with a
\* guest that activates its devices at any time.
THEOREM LoopSound ==
    ASSUME IsFiniteSet(Clients), IsFiniteSet(FaultyClients)
    PROVE  Spec => []LoopIsSound
<1> DEFINE Inv == /\ part = "vmm" => ApiInv(Clients) /\ Served(Clients) /\ Life
                  /\ part = "vmm with faults" => ApiInv(FaultyClients) /\ Served(FaultyClients)
<1>1. Init => Inv
  <2>1. E!Init => ApiInv(Clients) /\ Served(Clients) /\ Life
    BY InitiallyCounted, Names DEF E!Init, Served, Life
  <2>2. F!Init => ApiInv(FaultyClients) /\ Served(FaultyClients)
    BY InitiallyCounted, Names DEF F!Init, Served
  <2> QED
    BY <2>1, <2>2 DEF Init
<1>2. Inv /\ [Next]_vars => Inv'
  <2> SUFFICES ASSUME Inv, [Next]_vars PROVE Inv'
    OBVIOUS
  <2>1. ASSUME part = "vmm" PROVE (ApiInv(Clients) /\ Served(Clients) /\ Life)'
    BY <2>1, Parts, EServedStep, EApiSteps, CountStep, LifeStep DEF ApiInv
  <2>2. ASSUME part = "vmm with faults" PROVE (ApiInv(FaultyClients) /\ Served(FaultyClients))'
    BY <2>2, Parts, FServedStep, FApiSteps, CountStep DEF ApiInv
  <2> QED
    BY <2>1, <2>2, Parts
<1>3. Inv => LoopIsSound
  <2>1. ApiInv(Clients) => E!ApiEventHasRequest
    BY CountedHasRequest DEF E!ApiEventHasRequest
  <2>2. ApiInv(FaultyClients) => F!ApiEventHasRequest
    BY CountedHasRequest DEF F!ApiEventHasRequest
  <2>3. Life => E!PausedIsStopped /\ E!NoOrphanVcpu
    BY DEF Life, E!PausedIsStopped, E!NoOrphanVcpu
  <2> QED
    BY <2>1, <2>2, <2>3 DEF LoopIsSound, E!LoopIsSound
<1> QED
  BY <1>1, <1>2, <1>3, PTL DEF Spec

\* The guest comes across every vCPU that it gains or is asked to give up, however
\* resizes, restores, its scan and its ejections interleave (CpuManager::resize,
\* AcpiGedDevice::notify and the method CSCN).
THEOREM Announced ==
    ASSUME MaxVcpus \in Nat, BootVcpus \in 0 .. MaxVcpus
    PROVE  Spec => [](part = "cpus" => C!ChangeIsAnnounced)
<1> DEFINE Inv == part = "cpus" => CpuInv
<1>1. Init => Inv
  BY CpuInitially DEF Init
<1>2. Inv /\ [Next]_vars => Inv'
  BY Parts, CpuStep
<1>3. Inv => (part = "cpus" => C!ChangeIsAnnounced)
  BY DEF CpuInv
<1> QED
  BY <1>1, <1>2, <1>3, PTL DEF Spec

\* If it also ejects the highest vCPU first, no vCPU is ever run by two
\* threads (activate_vcpus, remove_vcpu).
THEOREM FollowResize ==
    ASSUME MaxVcpus \in Nat, BootVcpus \in 0 .. MaxVcpus, EjectsFromTop = TRUE
    PROVE  Spec => []CpusFollowResize
<1> DEFINE Inv == part = "cpus" => CpuInv /\ FirstOnes
<1>1. Init => Inv
  BY CpuInitially DEF Init
<1>2. Inv /\ [Next]_vars => Inv'
  BY Parts, CpuStep, ThreadStep
<1>3. Inv => CpusFollowResize
  BY DEF CpuInv, FirstOnes, Prefix, CpusFollowResize, C!CpusFollowResize, C!OneThreadPerVcpu
<1> QED
  BY <1>1, <1>2, <1>3, PTL DEF Spec
=============================================================================

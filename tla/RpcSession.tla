----------------------------- MODULE RpcSession -----------------------------
(***************************************************************************)
(* AgentSession (coding_agent/agent_session.py) driven by the RPC server   *)
(* (modes/rpc/server.py) or by print mode (modes/print_mode.py).  One      *)
(* reader handles a request at a time; an accepted prompt runs in a task   *)
(* of its own and appends its messages to the current session.             *)
(*                                                                         *)
(* Outputs are written in the order in which the write lock was asked for: *)
(* asyncio.Lock is first come, first served, so asking is the step.  What  *)
(* follows a write is a step of its own, for a writer may suspend.  Reading*)
(* a line from stdin suspends; another reader may have lines buffered.     *)
(* The agent's transcript, its queues, compaction, the thinking level and  *)
(* branches given up by a fork are left out.                               *)
(***************************************************************************)
EXTENDS Naturals, Sequences, FiniteSetsExt

CONSTANTS
    Models,         \* registered models
    MaxLines,       \* bound: lines read, or prompts given to print mode
    MaxSessions,    \* bound: sessions created, the first one included
    MaxFaults       \* bound: appends that fail, and the loss of the client

ASSUME RpcAssumption ==
    /\ Models # {} /\ MaxLines \in Nat /\ MaxSessions \in Nat \ {0} /\ MaxFaults \in Nat

VARIABLES
    mode,           \* "stdio", "buffered" (lines may come without a suspension) or "print"
    reader,         \* where run_rpc_mode or run_print_mode is, and the request it is on
    lines,          \* lines read so far, which numbers the requests
    shutdown,       \* shutdown_requested
    task,           \* per prompt: its task (RPC) or its place in the loop (print)
    running,        \* the prompt the agent runs, 0 for none: is_streaming
    cancelled,      \* _active_signal is cancelled
    said,           \* per prompt: messages its run ended
    persistence,    \* _persistence_error is set
    session,        \* session_manager, by number
    sessions,       \* number of sessions
    path,           \* per session: model changes and messages on the active path
    stored,         \* per session: every message entry
    model, torn,    \* agent.model; history: a set_model failed half-way
    out,            \* what the client was told, in order
    pipe,           \* the client is there
    exit,           \* exit code of print mode, 2 for none
    faults          \* for the bound

vars == <<mode, reader, lines, shutdown, task, running, cancelled, said, persistence, session,
          sessions, path, stored, model, torn, out, pipe, exit, faults>>
agent == <<running, cancelled, said, persistence>>
settings == <<session, sessions, path, model, torn>>

Requests == 1 .. MaxLines
Messages == 2           \* a run ends with its prompt and a reply

(* An entry of a path is a model change or a message. *)
ASSUME EntriesAssumption == \A r \in Requests, k \in 1 .. Messages : <<r, k>> \notin Models

Init ==
    /\ mode \in {"stdio", "buffered", "print"}
    /\ reader = [pc |-> "read", on |-> 0] /\ lines = 0 /\ shutdown = FALSE
    /\ task = [r \in Requests |-> "none"]
    /\ running = 0 /\ cancelled = FALSE /\ said = [r \in Requests |-> 0] /\ persistence = FALSE
    /\ session = 1 /\ sessions = 1
    /\ model \in Models /\ torn = FALSE
    /\ path = [s \in 1 .. MaxSessions |-> IF s = 1 THEN <<model>> ELSE <<>>]
    /\ stored = [s \in 1 .. MaxSessions |-> {}]
    /\ out = <<>> /\ pipe = TRUE /\ exit = 2 /\ faults = 0

-----------------------------------------------------------------------------
(* Output *)

(* _write: a write to a client that is gone raises. *)
Tell(kind, r) == out' = IF pipe THEN Append(out, [kind |-> kind, of |-> r]) ELSE out

Goto(pc, r) == reader' = [pc |-> pc, on |-> r]

(* The response to request r.  If writing it raises, so does writing the error: the server
   leaves its loop and closes. *)
Respond(r, pc) ==
    /\ Tell("response", r)
    /\ IF pipe THEN Goto(pc, IF pc = "draining" THEN running ELSE r) ELSE Goto("closing", 0)

(* The reader takes the next line.  Waiting for stdin lets a created task begin first. *)
Reading ==
    /\ mode # "print" /\ reader.pc = "read" /\ lines < MaxLines
    /\ mode = "stdio" => \A r \in Requests : task[r] # "ready"
    /\ lines' = lines + 1

(* _ensure_idle *)
Idle == running = 0

-----------------------------------------------------------------------------
(* Variants with a mistake in them.  No specification uses them: the checks put each one in
   the place of the definition it resembles, to see that a property notices. *)

(* The server closes without waiting for its tasks. *)
CloseAtOnce ==
    /\ reader.pc = "closing"
    /\ Goto("closed", 0)
    /\ UNCHANGED <<mode, lines, shutdown, task, agent, settings, stored, out, pipe, exit, faults>>

(* A message that is stored makes up for an earlier one that was not. *)
SayForgets(r) ==
    /\ running = r /\ said[r] < Messages
    /\ said' = [said EXCEPT ![r] = @ + 1]
    /\ \/ /\ path' = [path EXCEPT ![session] = Append(@, <<r, said'[r]>>)]
          /\ stored' = [stored EXCEPT ![session] = @ \cup {<<r, said'[r]>>}]
          /\ Tell("event", r)
          /\ persistence' = ~pipe
          /\ UNCHANGED faults
       \/ /\ faults < MaxFaults /\ faults' = faults + 1
          /\ persistence' = TRUE
          /\ UNCHANGED <<path, stored, out>>
    /\ UNCHANGED <<mode, reader, lines, shutdown, task, running, cancelled, session, sessions, model,
                   torn, pipe, exit>>

(* A session is opened while the agent runs. *)
SwitchBusy(s) ==
    /\ Reading /\ s <= sessions
    /\ session' = s
    /\ model' = LET changes == {i \in DOMAIN path[s] : path[s][i] \in Models}
                IN  IF changes = {} THEN model ELSE path[s][Max(changes)]
    /\ torn' = FALSE
    /\ Respond(lines + 1, "read")
    /\ UNCHANGED <<mode, shutdown, task, agent, sessions, path, stored, pipe, exit, faults>>

(* A shutdown waits for the run instead of ending it. *)
ShutdownWaits ==
    /\ Reading
    /\ shutdown' = TRUE
    /\ Respond(lines + 1, "draining")
    /\ UNCHANGED <<mode, task, agent, settings, stored, pipe, exit, faults>>

-----------------------------------------------------------------------------
(* Requests *)

(* A request that changes nothing here: a query, a line that is not a request, one that is
   refused, a message for one of the agent's queues or another mode for them. *)
Answer ==
    /\ Reading
    /\ Respond(lines + 1, "read")
    /\ UNCHANGED <<mode, shutdown, task, agent, settings, stored, pipe, exit, faults>>

(* execute_bash holds the reader while the command runs. *)
Bash ==
    /\ Reading
    /\ Goto("bash", lines + 1)
    /\ UNCHANGED <<mode, shutdown, task, agent, settings, stored, out, pipe, exit, faults>>

BashDone ==
    /\ reader.pc = "bash"
    /\ Respond(reader.on, "read")
    /\ UNCHANGED <<mode, lines, shutdown, task, agent, settings, stored, pipe, exit, faults>>

(* _accept_prompt, nobody streaming: acknowledge, *)
Accept ==
    /\ Reading /\ Idle
    /\ Respond(lines + 1, "spawn")
    /\ UNCHANGED <<mode, shutdown, task, agent, settings, stored, pipe, exit, faults>>

(* then create the task. *)
Spawn ==
    /\ reader.pc = "spawn"
    /\ task' = [task EXCEPT ![reader.on] = "ready"]
    /\ Goto("read", 0)
    /\ UNCHANGED <<mode, lines, shutdown, agent, settings, stored, out, pipe, exit, faults>>

(* Agent.abort: nothing to cancel when no run is active. *)
Cancel == cancelled' = (running # 0)

Abort ==
    /\ Reading
    /\ Cancel
    /\ Respond(lines + 1, "read")
    /\ UNCHANGED <<mode, shutdown, task, running, said, persistence, settings, stored, pipe, exit, faults>>

Shutdown ==
    /\ Reading
    /\ shutdown' = TRUE
    /\ Cancel
    /\ Respond(lines + 1, "draining")
    /\ UNCHANGED <<mode, task, running, said, persistence, settings, stored, pipe, exit, faults>>

(* set_model changes the agent before it appends the entry. *)
SetModel(m) ==
    /\ Reading /\ Idle
    /\ model' = m
    /\ \/ /\ path' = [path EXCEPT ![session] = Append(@, m)]
          /\ torn' = FALSE /\ UNCHANGED faults
       \/ /\ faults < MaxFaults /\ faults' = faults + 1
          /\ torn' = TRUE /\ UNCHANGED path
    /\ Respond(lines + 1, "read")
    /\ UNCHANGED <<mode, shutdown, task, agent, session, sessions, stored, pipe, exit>>

(* new_session switches before it appends what the new session begins with. *)
NewSession ==
    /\ Reading /\ Idle /\ sessions < MaxSessions
    /\ sessions' = sessions + 1 /\ session' = sessions + 1
    /\ \/ /\ path' = [path EXCEPT ![sessions + 1] = <<model>>] /\ UNCHANGED faults
       \/ /\ faults < MaxFaults /\ faults' = faults + 1 /\ UNCHANGED path
    /\ torn' = FALSE
    /\ Respond(lines + 1, "read")
    /\ UNCHANGED <<mode, shutdown, task, agent, model, stored, pipe, exit>>

ModelChanges(p) == {i \in DOMAIN p : p[i] \in Models}

(* _restore_branch_runtime: the last model change on the path, if there is one. *)
Restored(p) == IF ModelChanges(p) = {} THEN model ELSE p[Max(ModelChanges(p))]

SwitchSession(s) ==
    /\ Reading /\ Idle /\ s <= sessions
    /\ session' = s
    /\ model' = Restored(path[s])
    /\ torn' = FALSE
    /\ Respond(lines + 1, "read")
    /\ UNCHANGED <<mode, shutdown, task, agent, sessions, path, stored, pipe, exit, faults>>

(* To the entry k of the active path, or before the first one. *)
Fork(k) ==
    /\ Reading /\ Idle /\ k <= Len(path[session])
    /\ path' = [path EXCEPT ![session] = SubSeq(@, 1, k)]
    /\ model' = Restored(SubSeq(path[session], 1, k))
    /\ torn' = FALSE
    /\ Respond(lines + 1, "read")
    /\ UNCHANGED <<mode, shutdown, task, agent, session, sessions, stored, pipe, exit, faults>>

-----------------------------------------------------------------------------
(* The end of run_rpc_mode *)

EndOfInput ==
    /\ mode # "print" /\ reader.pc = "read"
    /\ mode = "stdio" => \A r \in Requests : task[r] # "ready"
    /\ Goto("draining", running)
    /\ UNCHANGED <<mode, lines, shutdown, task, agent, settings, stored, out, pipe, exit, faults>>

(* wait_for_idle: the task that was active. *)
Drain ==
    /\ reader.pc = "draining"
    /\ reader.on # 0 => task[reader.on] = "done"
    /\ Goto("closing", 0)
    /\ UNCHANGED <<mode, lines, shutdown, task, agent, settings, stored, out, pipe, exit, faults>>

(* close gathers the tasks and unsubscribes. *)
Close ==
    /\ reader.pc = "closing"
    /\ \A r \in Requests : task[r] \in {"none", "done"}
    /\ Goto("closed", 0)
    /\ UNCHANGED <<mode, lines, shutdown, task, agent, settings, stored, out, pipe, exit, faults>>

-----------------------------------------------------------------------------
(* run_print_mode: the prompts one after the other, until one raises. *)

PrintPrompt ==
    /\ mode = "print" /\ reader.pc = "read" /\ lines < MaxLines
    /\ lines' = lines + 1
    /\ task' = [task EXCEPT ![lines + 1] = "ready"]
    /\ Goto("wait", lines + 1)
    /\ UNCHANGED <<mode, shutdown, agent, settings, stored, out, pipe, exit, faults>>

Raised(r) == \E i \in DOMAIN out : out[i] = [kind |-> "error", of |-> r]

PrintReturned ==
    /\ reader.pc = "wait" /\ task[reader.on] = "done"
    /\ IF Raised(reader.on) \/ ~pipe
       THEN Goto("closed", 0) /\ exit' = 1
       ELSE Goto("read", 0) /\ UNCHANGED exit
    /\ UNCHANGED <<mode, lines, shutdown, task, agent, settings, stored, out, pipe, faults>>

(* 0 if the last reply is one and did not stop for an error. *)
PrintEnd ==
    /\ mode = "print" /\ reader.pc = "read" /\ lines > 0
    /\ exit' \in {0, 1}
    /\ Goto("closed", 0)
    /\ UNCHANGED <<mode, lines, shutdown, task, agent, settings, stored, out, pipe, faults>>

-----------------------------------------------------------------------------
(* AgentSession.prompt in its task *)

(* Another run is active: refused, which run_prompt reports.  Otherwise the agent streams. *)
Start(r) ==
    /\ task[r] = "ready"
    /\ IF Idle
       THEN /\ task' = [task EXCEPT ![r] = "running"]
            /\ running' = r /\ cancelled' = FALSE /\ persistence' = FALSE
            /\ Tell("event", r)
       ELSE /\ task' = [task EXCEPT ![r] = "done"]
            /\ Tell("error", r)
            /\ UNCHANGED <<running, cancelled, persistence>>
    /\ UNCHANGED <<mode, reader, lines, shutdown, said, settings, stored, pipe, exit, faults>>

(* _on_agent_event for the end of a message: it is appended, then the listeners hear of it.
   What either raises is kept, Agent._dispatch swallows it, and the run goes on. *)
Say(r) ==
    /\ running = r /\ said[r] < Messages
    /\ said' = [said EXCEPT ![r] = @ + 1]
    /\ \/ /\ path' = [path EXCEPT ![session] = Append(@, <<r, said'[r]>>)]
          /\ stored' = [stored EXCEPT ![session] = @ \cup {<<r, said'[r]>>}]
          /\ Tell("event", r)
          /\ persistence' = (persistence \/ ~pipe)
          /\ UNCHANGED faults
       \/ /\ faults < MaxFaults /\ faults' = faults + 1
          /\ persistence' = TRUE
          /\ UNCHANGED <<path, stored, out>>
    /\ UNCHANGED <<mode, reader, lines, shutdown, task, running, cancelled, session, sessions, model,
                   torn, pipe, exit>>

(* The run is over; _raise_persistence_error, or else the settled event. *)
Finish(r) ==
    /\ running = r /\ said[r] = Messages
    /\ running' = 0 /\ cancelled' = FALSE /\ persistence' = FALSE
    /\ task' = [task EXCEPT ![r] = "done"]
    /\ Tell(IF persistence THEN "error" ELSE "settled", r)
    /\ UNCHANGED <<mode, reader, lines, shutdown, said, settings, stored, pipe, exit, faults>>

(* The client closes its end. *)
Hangup ==
    /\ pipe /\ faults < MaxFaults
    /\ pipe' = FALSE /\ faults' = faults + 1
    /\ UNCHANGED <<mode, reader, lines, shutdown, task, agent, settings, stored, out, exit>>

Next ==
    \/ Answer \/ Bash \/ BashDone \/ Accept \/ Spawn \/ Abort \/ Shutdown
    \/ \E m \in Models : SetModel(m)
    \/ NewSession
    \/ \E s \in 1 .. MaxSessions : SwitchSession(s)
    \/ \E k \in 0 .. MaxLines + Messages * MaxLines : Fork(k)
    \/ EndOfInput \/ Drain \/ Close
    \/ PrintPrompt \/ PrintReturned \/ PrintEnd
    \/ \E r \in Requests : Start(r) \/ Say(r) \/ Finish(r)
    \/ Hangup

(* A created task begins, the server ends what it began, and a cancelled run comes to its
   end (see AgentLoop); a run nobody cancels may wait for its provider for ever. *)
Fairness ==
    /\ WF_vars(Spawn) /\ WF_vars(Drain) /\ WF_vars(Close)
    /\ \A r \in Requests : WF_vars(Start(r)) /\ WF_vars(cancelled /\ (Say(r) \/ Finish(r)))

Spec == Init /\ [][Next]_vars /\ Fairness

-----------------------------------------------------------------------------
Kinds(r) == {out[i].kind : i \in {j \in DOMAIN out : out[j].of = r}}
Over(o) == o.kind \in {"settled", "error"}

Response(r) == [kind |-> "response", of |-> r]
Told(o, n) == \E i \in 1 .. n : out[i] = o

(* Requests are answered once each and in their order, and what a prompt's task has to say
   comes after its acknowledgement and is over with its outcome. *)
InOrder ==
    /\ \A i \in DOMAIN out : out[i].kind = "response" =>
            /\ ~Told(out[i], i - 1)
            /\ \A r \in 1 .. out[i].of - 1 : Told(Response(r), i - 1)
    /\ pipe /\ mode # "print" => \A r \in Requests :
            Told(Response(r), Len(out)) <=> r <= lines - (IF reader.pc = "bash" THEN 1 ELSE 0)
    /\ \A i \in DOMAIN out : out[i].kind # "response" =>
            /\ mode = "print" \/ Told(Response(out[i].of), i - 1)
            /\ \A j \in 1 .. i - 1 : out[j].of = out[i].of => ~Over(out[j])

(* When the server has closed, every prompt whose acknowledgement was followed by a task has
   told its client how it ended: shutdown and the end of the input lose no prompt. *)
NobodyLeftWaiting ==
    reader.pc = "closed" /\ pipe =>
        /\ running = 0
        /\ \A r \in Requests : task[r] # "none" => Kinds(r) \cap {"settled", "error"} # {}

(* Whatever comes in between, a client that is there hears of every request it sent, in order
   and once, and of the end of every prompt. *)
ClientsServed == InOrder /\ NobodyLeftWaiting

(* A run that is reported as settled, or for which print mode exits with 0, has every one of
   its messages in the session: a failed append is not made good by later ones. *)
FailureReported ==
    \A r \in Requests :
        "settled" \in Kinds(r) \/ (exit = 0 /\ r <= lines) =>
            \A k \in 1 .. said[r] : \E s \in 1 .. sessions : <<r, k>> \in stored[s]

(* The messages of one run are all in one session, whatever sessions are created, opened and
   forked in the meantime, also between the acknowledgement of a prompt and its start.  And
   opening the current session again would not change the model, unless the last change was
   answered with an error. *)
SessionsApart ==
    /\ \A s, u \in 1 .. sessions : \A e \in stored[s], f \in stored[u] : e[1] = f[1] => s = u
    /\ torn \/ Restored(path[session]) = model

(* On stdin a shutdown ends the server, for it cancels the run that is active. *)
ShutdownCloses == mode = "stdio" /\ shutdown ~> reader.pc = "closed"
=============================================================================

-------------------------- MODULE ExtensionRuntime --------------------------
(***************************************************************************)
(* CodingAgentRuntime (coding_agent/runtime.py) with its ExtensionHosts    *)
(* (extensions/host.py), above one AgentSession and a PackageManager: how  *)
(* packages are installed and removed, extensions activated in a candidate *)
(* host and the agent's tools, prompt and resource roots exchanged, while  *)
(* the agent may start a run at any await and another process may change   *)
(* the packages.                                                           *)
(*                                                                         *)
(* One operation at a time: no caller in the repository overlaps two.  The *)
(* package manager appears by what a whole call does; PackageStore has its *)
(* steps.  A package carries one extension of its own name.  An active     *)
(* extension is the pair of its host and its name; base tools and the base *)
(* prompt are left out of the sets of what extensions contributed.         *)
(***************************************************************************)
EXTENDS Naturals, Sequences, FiniteSets, SequencesExt

CONSTANTS
    Packages,       \* packages that may be installed
    Explicit,       \* extensions given by path in the options
    Order,          \* all of them by priority: packages by name, then paths
    ToolOf,         \* the tool each registers
    BaseTools,      \* names of the tools of the session
    MaxHosts,       \* bound: hosts in use at a time
    RuntimeFaults   \* bound: errors of extensions, files and other processes

Exts == Packages \cup Explicit

ASSUME RuntimeAssumption ==
    /\ MaxHosts \in Nat \ {0} /\ RuntimeFaults \in Nat
    /\ Packages \cap Explicit = {} /\ Order \in Seq(Exts) /\ ToSet(Order) = Exts

VARIABLES
    installed,      \* packages in the lock file
    streaming,      \* agent.is_streaming
    started, strict,\* of the runtime; the second is an option
    host,           \* self.extensions
    active,         \* pairs <<host, extension>> that are activated and not disposed
    tools, prompt,  \* pairs that contributed to agent.tools, to agent.system_prompt
    roots,          \* packages among the resource roots
    job,            \* the operation under way
    errors,
    noted,          \* history: a rollback failed too, or another process changed something
    bare,           \* history: a reload failed after it had rebuilt the prompt, and the fragments
                    \* were not added again: the extensions not listed, or the agent busy
    torn,           \* history: the runtime let go of an agent that was busy again, or after
                    \* a start() that failed once _started was set
    collided        \* history: candidates whose tools collided with the session's

agentVars == <<streaming, tools, prompt, roots>>
historyVars == <<noted, bare, torn, collided>>
runtimeVars == <<installed, started, strict, host, active, agentVars, job, errors, historyVars>>

NoJob == [kind |-> "none", pkg |-> "", pc |-> "idle", todo |-> {}, cand |-> 0, old |-> 0,
          was |-> FALSE, back |-> FALSE]
Running == job # NoJob
JobAt(pc) == Running /\ job.pc = pc
Proceed(pc) == job' = [job EXCEPT !.pc = pc]

In(h) == {x \in active : x[1] = h}
NamesIn(h) == {x[2] : x \in In(h)}
HostTools(h) == {ToolOf[e] : e \in NamesIn(h)}

Used == {host} \cup {x[1] : x \in active \cup tools \cup prompt} \cup {job.cand, job.old}
Fresh == CHOOSE h \in 1 .. MaxHosts : h \notin Used
CanHost == Cardinality((1 .. MaxHosts) \ Used) >= 2      \* an operation opens two at most

RuntimeInit ==
    /\ installed = {} /\ streaming = FALSE /\ started = FALSE
    /\ strict \in BOOLEAN
    /\ host = 1 /\ active = {} /\ tools = {} /\ prompt = {} /\ roots = {}
    /\ job = NoJob /\ errors = 0
    /\ noted = FALSE /\ bare = FALSE /\ torn = FALSE /\ collided = {}

(* Where an exception goes: the handler of start(), the rollback of install_package() and
   remove_package(), or the caller.  A second one is added as a note to the first. *)
Throw(o) ==
    CASE o.kind = "start" -> [o EXCEPT !.pc = "let_go"]
      [] o.kind \in {"install", "remove"} /\ ~o.back -> [o EXCEPT !.pc = "rollback", !.back = TRUE]
      [] OTHER -> NoJob
Propagate == job' = Throw(job) /\ noted' = (noted \/ (job.kind \in {"install", "remove"} /\ job.back))

Fault == errors < RuntimeFaults /\ errors' = errors + 1

-----------------------------------------------------------------------------
(* Variants with a mistake in them.  No specification uses them: the checks put each one in
   the place of the definition it resembles, to see that a property notices. *)

(* The tools are exchanged after the old host is closed. *)
ApplyLate ==
    /\ JobAt("swap")
    /\ host' = job.cand
    /\ job' = [job EXCEPT !.pc = "close_old", !.old = host]
    /\ UNCHANGED <<installed, streaming, started, strict, active, tools, prompt, roots, errors,
                   historyVars>>

-----------------------------------------------------------------------------
(* Entry points *)

Begin(kind, pkg, pc) ==
    /\ job = NoJob /\ CanHost
    /\ job' = [NoJob EXCEPT !.kind = kind, !.pkg = pkg, !.pc = pc, !.was = pkg \in installed]

Start ==
    /\ ~started /\ ~streaming /\ ~torn
    /\ Begin("start", "", "sync")
    /\ roots' = {}
    /\ UNCHANGED <<installed, streaming, started, strict, host, active, tools, prompt, errors,
                   historyVars>>

Reload ==
    /\ started /\ ~streaming
    /\ Begin("reload", "", "sync")
    /\ UNCHANGED <<installed, started, strict, host, active, agentVars, errors, historyVars>>

(* packages.install(finalize=False) and packages.stage_remove() leave a receipt. *)
InstallPackage(p) ==
    /\ started /\ ~streaming
    /\ Begin("install", p, "validate")
    /\ installed' = installed \cup {p}
    /\ UNCHANGED <<started, strict, host, active, agentVars, errors, historyVars>>

RemovePackage(p) ==
    /\ started /\ ~streaming /\ p \in installed
    /\ Begin("remove", p, "guard")
    /\ installed' = installed \ {p}
    /\ UNCHANGED <<started, strict, host, active, agentVars, errors, historyVars>>

(* close() has unsubscribed and waits for the session. *)
Close ==
    /\ started /\ ~streaming
    /\ Begin("close", "", "let_go")
    /\ UNCHANGED <<installed, started, strict, host, active, agentVars, errors, historyVars>>

-----------------------------------------------------------------------------
(* _validate_receipt_extensions: a host of its own activates the package and is closed. *)
Validate ==
    /\ JobAt("validate")
    /\ \/ /\ Proceed("guard") /\ UNCHANGED <<errors, noted>>
       \/ /\ Fault /\ Propagate
    /\ UNCHANGED <<installed, started, strict, host, active, agentVars, bare, torn, collided>>

(* reload_extensions: _ensure_idle *)
Guard ==
    /\ JobAt("guard")
    /\ IF streaming THEN Propagate ELSE Proceed("sync") /\ UNCHANGED noted
    /\ UNCHANGED <<installed, started, strict, host, active, agentVars, errors, bare, torn, collided>>

(* _sync_package_resources: the roots are set first; the prompt is built from the resources
   alone, and refused to an agent that runs. *)
Sync ==
    /\ JobAt("sync")
    /\ roots' = installed
    /\ IF streaming THEN Propagate /\ UNCHANGED prompt
       ELSE prompt' = {} /\ Proceed("discover") /\ UNCHANGED noted
    /\ UNCHANGED <<installed, streaming, started, strict, host, active, tools, errors, bare, torn,
                   collided>>

(* _discover_descriptors: a missing file or two paths for one name raise, outside the try. *)
Discover ==
    /\ JobAt("discover")
    /\ \/ /\ job' = [job EXCEPT !.pc = "activate", !.cand = Fresh, !.todo = installed \cup Explicit]
          /\ UNCHANGED <<errors, noted, bare>>
       \/ Fault /\ Propagate /\ bare' = TRUE
    /\ UNCHANGED <<installed, started, strict, host, active, agentVars, torn, collided>>

(* The first in order of those that are left. *)
Rank(e) == CHOOSE i \in DOMAIN Order : Order[i] = e
Foremost == CHOOSE e \in job.todo : \A f \in job.todo : Rank(e) <= Rank(f)

(* ExtensionHost._stage of the next descriptor: its tool is free, and its activate() returns. *)
Activate ==
    /\ JobAt("activate") /\ job.todo # {}
    /\ ToolOf[Foremost] \notin HostTools(job.cand)
    /\ active' = active \cup {<<job.cand, Foremost>>}
    /\ job' = [job EXCEPT !.todo = @ \ {Foremost}]
    /\ UNCHANGED <<installed, started, strict, host, agentVars, errors, historyVars>>

(* Or it raises, after its own disposers have run; strict hosts take the others back. *)
ActivateFails ==
    /\ JobAt("activate") /\ job.todo # {}
    /\ IF ToolOf[Foremost] \in HostTools(job.cand) THEN UNCHANGED errors ELSE Fault
    /\ IF strict THEN Proceed("close_cand") ELSE job' = [job EXCEPT !.todo = @ \ {Foremost}]
    /\ UNCHANGED <<installed, started, strict, host, active, agentVars, historyVars>>

(* except Exception of reload_extensions: the contributions of the live host once more,
   which an agent that runs refuses. *)
Reapply ==
    /\ IF job.kind = "start" \/ streaming THEN UNCHANGED <<tools, prompt>>
       ELSE tools' = In(host) /\ prompt' = In(host)
    /\ bare' = (streaming \/ (bare /\ job.kind = "start"))

(* _validate_tool_contributions *)
Check ==
    /\ JobAt("activate") /\ job.todo = {}
    /\ IF HostTools(job.cand) \cap BaseTools = {}
       THEN Proceed("swap") /\ UNCHANGED <<tools, prompt, noted, bare, collided>>
       ELSE /\ collided' = collided \cup {job.cand}
            /\ Reapply /\ Propagate
    /\ UNCHANGED <<installed, streaming, started, strict, host, active, roots, errors, torn>>

(* self.extensions = candidate; _apply_contributions(), which an agent that runs refuses. *)
Swap ==
    /\ JobAt("swap")
    /\ IF streaming
       THEN /\ job' = [job EXCEPT !.pc = IF job.kind = "start" THEN "let_go" ELSE "close_cand"]
            /\ host' = IF job.kind = "start" THEN job.cand ELSE host
            /\ UNCHANGED <<tools, prompt>>
       ELSE /\ host' = job.cand /\ tools' = In(job.cand) /\ prompt' = In(job.cand)
            /\ job' = [job EXCEPT !.pc = "close_old", !.old = host]
    /\ UNCHANGED <<installed, streaming, started, strict, active, roots, errors, historyVars>>

(* ExtensionHost.close: deactivate one more, the last in order first. *)
Closing == CASE JobAt("close_old") -> job.old [] JobAt("close_cand") -> job.cand
             [] JobAt("let_go") -> host [] OTHER -> 0
LastOf(h) == CHOOSE e \in NamesIn(h) : \A f \in NamesIn(h) : Rank(f) <= Rank(e)

Deactivate ==
    /\ Closing # 0 /\ In(Closing) # {}
    /\ active' = active \ {<<Closing, LastOf(Closing)>>}
    /\ UNCHANGED <<installed, started, strict, host, agentVars, job, errors, historyVars>>

(* The failed candidate is closed. *)
CandidateClosed ==
    /\ JobAt("close_cand") /\ In(job.cand) = {}
    /\ Reapply /\ Propagate
    /\ UNCHANGED <<installed, streaming, started, strict, host, active, roots, errors, torn, collided>>

(* The old host is closed; self._started = True; state() reads the lock file and may raise. *)
Reloaded ==
    /\ JobAt("close_old") /\ In(job.old) = {}
    /\ started' = TRUE
    /\ bare' = FALSE
    /\ \/ /\ IF job.kind \in {"install", "remove"} /\ ~job.back THEN Proceed("finalize") ELSE job' = NoJob
          /\ UNCHANGED <<errors, noted>>
       \/ Fault /\ Propagate
    /\ UNCHANGED <<installed, strict, host, active, agentVars, torn, collided>>

(* The entry is as the receipt left it. *)
ReceiptCurrent == (job.pkg \in installed) = (job.kind = "install")

(* receipt.finalize() *)
FinalizeReceipt ==
    /\ JobAt("finalize")
    /\ \/ ReceiptCurrent /\ job' = NoJob /\ UNCHANGED <<errors, noted>>
       \/ ~ReceiptCurrent /\ Propagate /\ UNCHANGED errors
       \/ Fault /\ Propagate
    /\ UNCHANGED <<installed, started, strict, host, active, agentVars, bare, torn, collided>>

(* receipt.rollback(), then reload_extensions() *)
Rollback ==
    /\ JobAt("rollback")
    /\ IF ReceiptCurrent
       THEN /\ installed' = IF job.was THEN installed \cup {job.pkg} ELSE installed \ {job.pkg}
            /\ Proceed("guard") /\ UNCHANGED noted
       ELSE Propagate /\ UNCHANGED installed
    /\ UNCHANGED <<started, strict, host, active, agentVars, errors, bare, torn, collided>>

(* close(), and the handler of start(), when the host is closed: the roots of before, then
   the resources, refused while the agent runs, then the agent's own tools and prompt. *)
LetGo ==
    /\ JobAt("let_go") /\ In(host) = {}
    /\ roots' = {}
    /\ IF streaming
       THEN torn' = TRUE /\ UNCHANGED <<tools, prompt, started>>
       ELSE /\ tools' = {} /\ prompt' = {}
            /\ started' = (started /\ job.kind # "close")
            /\ torn' = (torn \/ started')
    /\ job' = NoJob
    /\ UNCHANGED <<installed, streaming, strict, host, active, errors, noted, bare, collided>>

-----------------------------------------------------------------------------
(* Around the runtime *)

(* A run of the agent begins or ends. *)
AgentRun ==
    /\ streaming' = ~streaming
    /\ UNCHANGED <<installed, started, strict, host, active, tools, prompt, roots, job, errors,
                   historyVars>>

(* Another process installs or removes a package. *)
External(p) ==
    /\ Fault
    /\ installed' = IF p \in installed THEN installed \ {p} ELSE installed \cup {p}
    /\ noted' = TRUE
    /\ UNCHANGED <<started, strict, host, active, agentVars, job, bare, torn, collided>>

RuntimeNext ==
    \/ Start \/ Reload \/ Close
    \/ \E p \in Packages : InstallPackage(p) \/ RemovePackage(p) \/ External(p)
    \/ Validate \/ Guard \/ Sync \/ Discover \/ Activate \/ ActivateFails \/ Check \/ Swap
    \/ Deactivate \/ CandidateClosed \/ Reloaded \/ FinalizeReceipt \/ Rollback \/ LetGo
    \/ AgentRun

RuntimeSpec == RuntimeInit /\ [][RuntimeNext]_runtimeVars

-----------------------------------------------------------------------------
(* The agent never holds a tool or a prompt fragment of an extension that has been disposed,
   at any await of an operation: the exchange comes before the old host is closed, and a
   refused one leaves the old host alive.  While the runtime lets go of the agent it may,
   and afterwards when a run began in that time. *)
ToolsLive ==
    torn \/ JobAt("let_go") \/ tools \cup prompt \subseteq active

(* An extension that is active belongs to the live host, or to a host that the operation under
   way will close or put in its place: none is forgotten by any way out, except a candidate
   that failed the test against the session's own tools. *)
NothingLeaks ==
    \A x \in active :
        x[1] \in {host} \cup collided \/ (Running /\ x[1] \in {job.cand, job.old})

(* Between operations of a strict runtime, the live extensions, the agent's tools and the
   resource roots are those of the installed packages: a failed change of the packages has
   been taken back in all four places, and a success has reached all of them.  The history
   variables name what is excluded. *)
Settled == started /\ ~Running /\ strict /\ ~noted /\ ~torn
Consistent ==
    Settled =>
        /\ NamesIn(host) = installed \cup Explicit
        /\ tools = In(host)
        /\ prompt = In(host) \/ bare
        /\ roots = installed

(* The extensions at work are those of the packages, at every await and whichever step of an
   operation fails: see the three parts. *)
HostSound == ToolsLive /\ NothingLeaks /\ Consistent
=============================================================================

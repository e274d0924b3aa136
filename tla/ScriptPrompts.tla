--------------------------- MODULE ScriptPrompts ---------------------------
(***************************************************************************)
(* Scripts and the questions they put to the user: the run lock and the    *)
(* deadline of lua/lua_vm.cc, the permission round trip of                 *)
(* network/chat_ws.cc, and the skill threads of wasm/wasm_sandbox.cc that  *)
(* ask the same way under a watchdog.                                      *)
(*                                                                         *)
(* The question is one global: s_perm_action_id, s_perm_approved and a     *)
(* binary semaphore.  Answers come in over a WebSocket that the HTTP task  *)
(* serves, which runs scripts itself.                                      *)
(***************************************************************************)
CONSTANTS Httpd,      \* the HTTP server's task: /v1/lua/run without "async"
          Others,     \* other tasks that run Lua: the worker of the queue, the
                      \* async run, the voice and chat tools
          Skills,     \* threads of WASM skills
          Ids,        \* action ids; one is used again when nobody knows it any more
          None

Scripts == {Httpd} \cup Others
Tasks == Scripts \cup Skills

ASSUME PromptAssumption ==
    /\ Httpd \notin Others /\ Skills \cap Scripts = {}
    /\ None \notin Ids \cup Tasks

VARIABLES pc,          \* idle, lock, run, show, wait, read; wasm: in wasm.run(); hung
          by,          \* the script that waits in wasm.run() for a skill
          runLock,     \* who has s_run_lock
          due,         \* past s_deadline_us or the watchdog's budget: no, yes, or only
                       \* for the time the user was asked by it ("user") or by the
                       \* skill it waits for ("skill")
          fired,       \* skills whose watchdog has fired
          permId, permApproved, sem,   \* s_perm_action_id, s_perm_approved, s_perm_semaphore
          mine,        \* action_id in request_permission()
          signalled,   \* its local
          shown,       \* questions that are open in the app
          inbox,       \* answers on their way to the HTTP task
          said,        \* history: what the user answered to each open question
          alone        \* history: no other question was put while it was open

perm == <<permId, permApproved, sem, mine, signalled, shown, said, alone>>
vars == <<pc, by, runLock, due, fired, perm, inbox>>

Init == /\ pc = [t \in Tasks |-> "idle"]
        /\ by = [s \in Skills |-> None]
        /\ runLock = None
        /\ due = [t \in Tasks |-> "no"]
        /\ fired = {}
        /\ permId = None /\ permApproved = FALSE /\ sem = FALSE
        /\ mine = [t \in Tasks |-> None]
        /\ signalled = [t \in Tasks |-> FALSE]
        /\ shown = {} /\ inbox = {}
        /\ said = [t \in Tasks |-> {}]
        /\ alone = [t \in Tasks |-> TRUE]

Goto(t, l) == pc' = [pc EXCEPT ![t] = l]
Asking == {t \in Tasks : pc[t] \in {"show", "wait", "read"}}

-----------------------------------------------------------------------------
(* run_chunk() *)

Start(t) ==
    /\ t \in Scripts /\ pc[t] = "idle"
    /\ Goto(t, "lock")
    /\ UNCHANGED <<by, runLock, due, fired, perm, inbox>>

TakeLock(t) ==
    /\ pc[t] = "lock" /\ runLock = None
    /\ runLock' = t
    /\ Goto(t, "run")
    /\ UNCHANGED <<by, due, fired, perm, inbox>>

\* Ten seconds in which somebody else had the lock.
Busy_GoesOn(t) ==
    /\ pc[t] = "lock" /\ runLock # None
    /\ Goto(t, "run")
    /\ UNCHANGED <<by, runLock, due, fired, perm, inbox>>
Busy(t) ==
    /\ pc[t] = "lock" /\ runLock # None
    /\ Goto(t, "idle")
    /\ UNCHANGED <<by, runLock, due, fired, perm, inbox>>

\* The deadline goes with the run, however it ends.
RunEnds(t) ==
    /\ t \in Scripts /\ pc[t] = "run"
    /\ runLock' = None
    /\ due' = [due EXCEPT ![t] = "no"]
    /\ Goto(t, "idle")
    /\ UNCHANGED <<by, fired, perm, inbox>>

\* The count hook raises the error; pcall() does not get a script past it.
TimesOut(t) == due[t] # "no" /\ RunEnds(t)

\* The clock: a task's own time, and the time it waits for the user.
SkillAsks(t) == \E s \in Skills : by[s] = t /\ pc[s] = "wait"
TimePasses(t) ==
    /\ due[t] = "no"
    /\ \/ pc[t] = "run" /\ due' = [due EXCEPT ![t] = "yes"]
       \/ pc[t] = "wait" /\ due' = [due EXCEPT ![t] = "user"]
       \/ pc[t] = "wasm" /\ due' = [due EXCEPT ![t] = IF SkillAsks(t) THEN "skill" ELSE "yes"]
    /\ UNCHANGED <<pc, by, runLock, fired, perm, inbox>>

-----------------------------------------------------------------------------
(* A skill's thread, as far as it asks; SkillRun has its life *)

SkillStart(t) ==
    /\ t \in Skills /\ pc[t] = "idle"
    /\ Goto(t, "run")
    /\ UNCHANGED <<by, runLock, due, fired, perm, inbox>>

\* wasm.run(): the script waits for the thread, under its own deadline.
RunSkill(t, s) ==
    /\ pc[t] = "run" /\ pc[s] = "idle"
    /\ pc' = [pc EXCEPT ![t] = "wasm", ![s] = "run"]
    /\ by' = [by EXCEPT ![s] = t]
    /\ UNCHANGED <<runLock, due, fired, perm, inbox>>

\* load_and_run_bytes() counts, whatever the thread is doing.
WatchdogFires(t) ==
    /\ t \in Skills \ fired /\ pc[t] # "idle"
    /\ due[t] # "no"
    /\ fired' = fired \cup {t}
    /\ UNCHANGED <<pc, by, runLock, due, perm, inbox>>

SkillEnds(t) ==
    /\ t \in Skills /\ pc[t] = "run"
    /\ fired' = fired \ {t}
    /\ due' = [due EXCEPT ![t] = "no"]
    /\ pc' = [u \in Tasks |-> IF u = t THEN "idle" ELSE IF u = by[t] THEN "run" ELSE pc[u]]
    /\ by' = [by EXCEPT ![t] = None]
    /\ UNCHANGED <<runLock, perm, inbox>>

\* The watchdog terminates one call; an on_stop() that comes after it may never
\* return (SkillRun).
Hangs(t) ==
    /\ t \in fired /\ pc[t] = "run"
    /\ Goto(t, "hung")
    /\ UNCHANGED <<by, runLock, due, fired, perm, inbox>>

-----------------------------------------------------------------------------
(* request_permission().  With s_perm_allow_writes on it answers for the   *)
(* user at once and changes nothing: a task that runs then just goes on.   *)

Known == shown \cup {a.id : a \in inbox} \cup {permId} \cup {mine[t] : t \in Tasks}

\* Left over from a question that was answered too late.
Reset_Kept == UNCHANGED sem
Reset == sem' = FALSE

Ask(t) ==
    /\ pc[t] = "run" /\ t \notin fired
    /\ Ids \ Known # {}
    /\ LET i == CHOOSE i \in Ids \ Known : TRUE
       IN permId' = i /\ mine' = [mine EXCEPT ![t] = i]
    /\ permApproved' = FALSE
    /\ Reset
    /\ alone' = [s \in Tasks |-> IF s = t THEN Asking = {} ELSE alone[s] /\ s \notin Asking]
    /\ Goto(t, "show")
    /\ UNCHANGED <<by, runLock, due, fired, signalled, shown, said, inbox>>

Show(t) ==
    /\ pc[t] = "show"
    /\ shown' = shown \cup {mine[t]}
    /\ Goto(t, "wait")
    /\ UNCHANGED <<by, runLock, due, fired, permId, permApproved, sem, mine, signalled, said, alone, inbox>>

\* The semaphore, or 60 s without it.
Wakes_Never(t, heard) == heard /\ sem
Wakes(t, heard) == heard => sem
Woken(t, heard) ==
    /\ pc[t] = "wait"
    /\ Wakes(t, heard)
    /\ sem' = (sem /\ ~heard)
    /\ signalled' = [signalled EXCEPT ![t] = heard]
    /\ Goto(t, "read")
    /\ UNCHANGED <<by, runLock, due, fired, permId, permApproved, mine, shown, said, alone, inbox>>

\* lua_vm_extend_deadline(), extend_watchdog(): the wait is given back.
Extended_Not(t) == UNCHANGED due
Extended(t) == due' = [due EXCEPT ![t] = IF @ = "user" THEN "no" ELSE @]

\* The caller learns signalled[t] and s_perm_approved.  The question reported
\* closed is the pending one, whoever asked it.
Read(t) ==
    /\ pc[t] = "read"
    /\ permId' = None
    /\ shown' = shown \ {permId}
    /\ mine' = [mine EXCEPT ![t] = None]
    /\ said' = [said EXCEPT ![t] = {}]
    /\ alone' = [alone EXCEPT ![t] = TRUE]
    /\ signalled' = [signalled EXCEPT ![t] = FALSE]
    /\ Extended(t)
    /\ Goto(t, "run")
    /\ UNCHANGED <<by, runLock, fired, permApproved, sem, inbox>>

-----------------------------------------------------------------------------
(* The app, and the HTTP task's own handlers *)

\* A question goes from the screen with its answer.
Answer(i, ok) ==
    /\ i \in shown
    /\ inbox' = inbox \cup {[id |-> i, ok |-> ok]}
    /\ shown' = shown \ {i}
    /\ said' = [t \in Tasks |-> IF mine[t] = i THEN said[t] \cup {ok} ELSE said[t]]
    /\ UNCHANGED <<pc, by, runLock, due, fired, permId, permApproved, sem, mine, signalled,
                   alone>>

Matches_Any(a) == permId # None
Matches(a) == a.id = permId
HandleAnswer(a) ==
    /\ pc[Httpd] = "idle" /\ a \in inbox
    /\ inbox' = inbox \ {a}
    /\ IF Matches(a) THEN permApproved' = a.ok /\ sem' = TRUE
                     ELSE UNCHANGED <<permApproved, sem>>
    /\ UNCHANGED <<pc, by, runLock, due, fired, permId, mine, signalled, shown, said, alone>>

Next == \/ \E t \in Scripts : Start(t) \/ TakeLock(t) \/ Busy(t) \/ RunEnds(t)
        \/ \E t \in Skills : SkillStart(t) \/ WatchdogFires(t) \/ SkillEnds(t) \/ Hangs(t)
        \/ \E t \in Scripts, s \in Skills : RunSkill(t, s)
        \/ \E t \in Tasks : TimePasses(t) \/ Ask(t) \/ Show(t) \/ Read(t)
        \/ \E t \in Tasks, heard \in BOOLEAN : Woken(t, heard)
        \/ \E i \in Ids, ok \in BOOLEAN : Answer(i, ok)
        \/ \E a \in inbox : HandleAnswer(a)

Spec == Init /\ [][Next]_vars

\* A wait ends by its timeout, a script by its deadline: it runs for a while
\* between two questions, however many it asks.  So does a skill, whose watchdog
\* fires and gets it as far as on_stop().
Goes(t) == \/ TakeLock(t) \/ Busy(t) \/ Show(t) \/ Read(t)
           \/ \E heard \in BOOLEAN : Woken(t, heard)
Fairness == /\ \A t \in Tasks : WF_vars(Goes(t)) /\ SF_vars(pc[t] = "run" /\ TimePasses(t))
            /\ \A t \in Scripts : SF_vars(TimesOut(t))
            /\ \A t \in Skills : /\ WF_vars(WatchdogFires(t))
                                 /\ WF_vars(t \in fired /\ (SkillEnds(t) \/ Hangs(t)))

FairSpec == Spec /\ Fairness

-----------------------------------------------------------------------------
TypeOK ==
    /\ pc \in [Tasks -> {"idle", "lock", "run", "show", "wait", "read", "wasm", "hung"}]
    /\ by \in [Skills -> Scripts \cup {None}]
    /\ runLock \in Scripts \cup {None}
    /\ due \in [Tasks -> {"no", "yes", "user", "skill"}]
    /\ fired \subseteq Skills
    /\ permId \in Ids \cup {None}
    /\ permApproved \in BOOLEAN /\ sem \in BOOLEAN
    /\ mine \in [Tasks -> Ids \cup {None}]
    /\ signalled \in [Tasks -> BOOLEAN]
    /\ shown \subseteq Ids
    /\ inbox \subseteq [id : Ids, ok : BOOLEAN]
    /\ said \in [Tasks -> SUBSET BOOLEAN]
    /\ alone \in [Tasks -> BOOLEAN]

OwnAnswer(t) == pc[t] = "read" /\ signalled[t] => permApproved \in said[t]

\* A question that was open alone is decided by an answer to it: not by a late
\* answer to an earlier one, nor by the semaphore such an answer left behind
\* (request_permission() resets it, the WebSocket handler compares the id).
AnswerDecides == \A t \in Tasks : alone[t] => OwnAnswer(t)

\* One script at a time is inside the VM, while it waits for the user or for a
\* skill too: run_chunk() holds s_run_lock over both.
Inside == {"run", "show", "wait", "read", "wasm"}
OneScript == \A t \in Scripts : pc[t] \in Inside => runLock = t

\* A script's deadline does not count the time its user took to answer it
\* (lua_vm_extend_deadline() in ask_user()).
DeadlineIsFair == [][\A t \in Scripts : TimesOut(t) => due[t] # "user"]_vars

\* ... nor to answer the skill it waits for.  host_fs_write() gives the time to
\* the skill's watchdog and to no deadline.
NestedIsFair == [][\A t \in Scripts : TimesOut(t) => due[t] = "yes"]_vars

\* A skill's watchdog counts the skill's time, not the user's, as wasm_sandbox.h has it of
\* extend_watchdog().
WatchdogIsFair == [][\A t \in Skills : WatchdogFires(t) => due[t] = "yes"]_vars

\* Every run of a script ends, the HTTP task's own too, although nobody can
\* answer while it or its skill asks; but one that waits in wasm.run() for a skill
\* that hangs in its on_stop() waits for good.
HangsWithSkill(t) == \E s \in Skills : by[s] = t /\ pc[s] = "hung"
ScriptsEnd == \A t \in Scripts : pc[t] # "idle" ~> (pc[t] = "idle" \/ HangsWithSkill(t))
=============================================================================

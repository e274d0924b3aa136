------------------------ MODULE ScriptPromptsProofs ------------------------
(***************************************************************************)
(* A question that is open alone is decided by its own answer, one script  *)
(* at a time is inside the VM, and no script dies of the time its user     *)
(* took: for any number of scripts, skills and action ids.                 *)
(***************************************************************************)
EXTENDS ScriptPrompts, TLAPS

\* An open question that is alone is the pending one, nobody else waits for
\* the semaphore, and what is on its way to it, or has come, is its answer.
Pending(t) ==
  /\ \A s \in Tasks : s \in Asking => s = t
  /\ permId = mine[t]
  /\ sem \/ signalled[t] => permApproved \in said[t]

AskInv ==
  /\ \A t \in Tasks : alone[t] /\ t \in Asking => Pending(t)
  /\ \A t \in Tasks : t \in Asking => mine[t] # None
  /\ \A t \in Tasks : signalled[t] => pc[t] = "read"
  /\ \A t \in Tasks : \A a \in inbox : a.id = mine[t] => a.ok \in said[t]

\* Only a task that asks can have its time run out on the user.
DueInv == \A t \in Tasks : due[t] = "user" => pc[t] \in {"wait", "read"}

\* A script that a skill runs for waits in wasm.run(), for that one only.
ByInv ==
  /\ \A s \in Skills : by[s] # None => pc[by[s]] = "wasm"
  /\ \A s, u \in Skills : by[s] # None /\ by[s] = by[u] => s = u

IInv == TypeOK /\ OneScript /\ AskInv /\ DueInv /\ ByInv

\* The initial state satisfies the invariant.
LEMMA InitIInv == Init => IInv
  BY PromptAssumption
  DEF Init, IInv, TypeOK, OneScript, Inside, AskInv, DueInv, ByInv, Asking, Tasks

\* A step that leaves the question and its answers alone, and moves no task
\* that asks or begins to.
LEMMA QuietStep ==
  ASSUME AskInv, UNCHANGED <<perm, inbox>>,
         \A t \in Tasks : t \in Asking \/ t \in Asking' => pc'[t] = pc[t]
  PROVE  AskInv'
<1>1. \A t \in Tasks : (t \in Asking) <=> (t \in Asking')
  BY DEF Asking
<1>2. \A t \in Tasks : Pending(t) /\ t \in Asking => Pending(t)'
  BY <1>1 DEF Pending, perm
<1>3. \A t \in Tasks : signalled'[t] => pc'[t] = "read"
  BY DEF AskInv, Asking, perm
<1>. QED
  BY <1>1, <1>2, <1>3 DEF AskInv, perm

\* A request for a run.
LEMMA StartIInv == ASSUME IInv, NEW t \in Scripts, Start(t) PROVE IInv'
<1>1. TypeOK'
  BY DEF Start, IInv, TypeOK, Goto, perm, Tasks
<1>2. OneScript'
  BY PromptAssumption DEF Start, IInv, TypeOK, OneScript, Inside, Goto, Tasks
<1>3. AskInv'
  BY QuietStep DEF Start, IInv, TypeOK, Goto, Asking, Tasks
<1>4. DueInv'
  BY DEF Start, IInv, TypeOK, DueInv, Goto, Tasks
<1>5. ByInv'
  BY PromptAssumption DEF Start, IInv, TypeOK, ByInv, Goto, Tasks
<1>. QED
  BY <1>1, <1>2, <1>3, <1>4, <1>5 DEF IInv

\* The lock is taken.
LEMMA TakeLockIInv == ASSUME IInv, NEW t \in Scripts, TakeLock(t) PROVE IInv'
<1>1. TypeOK'
  BY DEF TakeLock, IInv, TypeOK, Goto, perm, Tasks
<1>2. OneScript'
  BY PromptAssumption DEF TakeLock, IInv, TypeOK, OneScript, Inside, Goto, Tasks
<1>3. AskInv'
  BY QuietStep DEF TakeLock, IInv, TypeOK, Goto, Asking, Tasks
<1>4. DueInv'
  BY DEF TakeLock, IInv, TypeOK, DueInv, Goto, Tasks
<1>5. ByInv'
  BY PromptAssumption DEF TakeLock, IInv, TypeOK, ByInv, Goto, Tasks
<1>. QED
  BY <1>1, <1>2, <1>3, <1>4, <1>5 DEF IInv

\* The lock is not had in ten seconds.
LEMMA BusyIInv == ASSUME IInv, NEW t \in Scripts, Busy(t) PROVE IInv'
<1>1. TypeOK'
  BY DEF Busy, IInv, TypeOK, Goto, perm, Tasks
<1>2. OneScript'
  BY PromptAssumption DEF Busy, IInv, TypeOK, OneScript, Inside, Goto, Tasks
<1>3. AskInv'
  BY QuietStep DEF Busy, IInv, TypeOK, Goto, Asking, Tasks
<1>4. DueInv'
  BY DEF Busy, IInv, TypeOK, DueInv, Goto, Tasks
<1>5. ByInv'
  BY PromptAssumption DEF Busy, IInv, TypeOK, ByInv, Goto, Tasks
<1>. QED
  BY <1>1, <1>2, <1>3, <1>4, <1>5 DEF IInv

\* A script ends.
LEMMA RunEndsIInv == ASSUME IInv, NEW t \in Scripts, RunEnds(t) PROVE IInv'
<1>1. TypeOK'
  BY DEF RunEnds, IInv, TypeOK, Goto, perm, Tasks
<1>2. OneScript'
  BY PromptAssumption DEF RunEnds, IInv, TypeOK, OneScript, Inside, Goto, Tasks
<1>3. AskInv'
  BY QuietStep DEF RunEnds, IInv, TypeOK, Goto, Asking, Tasks
<1>4. DueInv'
  BY DEF RunEnds, IInv, TypeOK, DueInv, Goto, Tasks
<1>5. ByInv'
  BY PromptAssumption DEF RunEnds, IInv, TypeOK, ByInv, Goto, Tasks
<1>. QED
  BY <1>1, <1>2, <1>3, <1>4, <1>5 DEF IInv

\* A skill starts.
LEMMA SkillStartIInv == ASSUME IInv, NEW t \in Skills, SkillStart(t) PROVE IInv'
<1>1. TypeOK'
  BY DEF SkillStart, IInv, TypeOK, Goto, perm, Tasks
<1>2. OneScript'
  BY PromptAssumption DEF SkillStart, IInv, TypeOK, OneScript, Inside, Goto, Tasks
<1>3. AskInv'
  BY QuietStep DEF SkillStart, IInv, TypeOK, Goto, Asking, Tasks
<1>4. DueInv'
  BY DEF SkillStart, IInv, TypeOK, DueInv, Goto, Tasks
<1>5. ByInv'
  BY PromptAssumption DEF SkillStart, IInv, TypeOK, ByInv, Goto, Tasks
<1>. QED
  BY <1>1, <1>2, <1>3, <1>4, <1>5 DEF IInv

\* A skill ends, and the script that waited for it goes on.
LEMMA SkillEndsIInv == ASSUME IInv, NEW t \in Skills, SkillEnds(t) PROVE IInv'
<1>1. TypeOK'
  BY DEF SkillEnds, IInv, TypeOK, perm, Tasks
<1>2. OneScript'
  BY PromptAssumption DEF SkillEnds, IInv, TypeOK, OneScript, Inside, ByInv, Tasks
<1>3. AskInv'
  BY QuietStep, PromptAssumption DEF SkillEnds, IInv, TypeOK, ByInv, Asking, Tasks
<1>4. DueInv'
  BY PromptAssumption DEF SkillEnds, IInv, TypeOK, DueInv, ByInv, Tasks
<1>5. ByInv'
  BY PromptAssumption DEF SkillEnds, IInv, TypeOK, ByInv, Tasks
<1>. QED
  BY <1>1, <1>2, <1>3, <1>4, <1>5 DEF IInv

\* A script starts one and waits.
LEMMA RunSkillIInv ==
  ASSUME IInv, NEW t \in Scripts, NEW s \in Skills, RunSkill(t, s) PROVE IInv'
<1>1. TypeOK'
  BY DEF RunSkill, IInv, TypeOK, perm, Tasks
<1>2. OneScript'
  BY PromptAssumption DEF RunSkill, IInv, TypeOK, OneScript, Inside, Tasks
<1>3. AskInv'
  BY QuietStep DEF RunSkill, IInv, TypeOK, Asking, Tasks
<1>4. DueInv'
  BY DEF RunSkill, IInv, TypeOK, DueInv, Tasks
<1>5. ByInv'
  BY PromptAssumption DEF RunSkill, IInv, TypeOK, ByInv, Tasks
<1>. QED
  BY <1>1, <1>2, <1>3, <1>4, <1>5 DEF IInv

\* A skill hangs.
LEMMA HangsIInv == ASSUME IInv, NEW t \in Skills, Hangs(t) PROVE IInv'
<1>1. TypeOK'
  BY DEF Hangs, IInv, TypeOK, Goto, perm, Tasks
<1>2. OneScript'
  BY PromptAssumption DEF Hangs, IInv, TypeOK, OneScript, Inside, Goto, Tasks
<1>3. AskInv'
  BY QuietStep DEF Hangs, IInv, TypeOK, Goto, Asking, Tasks
<1>4. DueInv'
  BY DEF Hangs, IInv, TypeOK, DueInv, Goto, Tasks
<1>5. ByInv'
  BY PromptAssumption DEF Hangs, IInv, TypeOK, ByInv, Goto, Tasks
<1>. QED
  BY <1>1, <1>2, <1>3, <1>4, <1>5 DEF IInv

\* The watchdog fires.
LEMMA WatchdogFiresIInv == ASSUME IInv, NEW t \in Skills, WatchdogFires(t) PROVE IInv'
<1>1. TypeOK'
  BY DEF WatchdogFires, IInv, TypeOK, Goto, perm, Tasks
<1>2. OneScript'
  BY PromptAssumption DEF WatchdogFires, IInv, TypeOK, OneScript, Inside, Goto, Tasks
<1>3. AskInv'
  BY QuietStep DEF WatchdogFires, IInv, TypeOK, Goto, Asking, Tasks
<1>4. DueInv'
  BY DEF WatchdogFires, IInv, TypeOK, DueInv, Goto, Tasks
<1>5. ByInv'
  BY PromptAssumption DEF WatchdogFires, IInv, TypeOK, ByInv, Goto, Tasks
<1>. QED
  BY <1>1, <1>2, <1>3, <1>4, <1>5 DEF IInv

\* The clock.
LEMMA TimePassesIInv == ASSUME IInv, NEW t \in Tasks, TimePasses(t) PROVE IInv'
<1>1. TypeOK'
  BY DEF TimePasses, IInv, TypeOK, Goto, perm, Tasks
<1>2. OneScript'
  BY PromptAssumption DEF TimePasses, IInv, TypeOK, OneScript, Inside, Goto, Tasks
<1>3. AskInv'
  BY QuietStep DEF TimePasses, IInv, TypeOK, Goto, Asking, Tasks
<1>4. DueInv'
  BY DEF TimePasses, IInv, TypeOK, DueInv, Goto, Tasks
<1>5. ByInv'
  BY PromptAssumption DEF TimePasses, IInv, TypeOK, ByInv, Goto, Tasks
<1>. QED
  BY <1>1, <1>2, <1>3, <1>4, <1>5 DEF IInv

\* A question is stored: its id is nobody's yet.
LEMMA AskIInv == ASSUME IInv, NEW t \in Tasks, Ask(t) PROVE IInv'
<1>1. TypeOK'
  BY DEF Ask, IInv, TypeOK, Goto, Reset, Asking
<1>2. OneScript'
  BY DEF Ask, IInv, TypeOK, OneScript, Inside, Goto, Tasks
<1>3. AskInv'
  <2>1. \A u \in Tasks : (alone[u] /\ u \in Asking)' => Pending(u)'
    BY DEF Ask, IInv, TypeOK, AskInv, Asking, Pending, Goto, Reset, Known
  <2>2. \A u \in Tasks : (u \in Asking)' => mine'[u] # None
    BY PromptAssumption DEF Ask, IInv, TypeOK, AskInv, Asking, Goto, Reset, Known
  <2>3. \A u \in Tasks : signalled'[u] => pc'[u] = "read"
    BY DEF Ask, IInv, TypeOK, AskInv, Goto, Reset, Known
  <2>4. \A u \in Tasks : \A a \in inbox' : a.id = mine'[u] => a.ok \in said'[u]
    BY DEF Ask, IInv, TypeOK, AskInv, Asking, Goto, Reset, Known
  <2>. QED
    BY <2>1, <2>2, <2>3, <2>4 DEF AskInv
<1>4. DueInv'
  BY DEF Ask, IInv, TypeOK, DueInv, Goto
<1>5. ByInv'
  BY PromptAssumption DEF Ask, IInv, TypeOK, ByInv, Goto, Tasks
<1>. QED
  BY <1>1, <1>2, <1>3, <1>4, <1>5 DEF IInv

\* It is put on the screens.
LEMMA ShowIInv == ASSUME IInv, NEW t \in Tasks, Show(t) PROVE IInv'
<1>1. TypeOK'
  BY DEF Show, IInv, TypeOK, Goto, AskInv, Asking
<1>2. OneScript'
  BY DEF Show, IInv, TypeOK, OneScript, Inside, Goto, Tasks
<1>3. AskInv'
  <2>1. \A u \in Tasks : (alone[u] /\ u \in Asking)' => Pending(u)'
    BY DEF Show, IInv, TypeOK, AskInv, Asking, Pending, Goto
  <2>2. \A u \in Tasks : (u \in Asking)' => mine'[u] # None
    BY PromptAssumption DEF Show, IInv, TypeOK, AskInv, Asking, Goto
  <2>3. \A u \in Tasks : signalled'[u] => pc'[u] = "read"
    BY DEF Show, IInv, TypeOK, AskInv, Goto
  <2>4. \A u \in Tasks : \A a \in inbox' : a.id = mine'[u] => a.ok \in said'[u]
    BY DEF Show, IInv, TypeOK, AskInv, Asking, Goto
  <2>. QED
    BY <2>1, <2>2, <2>3, <2>4 DEF AskInv
<1>4. DueInv'
  BY DEF Show, IInv, TypeOK, DueInv, Goto
<1>5. ByInv'
  BY PromptAssumption DEF Show, IInv, TypeOK, ByInv, Goto, Tasks
<1>. QED
  BY <1>1, <1>2, <1>3, <1>4, <1>5 DEF IInv

\* The semaphore, or the timeout.
LEMMA WokenIInv == ASSUME IInv, NEW t \in Tasks, NEW heard \in BOOLEAN, Woken(t, heard) PROVE IInv'
<1>1. TypeOK'
  BY DEF Woken, IInv, TypeOK, Goto
<1>2. OneScript'
  BY DEF Woken, IInv, TypeOK, OneScript, Inside, Goto, Tasks
<1>3. AskInv'
  <2>1. \A u \in Tasks : (alone[u] /\ u \in Asking)' => Pending(u)'
    BY DEF Woken, IInv, TypeOK, AskInv, Asking, Pending, Goto, Wakes
  <2>2. \A u \in Tasks : (u \in Asking)' => mine'[u] # None
    BY PromptAssumption DEF Woken, IInv, TypeOK, AskInv, Asking, Goto, Wakes
  <2>3. \A u \in Tasks : signalled'[u] => pc'[u] = "read"
    BY DEF Woken, IInv, TypeOK, AskInv, Goto, Wakes
  <2>4. \A u \in Tasks : \A a \in inbox' : a.id = mine'[u] => a.ok \in said'[u]
    BY DEF Woken, IInv, TypeOK, AskInv, Asking, Goto, Wakes
  <2>. QED
    BY <2>1, <2>2, <2>3, <2>4 DEF AskInv
<1>4. DueInv'
  BY DEF Woken, IInv, TypeOK, DueInv, Goto
<1>5. ByInv'
  BY PromptAssumption DEF Woken, IInv, TypeOK, ByInv, Goto, Tasks
<1>. QED
  BY <1>1, <1>2, <1>3, <1>4, <1>5 DEF IInv

\* The answer is read.
LEMMA ReadIInv == ASSUME IInv, NEW t \in Tasks, Read(t) PROVE IInv'
<1>1. TypeOK'
  BY DEF Read, IInv, TypeOK, Goto, Extended
<1>2. OneScript'
  BY DEF Read, IInv, TypeOK, OneScript, Inside, Goto, Tasks
<1>3. AskInv'
  <2>1. \A u \in Tasks : (alone[u] /\ u \in Asking)' => Pending(u)'
    BY DEF Read, IInv, TypeOK, AskInv, Asking, Pending, Goto
  <2>2. \A u \in Tasks : (u \in Asking)' => mine'[u] # None
    BY PromptAssumption DEF Read, IInv, TypeOK, AskInv, Asking, Goto
  <2>3. \A u \in Tasks : signalled'[u] => pc'[u] = "read"
    BY DEF Read, IInv, TypeOK, AskInv, Goto
  <2>4. \A u \in Tasks : \A a \in inbox' : a.id = mine'[u] => a.ok \in said'[u]
    BY PromptAssumption DEF Read, IInv, TypeOK, AskInv, Asking, Goto
  <2>. QED
    BY <2>1, <2>2, <2>3, <2>4 DEF AskInv
<1>4. DueInv'
  BY DEF Read, IInv, TypeOK, DueInv, Goto, Extended
<1>5. ByInv'
  BY PromptAssumption DEF Read, IInv, TypeOK, ByInv, Goto, Tasks
<1>. QED
  BY <1>1, <1>2, <1>3, <1>4, <1>5 DEF IInv

\* The user answers.
LEMMA AnswerIInv == ASSUME IInv, NEW i \in Ids, NEW ok \in BOOLEAN, Answer(i, ok) PROVE IInv'
<1>1. TypeOK'
  BY DEF Answer, IInv, TypeOK, Goto
<1>2. OneScript'
  BY DEF Answer, IInv, TypeOK, OneScript, Inside, Goto, Tasks
<1>3. AskInv'
  <2>1. \A u \in Tasks : (alone[u] /\ u \in Asking)' => Pending(u)'
    BY DEF Answer, IInv, TypeOK, AskInv, Asking, Pending, Goto
  <2>2. \A u \in Tasks : (u \in Asking)' => mine'[u] # None
    BY PromptAssumption DEF Answer, IInv, TypeOK, AskInv, Asking, Goto
  <2>3. \A u \in Tasks : signalled'[u] => pc'[u] = "read"
    BY DEF Answer, IInv, TypeOK, AskInv, Goto
  <2>4. \A u \in Tasks : \A a \in inbox' : a.id = mine'[u] => a.ok \in said'[u]
    BY DEF Answer, IInv, TypeOK, AskInv, Asking, Goto
  <2>. QED
    BY <2>1, <2>2, <2>3, <2>4 DEF AskInv
<1>4. DueInv'
  BY DEF Answer, IInv, TypeOK, DueInv, Goto
<1>5. ByInv'
  BY PromptAssumption DEF Answer, IInv, TypeOK, ByInv, Goto, Tasks
<1>. QED
  BY <1>1, <1>2, <1>3, <1>4, <1>5 DEF IInv

\* The HTTP task compares the answer with what is pending.
LEMMA HandleAnswerIInv == ASSUME IInv, NEW a \in inbox, HandleAnswer(a) PROVE IInv'
<1>1. TypeOK'
  BY DEF HandleAnswer, IInv, TypeOK, Goto, Matches
<1>2. OneScript'
  BY DEF HandleAnswer, IInv, TypeOK, OneScript, Inside, Goto, Tasks
<1>3. AskInv'
  <2>1. \A u \in Tasks : (alone[u] /\ u \in Asking)' => Pending(u)'
    BY DEF HandleAnswer, IInv, TypeOK, AskInv, Asking, Pending, Goto, Matches
  <2>2. \A u \in Tasks : (u \in Asking)' => mine'[u] # None
    BY PromptAssumption DEF HandleAnswer, IInv, TypeOK, AskInv, Asking, Goto, Matches
  <2>3. \A u \in Tasks : signalled'[u] => pc'[u] = "read"
    BY DEF HandleAnswer, IInv, TypeOK, AskInv, Goto, Matches
  <2>4. \A u \in Tasks : \A x \in inbox' : x.id = mine'[u] => x.ok \in said'[u]
    BY DEF HandleAnswer, IInv, TypeOK, AskInv, Asking, Goto, Matches
  <2>. QED
    BY <2>1, <2>2, <2>3, <2>4 DEF AskInv
<1>4. DueInv'
  BY DEF HandleAnswer, IInv, TypeOK, DueInv, Goto
<1>5. ByInv'
  BY PromptAssumption DEF HandleAnswer, IInv, TypeOK, ByInv, Goto, Tasks
<1>. QED
  BY <1>1, <1>2, <1>3, <1>4, <1>5 DEF IInv

\* A step that changes nothing.
LEMMA StutterIInv == IInv /\ UNCHANGED vars => IInv'
  BY DEF IInv, TypeOK, OneScript, Inside, AskInv, DueInv, ByInv, Asking, Pending, vars, perm

\* Every step keeps the invariant.
LEMMA StepIInv == IInv /\ [Next]_vars => IInv'
<1>. SUFFICES ASSUME IInv, Next PROVE IInv'
  BY StutterIInv
<1>1. CASE \E t \in Scripts : Start(t) \/ TakeLock(t) \/ Busy(t) \/ RunEnds(t)
  BY <1>1, StartIInv, TakeLockIInv, BusyIInv, RunEndsIInv
<1>2. CASE \E t \in Skills : SkillStart(t) \/ WatchdogFires(t) \/ SkillEnds(t) \/ Hangs(t)
  BY <1>2, SkillStartIInv, WatchdogFiresIInv, SkillEndsIInv, HangsIInv
<1>3. CASE \E t \in Scripts, s \in Skills : RunSkill(t, s)
  BY <1>3, RunSkillIInv
<1>4. CASE \E t \in Tasks : TimePasses(t) \/ Ask(t) \/ Show(t) \/ Read(t)
  BY <1>4, TimePassesIInv, AskIInv, ShowIInv, ReadIInv
<1>5. CASE \E t \in Tasks, heard \in BOOLEAN : Woken(t, heard)
  BY <1>5, WokenIInv
<1>6. CASE \E i \in Ids, ok \in BOOLEAN : Answer(i, ok)
  BY <1>6, AnswerIInv
<1>7. CASE \E a \in inbox : HandleAnswer(a)
  BY <1>7, HandleAnswerIInv
<1>. QED
  BY <1>1, <1>2, <1>3, <1>4, <1>5, <1>6, <1>7 DEF Next

\* The invariant holds in every state of every behaviour.
THEOREM Invariance == Spec => []IInv
  BY InitIInv, StepIInv, PTL DEF Spec

\* The state of request_permission() and of run_chunk() has its types.
THEOREM PromptTypes == Spec => []TypeOK
  BY Invariance, PTL DEF IInv

\* Two scripts are never inside the one VM, whoever runs them.
THEOREM OneScriptRuns == Spec => []OneScript
  BY Invariance, PTL DEF IInv

\* A question that was open alone is decided by an answer to it.
THEOREM AnswersDecide == Spec => []AnswerDecides
<1>1. IInv => AnswerDecides
  BY DEF IInv, AskInv, Pending, Asking, AnswerDecides, OwnAnswer
<1>. QED
  BY <1>1, Invariance, PTL

\* No script times out only for the time its user took to answer it.
THEOREM DeadlinesAreFair == Spec => DeadlineIsFair
<1>1. IInv => \A t \in Scripts : TimesOut(t) => due[t] # "user"
  BY DEF IInv, DueInv, TimesOut, RunEnds, Tasks
<1>2. IInv /\ [Next]_vars => [\A t \in Scripts : TimesOut(t) => due[t] # "user"]_vars
  BY <1>1
<1>. QED
  BY <1>2, Invariance, PTL DEF Spec, DeadlineIsFair
=============================================================================

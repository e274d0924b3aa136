---------------------------- MODULE DriverBoard ----------------------------
(***************************************************************************)
(* robot/driver_board.c: the four AT32 boards behind one SPI bus.  Every   *)
(* public operation runs under one mutex, so an operation is one step here *)
(* but for a config exchange, which the board and the clock may overtake.  *)
(*                                                                         *)
(* The boards' replies are those of BoardFrames.                           *)
(***************************************************************************)
EXTENDS Naturals, FiniteSets

CONSTANTS Boards,          \* the boards, FR FL RR RL
          Servos,          \* the channels of a board
          Ops,             \* GET, SET, GET_LIVE, SAVE, RESTORE
          Params,          \* DB_PARAM_*, of which the replies carry the number
          CfgTries,        \* CFG_REPLY_TRIES
          CfgFailsToMute   \* CFG_FAILS_TO_MUTE

ASSUME BoardAssumption ==
    /\ Servos # {}
    /\ CfgTries \in Nat \ {0} /\ CfgFailsToMute \in Nat \ {0}

Request == [op : Ops, servo : Servos, param : Params]
Exchange == [board : Boards, req : Request, tries : 0..CfgTries, missed : BOOLEAN]
Answer == [asked : Request, got : Request, missed : BOOLEAN]

Modes == {"position", "idle", "torque"}
Command == [mode : Modes, gains : BOOLEAN]   \* gains: kp or kd of its own

VARIABLES link,      \* board and wire: absent, well, or flaky (late, deaf, in error)
          tx,        \* board: what the next transaction clocks out
          reply,     \* board: the request a pending config reply answers
          inbox,     \* board: a request it has not taken yet
          told,      \* board: the command each servo runs
          sh,        \* sh_mode, sh_fkp and sh_fkd
          cached,    \* what fb_position was last taken from
          fresh,     \* fb_fresh
          raw,       \* raw_posdd and raw_valid
          rawSkip,   \* raw_skip
          fails, muted,   \* s_cfg_fails, s_cfg_muted
          due,       \* CFG_REPROBE_US have passed since s_cfg_probe_us
          xchg,      \* cfg_request() in progress (the mutex is held) or {}
          answer     \* the last exchange that succeeded

board == <<link, tx, reply, inbox>>
caches == <<cached, fresh, raw, rawSkip>>
health == <<fails, muted, due>>
vars == <<board, told, sh, caches, health, xchg, answer>>

Init == /\ link \in [Boards -> {"absent", "well"}]
        /\ tx = [b \in Boards |-> "junk"]
        /\ reply = [b \in Boards |-> {}]
        /\ inbox = [b \in Boards |-> {}]
        /\ sh = [b \in Boards |-> [s \in Servos |-> [mode |-> "position", gains |-> FALSE]]]
        /\ told = [b \in Boards |-> [s \in Servos |-> [mode |-> "idle", gains |-> FALSE]]]
        /\ cached = [b \in Boards |-> "none"]
        /\ fresh = [b \in Boards |-> FALSE]
        /\ raw = [b \in Boards |-> "invalid"]
        /\ rawSkip = [b \in Boards |-> FALSE]
        /\ fails = [b \in Boards |-> 0]
        /\ muted = [b \in Boards |-> FALSE]
        /\ due = [b \in Boards |-> FALSE]
        /\ xchg = {}
        /\ answer = {}

-----------------------------------------------------------------------------
(* The boards' side of a transaction *)

Present == {b \in Boards : link[b] # "absent"}
Limp == {b \in Boards : \E s \in Servos : told[b][s].mode = "idle"}
Wire == INSTANCE BoardFrames WITH plugged <- Present, limp <- Limp

Reads == Wire!Reads
Feedback == Wire!Feedback

\* Servo frames to the boards of S, which run the commands of c from then on;
\* they supersede a request the board has not taken.
Clocked(S, again, c) ==
    /\ tx' = [b \in Boards |-> IF b \notin S \cap Present THEN tx[b]
                                ELSE IF b \in again THEN Wire!AfterTwo[b] ELSE Wire!AfterOne[b]]
    /\ told' = [b \in Boards |-> IF b \in S \cap Present THEN c[b] ELSE told[b]]
    /\ reply' = [b \in Boards |-> IF b \in S \cap Present THEN {} ELSE reply[b]]
    /\ inbox' = [b \in Boards |-> IF b \in S THEN {} ELSE inbox[b]]
    /\ UNCHANGED link
AllServos(mode) == [b \in Boards |-> [s \in Servos |-> [mode |-> mode, gains |-> FALSE]]]

FbFrameValid(f) == f \in Feedback

\* fb_store() of the replies f: the gait-scale caches
Stored(S, f) ==
    cached' = [b \in Boards |-> IF b \in S /\ FbFrameValid(f[b]) THEN f[b] ELSE cached[b]]

-----------------------------------------------------------------------------
(* The public operations that send servo frames *)

LockFree == xchg = {}
Still == UNCHANGED <<health, xchg, answer>>

\* Positions from the gait; the shadow's gains are left as they are.
SyncWrite ==
    /\ LockFree
    /\ sh' = [b \in Boards |-> [s \in Servos |-> [sh[b][s] EXCEPT !.mode = "position"]]]
    /\ Stored(Boards, Reads)
    /\ fresh' = [b \in Boards |-> fresh[b] \/ FbFrameValid(Reads[b])]
    /\ Clocked(Boards, {}, AllServos("position"))
    /\ UNCHANGED <<raw, rawSkip>>
    /\ Still

SyncIdle ==
    /\ LockFree
    /\ sh' = [b \in Boards |-> [s \in Servos |-> [sh[b][s] EXCEPT !.mode = "idle"]]]
    /\ Stored(Boards, Reads)
    /\ fresh' = [b \in Boards |-> FbFrameValid(Reads[b])]
    /\ Clocked(Boards, {}, AllServos("idle"))
    /\ UNCHANGED <<raw, rawSkip>>
    /\ Still

\* board_resend(): the shadow as it stands, and once more when the first
\* reply is no feedback
Resent(S) ==
    LET again == {b \in S : ~FbFrameValid(Reads[b])}
        last == [b \in Boards |-> IF b \in again \cap Present THEN Wire!AfterOne[b] ELSE Reads[b]]
    IN /\ Stored(S, last)
       /\ fresh' = [b \in Boards |-> fresh[b] \/ (b \in S /\ FbFrameValid(last[b]))]
       /\ Clocked(S, again, sh')
       /\ UNCHANGED <<raw, rawSkip>>

PollBoard(b) ==
    /\ LockFree
    /\ UNCHANGED sh
    /\ Resent({b})
    /\ Still

Direct(b, s, mode) ==
    /\ LockFree
    /\ sh' = [sh EXCEPT ![b][s].mode = mode]
    /\ Resent({b})
    /\ Still

Stage(b, s, gains) ==
    /\ LockFree
    /\ sh' = [sh EXCEPT ![b][s] = [mode |-> "position", gains |-> gains]]
    /\ UNCHANGED <<board, told, caches>>
    /\ Still

Commit ==
    /\ LockFree
    /\ UNCHANGED sh
    /\ Resent(Boards)
    /\ Still

-----------------------------------------------------------------------------
(* The raw exchange of the RL host *)

\* HOLD keeps a position; any other mode the shadow holds goes limp.
Held_AsItWas(c) == [mode |-> c.mode, gains |-> FALSE]
Held(c) == [mode |-> IF c.mode = "position" THEN "position" ELSE "idle", gains |-> FALSE]

\* The reply is this session's feedback: neither a config reply nor its echo.
Reported_NoSkip(b) == Reads[b] \in Feedback
Reported(b) == Reads[b] \in Feedback /\ ~rawSkip[b]

SyncRaw(modes) ==
    /\ LockFree
    /\ sh' = [b \in Boards |-> [s \in Servos |->
                 IF modes[b][s] = "hold" THEN Held(sh[b][s])
                 ELSE [mode |-> modes[b][s], gains |-> FALSE]]]
    /\ raw' = [b \in Boards |-> CASE Reads[b] = "junk" -> "invalid"
                                  [] Reported(b) -> Reads[b]
                                  [] OTHER -> raw[b]]
    /\ rawSkip' = [b \in Boards |-> Reads[b] = "config" \/ (Reads[b] = "junk" /\ rawSkip[b])]
    /\ Stored({b \in Boards : Reported(b)}, Reads)
    /\ fresh' = [b \in Boards |-> fresh[b] \/ Reported(b)]
    /\ Clocked(Boards, {}, sh')
    /\ Still

RawInvalidate ==
    /\ LockFree
    /\ raw' = [b \in Boards |-> "invalid"]
    /\ UNCHANGED <<board, told, sh, cached, fresh, rawSkip>>
    /\ Still

-----------------------------------------------------------------------------
(* cfg_request(): the request, then NOPs until the board's reply shows *)

\* cfg_note_result(); s_cfg_fails is only compared with CfgFailsToMute
NoteResult_Uncapped(b, ok) ==
    /\ fails' = [fails EXCEPT ![b] = IF ok THEN 0 ELSE @ + 1]
    /\ muted' = [muted EXCEPT ![b] = ~ok /\ (@ \/ fails'[b] >= CfgFailsToMute)]
    /\ due' = [due EXCEPT ![b] = @ /\ muted[b]]
NoteResult_Sticky(b, ok) ==
    /\ fails' = [fails EXCEPT ![b] = IF ok THEN 0 ELSE IF @ < CfgFailsToMute THEN @ + 1 ELSE @]
    /\ muted' = [muted EXCEPT ![b] = @ \/ fails'[b] >= CfgFailsToMute]
    /\ due' = [due EXCEPT ![b] = @ /\ muted[b]]
NoteResult(b, ok) ==
    /\ fails' = [fails EXCEPT ![b] = IF ok THEN 0 ELSE IF @ < CfgFailsToMute THEN @ + 1 ELSE @]
    /\ muted' = [muted EXCEPT ![b] = ~ok /\ (@ \/ fails'[b] >= CfgFailsToMute)]
    /\ due' = [due EXCEPT ![b] = @ /\ muted[b]]

\* What becomes of a request on the wire: a well board has its reply ready at
\* once; a flaky one may be late or not notice.
Takes(b, r) == /\ b \in Present
               /\ tx' = [tx EXCEPT ![b] = "config"]
               /\ reply' = [reply EXCEPT ![b] = {r}]
               /\ inbox' = [inbox EXCEPT ![b] = {}]
Delays(b, r) == /\ link[b] = "flaky"
                /\ inbox' = [inbox EXCEPT ![b] = {r}]
                /\ UNCHANGED <<tx, reply>>
Ignores(b) == /\ link[b] # "well"
              /\ inbox' = [inbox EXCEPT ![b] = {}]
              /\ UNCHANGED <<tx, reply>>

\* A muted board is asked once every CFG_REPROBE_US; other requests to it
\* fail at once and change nothing.
CfgAsk(b, r) ==
    /\ LockFree
    /\ muted[b] => due[b]
    /\ due' = [due EXCEPT ![b] = FALSE]
    /\ rawSkip' = [rawSkip EXCEPT ![b] = TRUE]
    /\ \E missed \in BOOLEAN :
           /\ IF missed THEN Delays(b, r) \/ Ignores(b) ELSE Takes(b, r)
           /\ xchg' = {[board |-> b, req |-> r, tries |-> 0, missed |-> missed]}
    /\ answer' = {}
    /\ UNCHANGED <<link, told, sh, cached, fresh, raw, fails, muted>>

Ends(x, ok) ==
    /\ NoteResult(x.board, ok)
    /\ xchg' = {}
    /\ UNCHANGED <<board, told, sh, caches>>

\* The reply is told from an older one by the parameter it carries.
Matches_Any(x, r) == TRUE
Matches(x, r) == r.param = x.req.param

CfgAnswered(x) ==
    /\ Reads[x.board] = "config"
    /\ \E r \in reply[x.board] :
           /\ Matches(x, r)
           /\ answer' = {[asked |-> x.req, got |-> r, missed |-> x.missed]}
    /\ Ends(x, TRUE)

CfgNop(x) ==
    /\ Reads[x.board] = "config" => \A r \in reply[x.board] : ~Matches(x, r)
    /\ UNCHANGED answer
    /\ IF x.tries + 1 < CfgTries
       THEN /\ xchg' = {[x EXCEPT !.tries = @ + 1]}
            /\ UNCHANGED <<board, told, sh, caches, health>>
       ELSE Ends(x, FALSE)

\* The transaction itself fails.
CfgXferFails(x) == link[x.board] # "well" /\ Ends(x, FALSE) /\ UNCHANGED answer

-----------------------------------------------------------------------------
(* The boards and the clock *)

LateTake(b) ==
    /\ b \in Present
    /\ \E r \in inbox[b] : Takes(b, r)
    /\ xchg' = {IF x.board = b THEN [x EXCEPT !.missed = FALSE] ELSE x : x \in xchg}
    /\ UNCHANGED <<link, told, sh, caches, health, answer>>

PlugIn(b) ==
    /\ link[b] = "absent"
    /\ link' = [link EXCEPT ![b] = "well"]
    /\ UNCHANGED <<tx, reply, inbox, told, sh, caches, health, xchg, answer>>

PullOut(b) ==
    /\ b \in Present
    /\ link' = [link EXCEPT ![b] = "absent"]
    /\ tx' = [tx EXCEPT ![b] = "junk"]
    /\ reply' = [reply EXCEPT ![b] = {}]
    /\ inbox' = [inbox EXCEPT ![b] = {}]
    /\ told' = [told EXCEPT ![b] = [s \in Servos |-> [mode |-> "idle", gains |-> FALSE]]]
    /\ UNCHANGED <<sh, caches, health, xchg, answer>>

Wavers(b) ==
    /\ b \in Present
    /\ link' = [link EXCEPT ![b] = IF @ = "well" THEN "flaky" ELSE "well"]
    /\ UNCHANGED <<tx, reply, inbox, told, sh, caches, health, xchg, answer>>

ReprobeDue(b) ==
    /\ muted[b] /\ ~due[b]
    /\ due' = [due EXCEPT ![b] = TRUE]
    /\ UNCHANGED <<board, told, sh, caches, fails, muted, xchg, answer>>

-----------------------------------------------------------------------------
RawModes == [Boards -> [Servos -> {"hold", "idle", "position"}]]

Ask(b) == \E r \in Request : CfgAsk(b, r)
Exchanging == \E x \in xchg : CfgAnswered(x) \/ CfgNop(x) \/ CfgXferFails(x)
Frame == \/ SyncWrite
         \/ SyncIdle
         \/ Commit
         \/ RawInvalidate
         \/ \E modes \in RawModes : SyncRaw(modes)
         \/ \E b \in Boards : PollBoard(b)
         \/ \E b \in Boards, s \in Servos :
                \/ \E mode \in Modes : Direct(b, s, mode)
                \/ \E gains \in BOOLEAN : Stage(b, s, gains)
World(b) == LateTake(b) \/ PlugIn(b) \/ PullOut(b) \/ Wavers(b)

Next == \/ Frame
        \/ Exchanging
        \/ \E b \in Boards : Ask(b) \/ World(b) \/ ReprobeDue(b)

Spec == Init /\ [][Next]_vars

\* The clock, and the operation that holds the mutex, go on.
Fairness == /\ WF_vars(Exchanging)
            /\ \A b \in Boards : WF_vars(ReprobeDue(b))

FairSpec == Spec /\ Fairness

-----------------------------------------------------------------------------
TypeOK ==
    /\ link \in [Boards -> {"absent", "flaky", "well"}]
    /\ tx \in [Boards -> Wire!Replies]
    /\ reply \in [Boards -> SUBSET Request]
    /\ inbox \in [Boards -> SUBSET Request]
    /\ told \in [Boards -> [Servos -> Command]]
    /\ sh \in [Boards -> [Servos -> Command]]
    /\ cached \in [Boards -> Wire!Replies \cup {"none"}]
    /\ fresh \in [Boards -> BOOLEAN]
    /\ raw \in [Boards -> Wire!Replies \cup {"invalid"}]
    /\ rawSkip \in [Boards -> BOOLEAN]
    /\ fails \in [Boards -> 0..CfgFailsToMute]
    /\ muted \in [Boards -> BOOLEAN]
    /\ due \in [Boards -> BOOLEAN]
    /\ xchg \in SUBSET Exchange /\ \A x, y \in xchg : x = y
    /\ answer \in SUBSET Answer

\* RL_LINK.md:72: the config reply, and the board's first frame after it, are
\* never reported to the RL host as feedback, whatever local operations read
\* the replies in between and whether or not a board was pulled meanwhile.
RawIsFeedback == \A b \in Boards : raw[b] \in {"servo", "invalid"}

\* cfg_request(): an answer is the reply to the very request it was asked for,
\* unless the board missed that request; even then it carries its parameter.
AnswerIsOurs == \A a \in answer : /\ a.got.param = a.asked.param
                                  /\ ~a.missed => a.got = a.asked

\* driver_board_sync_raw(): "hold" never replays a skill's torque command or
\* its gains, however they came to be in the shadow.
HoldIsNoTorque ==
    [][\A modes \in RawModes : SyncRaw(modes) =>
          \A b \in Present, s \in Servos : told'[b][s] \in {[mode |-> "position", gains |-> FALSE],
                                                             [mode |-> "idle", gains |-> FALSE]}]_vars

\* A muted board is self-healing: once it is there and answers, and is asked
\* again and again, it does not stay muted.
MutedHeals == \A b \in Boards :
    <>[](link[b] = "well") /\ SF_vars(Ask(b)) => []<>~muted[b]
=============================================================================

------------------------- MODULE DriverBoardProofs -------------------------
(***************************************************************************)
(* What driver_board_sync_raw() reports, what cfg_request() returns and    *)
(* what a HOLD sends: for any boards, channels, operations and parameters. *)
(***************************************************************************)
EXTENDS DriverBoard, TLAPS

\* raw_skip is set for as long as a config reply, its echo, or a request the
\* board may still answer is about.
SkipInv == \A b \in Boards :
    ~rawSkip[b] => tx[b] \in {"junk", "servo"} /\ inbox[b] = {}

\* While an exchange runs nothing but its own request is on the way, and no
\* other reply waits once the board has taken it.
XchgInv == \A x \in xchg :
    /\ inbox[x.board] \subseteq {x.req}
    /\ ~x.missed => reply[x.board] \subseteq {x.req}

IInv == TypeOK /\ SkipInv /\ XchgInv /\ RawIsFeedback /\ AnswerIsOurs

\* TypeOK, apart: what servo frames touch, and what an exchange does.
FrameTypes ==
    /\ tx \in [Boards -> {"junk", "servo", "echo", "config"}]
    /\ reply \in [Boards -> SUBSET Request]
    /\ inbox \in [Boards -> SUBSET Request]
    /\ told \in [Boards -> [Servos -> Command]]
    /\ sh \in [Boards -> [Servos -> Command]]
    /\ cached \in [Boards -> {"junk", "servo", "echo", "config", "none"}]
    /\ raw \in [Boards -> {"junk", "servo", "echo", "config", "invalid"}]
    /\ fresh \in [Boards -> BOOLEAN]
    /\ rawSkip \in [Boards -> BOOLEAN]
CfgTypes ==
    /\ link \in [Boards -> {"absent", "flaky", "well"}]
    /\ fails \in [Boards -> 0..CfgFailsToMute]
    /\ muted \in [Boards -> BOOLEAN]
    /\ due \in [Boards -> BOOLEAN]
    /\ xchg \in SUBSET Exchange /\ (\A x, y \in xchg : x = y)
    /\ answer \in SUBSET Answer

\* The two parts are TypeOK.
LEMMA TypeParts == TypeOK <=> FrameTypes /\ CfgTypes
<1>1. Wire!Replies = {"junk", "servo", "echo", "config"}
  BY DEF Wire!Replies
<1>. QED
  BY <1>1 DEF TypeOK, FrameTypes, CfgTypes

LEMMA TypesAfter == FrameTypes' /\ CfgTypes' => TypeOK'
<1>1. Wire!Replies = {"junk", "servo", "echo", "config"}
  BY DEF Wire!Replies
<1>. QED
  BY <1>1 DEF TypeOK, FrameTypes, CfgTypes

\* What a transaction reads, by the board's buffer.
LEMMA ReadsFacts ==
  ASSUME FrameTypes, NEW b \in Boards
  PROVE  /\ Reads[b] = IF b \in Present THEN tx[b] ELSE "junk"
         /\ Wire!AfterOne[b] = IF tx[b] = "config" THEN "echo" ELSE "servo"
         /\ Wire!AfterTwo[b] = "servo"
  BY DEF Reads, Wire!Reads, Wire!AfterOne, Wire!AfterTwo, Wire!AfterFrame

\* The initial state satisfies the invariant.
LEMMA InitIInv == Init => IInv
<1>. SUFFICES ASSUME Init PROVE IInv
  OBVIOUS
<1>1. FrameTypes
  BY DEF Init, FrameTypes, Command, Modes
<1>2. CfgTypes
  BY BoardAssumption DEF Init, CfgTypes
<1>. QED
  BY <1>1, <1>2, TypeParts
  DEF Init, IInv, SkipInv, XchgInv, RawIsFeedback, AnswerIsOurs

\* Servo frames to some boards keep what the invariant says of the buffers.
LEMMA ClockedKeeps ==
  ASSUME IInv, LockFree, NEW S, NEW again, NEW c,
         \A b \in Boards : c[b] \in [Servos -> Command],
         Clocked(S, again, c)
  PROVE  /\ tx' \in [Boards -> {"junk", "servo", "echo", "config"}]
         /\ reply' \in [Boards -> SUBSET Request]
         /\ inbox' \in [Boards -> SUBSET Request]
         /\ told' \in [Boards -> [Servos -> Command]]
         /\ link' = link
         /\ \A b \in Boards : ~rawSkip[b] => tx'[b] \in {"junk", "servo"} /\ inbox'[b] = {}
         /\ \A b \in S \cap Boards : /\ inbox'[b] = {}
                                     /\ Reads[b] \in {"servo", "echo"} => tx'[b] = "servo"
<1>. USE TypeParts, ReadsFacts DEF IInv
<1>1. /\ tx' \in [Boards -> {"junk", "servo", "echo", "config"}]
      /\ \A b \in S \cap Boards : Reads[b] \in {"servo", "echo"} => tx'[b] = "servo"
  BY DEF Clocked, FrameTypes
<1>2. /\ reply' \in [Boards -> SUBSET Request]
      /\ inbox' \in [Boards -> SUBSET Request]
      /\ told' \in [Boards -> [Servos -> Command]]
      /\ link' = link
      /\ \A b \in S \cap Boards : inbox'[b] = {}
  BY DEF Clocked, FrameTypes
<1>3. \A b \in Boards : ~rawSkip[b] => tx'[b] \in {"junk", "servo"} /\ inbox'[b] = {}
  BY DEF Clocked, FrameTypes, SkipInv
<1>. QED
  BY <1>1, <1>2, <1>3

\* The commands the driver sends are commands.
LEMMA CommandTypes ==
  /\ \A m \in Modes : \A b \in Boards : AllServos(m)[b] \in [Servos -> Command]
  /\ \A x \in Command : \A m \in Modes : [x EXCEPT !.mode = m] \in Command
  /\ \A x \in Command : Held(x) \in Command /\ Held(x).mode \in {"position", "idle"} /\ ~Held(x).gains
  BY DEF AllServos, Held, Command, Modes

\* A step of the frame operations that leaves raw and raw_skip alone.
LEMMA FrameStep ==
  ASSUME IInv, LockFree, NEW S, NEW again, NEW c,
         \A b \in Boards : c[b] \in [Servos -> Command],
         Clocked(S, again, c), Still, UNCHANGED <<raw, rawSkip>>,
         sh' \in [Boards -> [Servos -> Command]],
         cached' \in [Boards -> {"junk", "servo", "echo", "config", "none"}],
         fresh' \in [Boards -> BOOLEAN]
  PROVE  IInv'
<1>1. FrameTypes'
  BY ClockedKeeps, TypeParts DEF IInv, FrameTypes
<1>2. CfgTypes'
  BY ClockedKeeps, TypeParts DEF IInv, CfgTypes, Still, health
<1>3. SkipInv'
  BY ClockedKeeps DEF SkipInv
<1>4. XchgInv' /\ RawIsFeedback' /\ AnswerIsOurs'
  BY DEF IInv, XchgInv, RawIsFeedback, AnswerIsOurs, Still, LockFree
<1>. QED
  BY <1>1, <1>2, <1>3, <1>4, TypesAfter DEF IInv

\* What fb_store() leaves in the caches is a reply it was given.
LEMMA StoredTypes ==
  ASSUME FrameTypes, NEW S, NEW f, \A b \in Boards : f[b] \in {"junk", "servo", "echo", "config"},
         Stored(S, f)
  PROVE  cached' \in [Boards -> {"junk", "servo", "echo", "config", "none"}]
  BY DEF Stored, FrameTypes

\* A resend of the shadow.
LEMMA ResentStep ==
  ASSUME IInv, LockFree, NEW S, Resent(S), Still, sh' \in [Boards -> [Servos -> Command]]
  PROVE  IInv'
<1>. DEFINE again == {b \in S : ~FbFrameValid(Reads[b])}
            last == [b \in Boards |-> IF b \in again \cap Present THEN Wire!AfterOne[b] ELSE Reads[b]]
<1>1. /\ Stored(S, last) /\ Clocked(S, again, sh') /\ UNCHANGED <<raw, rawSkip>>
      /\ fresh' = [b \in Boards |-> fresh[b] \/ (b \in S /\ FbFrameValid(last[b]))]
  BY DEF Resent
<1>2. \A b \in Boards : last[b] \in {"junk", "servo", "echo", "config"}
  BY ReadsFacts, TypeParts DEF IInv, FrameTypes
<1>. HIDE DEF last, again
<1>3. cached' \in [Boards -> {"junk", "servo", "echo", "config", "none"}]
  BY <1>1, <1>2, StoredTypes, TypeParts DEF IInv
<1>4. fresh' \in [Boards -> BOOLEAN]
  BY <1>1, TypeParts, Zenon DEF IInv, FrameTypes, FbFrameValid
<1>5. \A b \in Boards : sh'[b] \in [Servos -> Command]
  OBVIOUS
<1>. QED
  BY <1>1, <1>3, <1>4, <1>5, FrameStep

\* The gait's positions, and the idle frame.
LEMMA SyncStep == IInv /\ (SyncWrite \/ SyncIdle) => IInv'
<1>. SUFFICES ASSUME IInv, NEW m \in {"position", "idle"}, LockFree, Still,
                     sh' = [b \in Boards |-> [s \in Servos |-> [sh[b][s] EXCEPT !.mode = m]]],
                     Stored(Boards, Reads), fresh' \in [Boards -> BOOLEAN],
                     Clocked(Boards, {}, AllServos(m)), UNCHANGED <<raw, rawSkip>>
              PROVE  IInv'
  <2>1. ASSUME IInv, SyncWrite PROVE fresh' \in [Boards -> BOOLEAN]
    BY <2>1, TypeParts, Zenon DEF IInv, FrameTypes, SyncWrite, FbFrameValid
  <2>2. ASSUME SyncIdle PROVE fresh' \in [Boards -> BOOLEAN]
    BY <2>2 DEF SyncIdle, FbFrameValid
  <2>. QED
    BY <2>1, <2>2 DEF SyncWrite, SyncIdle
<1>1. sh' \in [Boards -> [Servos -> Command]]
  <2>1. \A b \in Boards, s \in Servos : [sh[b][s] EXCEPT !.mode = m] \in Command
    <3>1. \A b \in Boards, s \in Servos : sh[b][s] \in Command
      BY TypeParts DEF IInv, FrameTypes
    <3>2. m \in Modes
      BY DEF Modes
    <3>. QED
      BY <3>1, <3>2, CommandTypes
  <2>. QED
    BY <2>1
<1>2. cached' \in [Boards -> {"junk", "servo", "echo", "config", "none"}]
  <2>1. \A b \in Boards : Reads[b] \in {"junk", "servo", "echo", "config"}
    BY ReadsFacts, TypeParts DEF IInv, FrameTypes
  <2>. QED
    BY <2>1, StoredTypes, TypeParts DEF IInv
<1>3. \A b \in Boards : AllServos(m)[b] \in [Servos -> Command]
  BY CommandTypes DEF Modes
<1>. QED
  BY <1>1, <1>2, <1>3, FrameStep

\* A read, a direct write, a commit: the shadow, sent again.
LEMMA ResendStep ==
  ASSUME IInv, \/ Commit
               \/ \E b \in Boards : PollBoard(b)
               \/ \E b \in Boards, s \in Servos, mode \in Modes : Direct(b, s, mode)
  PROVE  IInv'
<1>1. CASE Commit \/ \E b \in Boards : PollBoard(b)
  BY <1>1, ResentStep, TypeParts DEF Commit, PollBoard, IInv, FrameTypes
<1>2. CASE \E b \in Boards, s \in Servos, mode \in Modes : Direct(b, s, mode)
  <2>. PICK b \in Boards, s \in Servos, mode \in Modes : Direct(b, s, mode)
    BY <1>2
  <2>1. sh' \in [Boards -> [Servos -> Command]]
    <3>1. sh \in [Boards -> [Servos -> Command]]
      BY TypeParts DEF IInv, FrameTypes
    <3>2. [sh[b][s] EXCEPT !.mode = mode] \in Command
      BY <3>1, CommandTypes
    <3>. QED
      BY <3>1, <3>2 DEF Direct
  <2>. QED
    BY <2>1, ResentStep DEF Direct
<1>. QED
  BY <1>1, <1>2

\* Staging a command, and raw_invalidate: nothing is sent.
LEMMA StageStep ==
  ASSUME IInv, \/ RawInvalidate
               \/ \E b \in Boards, s \in Servos, gains \in BOOLEAN : Stage(b, s, gains)
  PROVE  IInv'
<1>1. CASE RawInvalidate
  <2>1. FrameTypes' /\ CfgTypes'
    BY <1>1, TypeParts DEF RawInvalidate, IInv, FrameTypes, CfgTypes, Still, health, board
  <2>. QED
    BY <1>1, <2>1, TypesAfter DEF RawInvalidate, IInv, Still, board, SkipInv, XchgInv, RawIsFeedback,
                     AnswerIsOurs
<1>2. CASE \E b \in Boards, s \in Servos, gains \in BOOLEAN : Stage(b, s, gains)
  <2>1. FrameTypes' /\ CfgTypes'
    BY <1>2, TypeParts DEF Stage, IInv, FrameTypes, CfgTypes, Still, health, board, caches, Command, Modes
  <2>. QED
    BY <1>2, <2>1, TypesAfter DEF Stage, IInv, Still, board, caches, SkipInv, XchgInv, RawIsFeedback,
                     AnswerIsOurs
<1>. QED
  BY <1>1, <1>2

\* The raw exchange: what it reports was asked for by nobody else.
LEMMA RawStep == ASSUME IInv, NEW modes \in RawModes, SyncRaw(modes) PROVE IInv'
<1>. USE TypeParts DEF IInv
<1>1. sh' \in [Boards -> [Servos -> Command]]
  <2>1. ASSUME NEW b \in Boards, NEW s \in Servos
        PROVE  (IF modes[b][s] = "hold" THEN Held(sh[b][s])
                ELSE [mode |-> modes[b][s], gains |-> FALSE]) \in Command
    BY CommandTypes DEF FrameTypes, RawModes, Command, Modes
  <2>. QED
    BY <2>1 DEF SyncRaw
<1>2. /\ tx' \in [Boards -> {"junk", "servo", "echo", "config"}]
      /\ reply' \in [Boards -> SUBSET Request]
      /\ inbox' \in [Boards -> SUBSET Request]
      /\ told' \in [Boards -> [Servos -> Command]]
      /\ link' = link
      /\ \A b \in Boards : inbox'[b] = {}
  BY <1>1, ClockedKeeps DEF SyncRaw
<1>2a. ASSUME NEW b \in Boards, ~rawSkip[b] \/ Reads[b] \in {"servo", "echo"}
       PROVE  tx'[b] \in {"junk", "servo"}
  BY <1>1, <1>2a, ClockedKeeps DEF SyncRaw
<1>3. cached' \in [Boards -> {"junk", "servo", "echo", "config", "none"}]
  <2>1. \A b \in Boards : Reads[b] \in {"junk", "servo", "echo", "config"}
    BY ReadsFacts DEF FrameTypes
  <2>. QED
    BY <2>1, StoredTypes DEF SyncRaw
<1>4. fresh' \in [Boards -> BOOLEAN]
  BY Zenon DEF SyncRaw, FrameTypes, Reported
<1>5. \A b \in Boards : raw'[b] = CASE Reads[b] = "junk" -> "invalid"
                                   [] Reported(b) -> Reads[b]
                                   [] OTHER -> raw[b]
  BY DEF SyncRaw
<1>6. \A b \in Boards : raw'[b] \in {"servo", "invalid"}
  BY <1>5, ReadsFacts DEF Reported, SkipInv, RawIsFeedback, Feedback, Wire!Feedback
<1>7. raw' \in [Boards -> {"junk", "servo", "echo", "config", "invalid"}]
  <2>1. DOMAIN raw' = Boards /\ raw' = [b \in Boards |-> raw'[b]]
    BY DEF SyncRaw
  <2>. QED
    BY <1>6, <2>1
<1>8. rawSkip' \in [Boards -> BOOLEAN]
  BY Zenon DEF SyncRaw, FrameTypes
<1>9. SkipInv'
  <2>1. \A b \in Boards : rawSkip'[b] <=> Reads[b] = "config" \/ (Reads[b] = "junk" /\ rawSkip[b])
    BY DEF SyncRaw
  <2>2. \A b \in Boards : Reads[b] \in {"junk", "servo", "echo", "config"}
    BY ReadsFacts DEF FrameTypes
  <2>3. ASSUME NEW b \in Boards, ~rawSkip'[b] PROVE tx'[b] \in {"junk", "servo"} /\ inbox'[b] = {}
    <3>1. Reads[b] \in {"servo", "echo"} \/ ~rawSkip[b]
      BY <2>1, <2>2, <2>3
    <3>. QED
      BY <1>2, <1>2a, <2>3, <3>1
  <2>. QED
    BY <2>3 DEF SkipInv
<1>10. FrameTypes'
  BY <1>1, <1>2, <1>3, <1>4, <1>7, <1>8 DEF FrameTypes
<1>11. CfgTypes'
  BY <1>2 DEF CfgTypes, SyncRaw, Still, health
<1>12. XchgInv' /\ AnswerIsOurs'
  BY DEF XchgInv, AnswerIsOurs, SyncRaw, Still, LockFree
<1>13. RawIsFeedback'
  BY <1>6 DEF RawIsFeedback
<1>. QED
  BY <1>9, <1>10, <1>11, <1>12, <1>13, TypesAfter

\* A request goes out: the next reply the policy is not to be told of.
LEMMA AskStep == ASSUME IInv, NEW b \in Boards, NEW r \in Request, CfgAsk(b, r) PROVE IInv'
<1>. USE TypeParts DEF IInv
<1>1. PICK missed \in BOOLEAN :
        /\ IF missed THEN Delays(b, r) \/ Ignores(b) ELSE Takes(b, r)
        /\ xchg' = {[board |-> b, req |-> r, tries |-> 0, missed |-> missed]}
  BY DEF CfgAsk
<1>2. FrameTypes'
  <2>1. rawSkip' \in [Boards -> BOOLEAN]
    BY Zenon DEF FrameTypes, CfgAsk
  <2>2. /\ tx' \in [Boards -> {"junk", "servo", "echo", "config"}]
        /\ reply' \in [Boards -> SUBSET Request]
        /\ inbox' \in [Boards -> SUBSET Request]
    <3>1. {r} \in SUBSET Request /\ {} \in SUBSET Request
      OBVIOUS
    <3>2. CASE Takes(b, r)
      BY <3>1, <3>2 DEF FrameTypes, Takes
    <3>3. CASE Delays(b, r) \/ Ignores(b)
      BY <3>1, <3>3 DEF FrameTypes, Delays, Ignores
    <3>. QED
      BY <1>1, <3>2, <3>3
  <2>. QED
    BY <2>1, <2>2 DEF FrameTypes, CfgAsk
<1>3. CfgTypes'
  BY <1>1, BoardAssumption DEF CfgTypes, CfgAsk, Exchange
<1>4. SkipInv'
  BY <1>1 DEF SkipInv, FrameTypes, CfgAsk, Takes, Delays, Ignores
<1>5. XchgInv'
  BY <1>1 DEF XchgInv, FrameTypes, CfgAsk, Takes, Delays, Ignores
<1>6. RawIsFeedback' /\ AnswerIsOurs'
  BY DEF RawIsFeedback, AnswerIsOurs, CfgAsk
<1>. QED
  BY <1>2, <1>3, <1>4, <1>5, <1>6, TypesAfter

\* cfg_note_result() keeps the counts in their bounds.
LEMMA NoteTypes ==
  ASSUME CfgTypes, NEW b \in Boards, NEW ok \in BOOLEAN, NoteResult(b, ok)
  PROVE  /\ fails' \in [Boards -> 0..CfgFailsToMute]
         /\ muted' \in [Boards -> BOOLEAN] /\ due' \in [Boards -> BOOLEAN]
<1>1. fails' \in [Boards -> 0..CfgFailsToMute]
  BY BoardAssumption DEF NoteResult, CfgTypes
<1>2. muted' \in [Boards -> BOOLEAN] /\ due' \in [Boards -> BOOLEAN]
  BY Zenon DEF NoteResult, CfgTypes
<1>. QED
  BY <1>1, <1>2

\* A turn of the exchange: its reply, a NOP, or an error.
LEMMA ExchangeStep ==
  ASSUME IInv, NEW x \in xchg, CfgAnswered(x) \/ CfgNop(x) \/ CfgXferFails(x)
  PROVE  IInv'
<1>. USE TypeParts DEF IInv
<1>0. x \in Exchange /\ x.board \in Boards /\ (\A y \in xchg : y = x)
  BY DEF CfgTypes, Exchange
<1>1. UNCHANGED <<board, told, sh, caches>>
  BY DEF CfgAnswered, CfgNop, CfgXferFails, Ends
<1>2. \/ xchg' = {} /\ \E ok \in BOOLEAN : NoteResult(x.board, ok)
      \/ /\ xchg' = {[x EXCEPT !.tries = @ + 1]} /\ x.tries + 1 < CfgTries
         /\ UNCHANGED health
  BY DEF CfgAnswered, CfgNop, CfgXferFails, Ends
<1>3. \/ UNCHANGED answer
      \/ \E r \in reply[x.board] : /\ Matches(x, r)
                                   /\ answer' = {[asked |-> x.req, got |-> r, missed |-> x.missed]}
  BY DEF CfgAnswered, CfgNop, CfgXferFails
<1>4. FrameTypes' /\ SkipInv' /\ RawIsFeedback'
  BY <1>1 DEF FrameTypes, SkipInv, RawIsFeedback, board, caches
<1>5. answer' \in SUBSET Answer
  BY <1>0, <1>3 DEF CfgTypes, FrameTypes, Answer, Exchange
<1>6. /\ fails' \in [Boards -> 0..CfgFailsToMute]
      /\ muted' \in [Boards -> BOOLEAN] /\ due' \in [Boards -> BOOLEAN]
  BY <1>0, <1>2, NoteTypes DEF CfgTypes, health
<1>7. xchg' \in SUBSET Exchange /\ (\A y, z \in xchg' : y = z)
  BY <1>0, <1>2, BoardAssumption DEF Exchange
<1>8. CfgTypes'
  BY <1>1, <1>5, <1>6, <1>7 DEF CfgTypes, board
<1>9. XchgInv'
  <2>1. [x EXCEPT !.tries = @ + 1].board = x.board /\ [x EXCEPT !.tries = @ + 1].req = x.req
        /\ [x EXCEPT !.tries = @ + 1].missed = x.missed
    BY <1>0 DEF Exchange
  <2>. QED
    BY <1>1, <1>2, <2>1 DEF XchgInv, board
<1>10. AnswerIsOurs'
  BY <1>3 DEF AnswerIsOurs, XchgInv, Matches
<1>. QED
  BY <1>4, <1>8, <1>9, <1>10, TypesAfter

\* The boards and the clock.
LEMMA WorldStep == ASSUME IInv, NEW b \in Boards, World(b) \/ ReprobeDue(b) PROVE IInv'
<1>. USE TypeParts DEF IInv
<1>1. CASE LateTake(b)
  <2>. PICK r \in inbox[b] : Takes(b, r)
    BY <1>1 DEF LateTake
  <2>1. xchg' = {IF x.board = b THEN [x EXCEPT !.missed = FALSE] ELSE x : x \in xchg}
    BY <1>1 DEF LateTake
  <2>2. FrameTypes'
    BY <1>1 DEF LateTake, Takes, FrameTypes, caches
  <2>3. CfgTypes'
    BY <1>1, <2>1 DEF LateTake, CfgTypes, Exchange, health
  <2>4. SkipInv'
    BY <1>1 DEF LateTake, Takes, SkipInv, FrameTypes, caches
  <2>5. XchgInv'
    BY <2>1 DEF Takes, XchgInv, FrameTypes, CfgTypes, Exchange
  <2>6. RawIsFeedback' /\ AnswerIsOurs'
    BY <1>1 DEF LateTake, RawIsFeedback, AnswerIsOurs, caches
  <2>. QED
    BY <2>2, <2>3, <2>4, <2>5, <2>6, TypesAfter
<1>2. CASE PlugIn(b) \/ Wavers(b) \/ ReprobeDue(b)
  <2>1. UNCHANGED <<tx, reply, inbox, told, sh, caches, fails, muted, xchg, answer>>
    BY <1>2 DEF PlugIn, Wavers, ReprobeDue, health, board
  <2>2. FrameTypes'
    BY <2>1 DEF FrameTypes, caches
  <2>3. link' \in [Boards -> {"absent", "flaky", "well"}]
    BY <1>2 DEF PlugIn, Wavers, ReprobeDue, CfgTypes, board
  <2>4. due' \in [Boards -> BOOLEAN]
    BY <1>2 DEF PlugIn, Wavers, ReprobeDue, CfgTypes, health
  <2>5. CfgTypes'
    BY <2>1, <2>3, <2>4 DEF CfgTypes
  <2>6. SkipInv' /\ XchgInv' /\ RawIsFeedback' /\ AnswerIsOurs'
    BY <2>1 DEF caches, SkipInv, XchgInv, RawIsFeedback, AnswerIsOurs
  <2>. QED
    BY <2>2, <2>5, <2>6, TypesAfter
<1>3. CASE PullOut(b)
  <2>1. FrameTypes'
    BY <1>3 DEF PullOut, FrameTypes, caches, Command, Modes
  <2>2. CfgTypes'
    BY <1>3 DEF PullOut, CfgTypes, health
  <2>3. SkipInv' /\ XchgInv' /\ RawIsFeedback' /\ AnswerIsOurs'
    BY <1>3 DEF PullOut, FrameTypes, CfgTypes, Exchange, caches, SkipInv, XchgInv, RawIsFeedback, AnswerIsOurs
  <2>. QED
    BY <2>1, <2>2, <2>3, TypesAfter
<1>. QED
  BY <1>1, <1>2, <1>3 DEF World

\* Every step keeps the invariant.
LEMMA StepIInv == IInv /\ [Next]_vars => IInv'
<1>. SUFFICES ASSUME IInv, [Next]_vars PROVE IInv'
  OBVIOUS
<1>1. CASE UNCHANGED vars
  BY <1>1 DEF vars, board, caches, health, IInv, TypeOK, SkipInv, XchgInv, RawIsFeedback, AnswerIsOurs
<1>2. CASE Frame
  BY <1>2, SyncStep, ResendStep, StageStep, RawStep DEF Frame
<1>3. CASE Exchanging
  BY <1>3, ExchangeStep DEF Exchanging
<1>4. CASE \E b \in Boards : Ask(b) \/ World(b) \/ ReprobeDue(b)
  BY <1>4, AskStep, WorldStep DEF Ask
<1>. QED
  BY <1>1, <1>2, <1>3, <1>4 DEF Next

\* The invariant holds in every state of every behaviour.
THEOREM Invariance == Spec => []IInv
  BY InitIInv, StepIInv, PTL DEF Spec

\* Counts, caches, shadow and exchange have their types.
THEOREM BoardTypes == Spec => []TypeOK
  BY Invariance, PTL DEF IInv

\* Neither a config reply nor its echo is reported to the RL host.
THEOREM RawReports == Spec => []RawIsFeedback
  BY Invariance, PTL DEF IInv

\* A request the board has taken gets its own answer.
THEOREM AnswersAreOurs == Spec => []AnswerIsOurs
  BY Invariance, PTL DEF IInv

\* A HOLD sends no torque and no gains, whatever a skill left in the shadow.
THEOREM HoldsAreSoft == Spec => HoldIsNoTorque
<1>1. ASSUME IInv, NEW modes \in RawModes, SyncRaw(modes), NEW b \in Present, NEW s \in Servos
      PROVE  told'[b][s] \in {[mode |-> "position", gains |-> FALSE],
                              [mode |-> "idle", gains |-> FALSE]}
  <2>1. told'[b] = sh'[b]
    BY <1>1 DEF SyncRaw, Clocked, Present
  <2>2. sh'[b][s] = IF modes[b][s] = "hold" THEN Held(sh[b][s])
                    ELSE [mode |-> modes[b][s], gains |-> FALSE]
    BY <1>1 DEF SyncRaw, Present
  <2>. QED
    BY <1>1, <2>1, <2>2 DEF RawModes, Held, Present
<1>. DEFINE Soft == \A modes \in RawModes : SyncRaw(modes) =>
              \A b \in Present, s \in Servos : told'[b][s] \in {[mode |-> "position", gains |-> FALSE],
                                                                 [mode |-> "idle", gains |-> FALSE]}
<1>2. IInv /\ [Next]_vars => [Soft]_vars
  BY <1>1
<1>. QED
  BY <1>2, Invariance, PTL DEF Spec, HoldIsNoTorque
=============================================================================

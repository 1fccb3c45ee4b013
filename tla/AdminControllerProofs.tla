----------------------- MODULE AdminControllerProofs -----------------------
(***************************************************************************)
(* What memory, file and administrators say of the configuration agrees,   *)
(* for every set of texts, users and administrators, every conversion of   *)
(* texts and all bounds.                                                   *)
(*                                                                         *)
(* First the types; then the file, where the token that every stored tg    *)
(* section keeps is what the second start rests on; then what was told,    *)
(* where the sections still to be stored change nothing but the object of  *)
(* the answer in hand, and make of it what was asked.                      *)
(***************************************************************************)
EXTENDS AdminController, TLAPS

USE ConfigAssumption, AdminAssumption

-----------------------------------------------------------------------------
(* Types.                                                                  *)

LEMMA NumberIs ==
  ASSUME NEW t \in Texts, IsNumber(t)
  PROVE  Number[t] \in Users /\ Number[t] \in Nat /\ ToUInt(t) \in UInt
<1>1. Number[t] \in Users /\ Number[t] \in Nat
  BY DEF IsNumber
<1> QED
  BY <1>1 DEF ToUInt, UInt

LEMMA DefaultType == DefaultConfig \in Config
BY DEF DefaultConfig, Config, TgSection, TopicList, LogicSection, UInt

LEMMA ChangeIs ==
  ASSUME NEW ch \in Change
  PROVE  \/ ch[1] = "tg" /\ ch[2] \in TgSection
         \/ ch[1] = "mqtt" /\ ch[2] \in TopicList
         \/ ch[1] = "logic" /\ ch[2] \in LogicSection
BY DEF Change

LEMMA AssignType ==
  ASSUME NEW c \in Config, NEW ch \in Change
  PROVE  [c EXCEPT ![ch[1]] = ch[2]] \in Config
BY ChangeIs DEF Config

LEMMA TodoHead ==
  ASSUME todo \in Seq(Change), todo # <<>>
  PROVE  Head(todo) \in Change /\ Tail(todo) \in Seq(Change)
OBVIOUS

LEMMA QueueHead ==
  ASSUME NEW q \in Seq(Update), q # <<>>
  PROVE  Head(q) \in Update /\ Tail(q) \in Seq(Update)
OBVIOUS

(* Sections built by the operations.                                       *)
LEMMA SectionTypes ==
  ASSUME mem \in Config
  PROVE  /\ \A s \in SUBSET Users : StoreTg(s) \in Change
         /\ \A s \in TopicList : StoreTopics(s) \in Change
         /\ \A l \in LogicSection : StoreLogic(l) \in Change
BY DEF Config, TgSection, Change, StoreTg, StoreTopics, StoreLogic

(* The two shapes of what an operation returns.                            *)
OpResult == [ok : BOOLEAN, stores : Seq(Change)]

LEMMA ReturnsType == \A ok \in BOOLEAN : Returns(ok) \in OpResult
BY DEF Returns, OpResult

LEMMA StoresType ==
  /\ \A x \in Change : Stores(<<x>>) \in OpResult
  /\ \A x, y \in Change : Stores(<<x, y>>) \in OpResult
BY DEF Stores, OpResult

(* An answer that reaches an operation.                                    *)
StorableKeys == Keys \ (DOMAIN SecondQuestion \cup {"machines.state"})
Answerable(d, text) ==
  /\ d \in PendingAction /\ d.key \in StorableKeys
  /\ d.key \in SecondKeys => d.param \in Texts
  /\ text \in Texts
  /\ Accepts(d, text)

LEMMA SecondQuestionIs ==
  /\ DOMAIN SecondQuestion = {"machines.add.id", "errors.add.code"}
  /\ \A k \in DOMAIN SecondQuestion : SecondQuestion[k] \in SecondKeys
BY DEF SecondQuestion, SecondKeys

LEMMA StorableKeysAre ==
  StorableKeys = {"logic.timeout", "logic.timeout_limit", "tg.users.add",
                  "tg.users.rem", "machines.add.pseudo", "machines.rem",
                  "errors.add.des", "errors.rem", "ex.add", "ex.rem"}
BY SecondQuestionIs DEF StorableKeys, Keys, SecondKeys, Questions

LEMMA OperationType ==
  ASSUME mem \in Config, NEW d, NEW text, Answerable(d, text), NEW taken \in BOOLEAN
  PROVE  Operation(d, text, taken) \in OpResult
<1> DEFINE op == Operation(d, text, taken)
<1> USE SectionTypes, StoresType, ReturnsType
<1>1. mem.tg \in TgSection /\ mem.mqtt \in TopicList /\ mem.logic \in LogicSection
  BY DEF Config
<1>2. text \in Texts /\ d.key \in StorableKeys
  BY DEF Answerable
<1>3. \A t \in Texts, name \in Texts \cup {None} : WithName(t, name) \in LogicSection
  BY <1>1 DEF WithName, LogicSection
<1>4. mem.tg.users \in SUBSET Users
  BY <1>1 DEF TgSection
<1>5. CASE d.key = "logic.timeout"
  <2>1. op = SetTimeout(Number[text]) /\ IsNumber(text)
    BY <1>5 DEF Operation, Answerable, Accepts, IsULong
  <2>2. [mem.logic EXCEPT !.timeout = Number[text]] \in LogicSection
    BY <1>1, <1>2, <2>1, NumberIs DEF LogicSection
  <2> QED
    BY <2>1, <2>2 DEF SetTimeout
<1>6. CASE d.key = "logic.timeout_limit"
  <2>1. op = SetTimeoutLimit(ToUInt(text)) /\ IsNumber(text)
    BY <1>6 DEF Operation, Answerable, Accepts, IsULong
  <2>2. [mem.logic EXCEPT !.timeout_limit = ToUInt(text)] \in LogicSection
    BY <1>1, <1>2, <2>1, NumberIs DEF LogicSection
  <2> QED
    BY <2>1, <2>2 DEF SetTimeoutLimit
<1>7. CASE d.key = "tg.users.add"
  <2>1. op = AddUser(Number[text]) /\ Number[text] \in Users
    BY <1>2, <1>7, NumberIs DEF Operation, Answerable, Accepts, IsULong
  <2> QED
    BY <1>4, <2>1 DEF AddUser
<1>8. CASE d.key = "tg.users.rem"
  <2>1. op = RemoveUser(Number[text])
    BY <1>8 DEF Operation
  <2> QED
    BY <1>4, <2>1 DEF RemoveUser
<1>9. CASE d.key = "machines.add.pseudo"
  <2>1. op = AddMachine(d.param, text, taken) /\ d.param \in Texts
    BY <1>9 DEF Operation, Answerable, SecondKeys
  <2>2. mem.mqtt \cup {d.param} \in TopicList
    BY <1>1, <2>1 DEF TopicList
  <2>3. Stores(<<StoreLogic(WithName(d.param, text)),
                 StoreTopics(mem.mqtt \cup {d.param})>>) \in OpResult
    <3>1. StoreLogic(WithName(d.param, text)) \in Change
      BY <1>2, <1>3, <2>1
    <3>2. StoreTopics(mem.mqtt \cup {d.param}) \in Change
      BY <2>2
    <3> QED
      BY <3>1, <3>2, Zenon
  <2> QED
    BY <2>1, <2>3 DEF AddMachine
<1>10. CASE d.key = "machines.rem"
  <2>1. op = RemoveMachine(text, taken)
    BY <1>10 DEF Operation
  <2>2. mem.mqtt \ TopicsOf(text, taken) \in TopicList
    BY <1>1 DEF TopicList
  <2>3. StoreLogic(WithName(text, None)) \in Change
    BY <1>2, <1>3
  <2>4. StoreTopics(mem.mqtt \ TopicsOf(text, taken)) \in Change
    BY <2>2
  <2>5. Stores(<<StoreLogic(WithName(text, None)),
                 StoreTopics(mem.mqtt \ TopicsOf(text, taken))>>) \in OpResult
    BY <2>3, <2>4, Zenon
  <2> QED
    BY <2>1, <2>5 DEF RemoveMachine
<1>11. CASE d.key = "errors.add.des"
  <2>1. op = AddError(ToUInt(d.param)) /\ d.param \in Texts /\ IsNumber(d.param)
    BY <1>11 DEF Operation, Answerable, SecondKeys, Accepts, IsULong
  <2>2. [mem.logic EXCEPT !.code = @ \cup {ToUInt(d.param)}] \in LogicSection
    BY <1>1, <2>1, NumberIs DEF LogicSection
  <2> QED
    BY <2>1, <2>2 DEF AddError
<1>12. CASE d.key = "errors.rem"
  <2>1. op = RemError(ToUInt(text))
    BY <1>12 DEF Operation
  <2>2. [mem.logic EXCEPT !.code = @ \ {ToUInt(text)}] \in LogicSection
    BY <1>1 DEF LogicSection
  <2> QED
    BY <2>1, <2>2 DEF RemError
<1>13. CASE d.key = "ex.add"
  <2>1. op = AddEx(ToUInt(text)) /\ IsNumber(text)
    BY <1>13 DEF Operation, Answerable, Accepts, IsULong
  <2>2. [mem.logic EXCEPT !.disabled_codes = @ \cup {ToUInt(text)}] \in LogicSection
    BY <1>1, <1>2, <2>1, NumberIs DEF LogicSection
  <2> QED
    BY <2>1, <2>2 DEF AddEx
<1>14. CASE d.key = "ex.rem"
  <2>1. op = RemEx(ToUInt(text))
    BY <1>14 DEF Operation
  <2>2. [mem.logic EXCEPT !.disabled_codes = @ \ {ToUInt(text)}] \in LogicSection
    BY <1>1 DEF LogicSection
  <2> QED
    BY <2>1, <2>2 DEF RemEx
<1> QED
  BY <1>2, <1>5, <1>6, <1>7, <1>8, <1>9, <1>10, <1>11, <1>12, <1>13, <1>14,
     StorableKeysAre

(* What an answer is about.                                                *)
LEMMA AskedType ==
  ASSUME NEW d, NEW text, Answerable(d, text)
  PROVE  Asked(d, text).object \in Objects
<1>1. text \in Texts /\ d.key \in StorableKeys
  BY DEF Answerable
<1>2. d.key \in SecondKeys => d.param \in Texts
  BY DEF Answerable
<1>3. d.key \in {"logic.timeout_limit", "tg.users.add", "tg.users.rem", "errors.rem",
                 "ex.add", "ex.rem"} => IsNumber(text)
  BY DEF Answerable, Accepts, IsULong
<1>4. d.key = "errors.add.des" => IsNumber(d.param)
  BY DEF Answerable, Accepts, IsULong
<1>5. \A t \in Texts : <<"machine", t>> \in Objects
  BY DEF Objects
<1>6. \A u \in Users : <<"user", u>> \in Objects
  BY DEF Objects
<1>7. \A c \in UInt : <<"code", c>> \in Objects /\ <<"muted", c>> \in Objects
  BY DEF Objects
<1>8. <<"timeout", None>> \in Objects /\ <<"limit", None>> \in Objects
  BY DEF Objects
<1> QED
  BY <1>1, <1>2, <1>3, <1>4, <1>5, <1>6, <1>7, <1>8, NumberIs, StorableKeysAre
  DEF Asked, SecondKeys

-----------------------------------------------------------------------------
(* The answer in hand while it is stored.                                  *)
HandInv ==
  phase = "storing" =>
    /\ Running /\ queue # <<>> /\ FromAdmin /\ InHand.kind = "text"
    /\ Pending # None /\ Answerable(Pending, InHand.data)

TypeInv == TypeOK /\ HandInv

LEMMA UpdateIs ==
  ASSUME NEW u \in Update
  PROVE  /\ u.from \in Admins \cup Strangers
         /\ u.kind = "button" => u.data \in Questions
         /\ u.kind = "text" => u.data \in Texts \cup {Cancel}
BY DEF Update

LEMMA BotType ==
  ASSUME TypeOK, queue # <<>>, Calls
  PROVE  /\ queue' \in Seq(Update) /\ handled' \in Seq(Update)
         /\ threw' \in BOOLEAN /\ received' = received
<1>1. Tail(queue) \in Seq(Update) /\ Append(handled, InHand) \in Seq(Update)
      /\ handled \o queue \in Seq(Update)
  BY QueueHead DEF TypeOK, InHand
<1>2. CASE Returned
  BY <1>1, <1>2 DEF Returned
<1>3. CASE Threw
  <2>1. <<>> \in Seq(Update)
    OBVIOUS
  <2> QED
    BY <1>1, <1>3, <2>1 DEF Threw
<1> QED
  BY <1>2, <1>3 DEF Calls

LEMMA StoreType ==
  ASSUME ConfigTypeOK, Store
  PROVE  ConfigTypeOK' /\ todo # <<>>
<1>1. todo # <<>>
  BY DEF ConfigTypeOK, Store, Lock, OpenFile, OpenFileFails, WriteFile, WriteFileFails
<1>2. Head(todo) \in Change /\ Tail(todo) \in Seq(Change) /\ <<>> \in Seq(Change)
  BY <1>1, TodoHead DEF ConfigTypeOK
<1>3. AssignSection => mem' \in Config
  BY <1>2, AssignType DEF ConfigTypeOK, AssignSection
<1>4. CASE Lock
  BY <1>4 DEF Lock, ConfigTypeOK
<1>5. CASE OpenFile
  BY <1>1, <1>3, <1>5 DEF OpenFile, ConfigTypeOK
<1>6. CASE OpenFileFails
  BY <1>2, <1>3, <1>6 DEF OpenFileFails, Return, ConfigTypeOK
<1>7. CASE WriteFile
  BY <1>2, <1>7 DEF WriteFile, Return, ConfigTypeOK
<1>8. CASE WriteFileFails
  BY <1>2, <1>8 DEF WriteFileFails, Return, ConfigTypeOK
<1> QED
  BY <1>1, <1>4, <1>5, <1>6, <1>7, <1>8 DEF Store

LEMMA OtherConfigTypes ==
  ASSUME ConfigTypeOK
  PROVE  /\ UNCHANGED configVars => ConfigTypeOK'
         /\ Resolve => ConfigTypeOK'
         /\ StoreEnds => ConfigTypeOK'
<1>1. UNCHANGED configVars => ConfigTypeOK'
  BY DEF configVars, ConfigTypeOK
<1>2. Resolve => ConfigTypeOK'
  BY DEF Resolve, ConfigTypeOK
<1>3. StoreEnds => ConfigTypeOK'
  BY DEF StoreEnds, ConfigTypeOK
<1> QED
  BY <1>1, <1>2, <1>3

LEMMA LoadType == ASSUME ConfigTypeOK, Load PROVE ConfigTypeOK'
<1>1. mem' \in Config /\ file' \in Config \cup {Cut}
  BY DefaultType DEF Load, ConfigTypeOK
<1>2. unsaved' \in BOOLEAN
  BY DEF Load
<1> QED
  BY <1>1, <1>2 DEF Load, ConfigTypeOK

(* A step of the Telegram thread that leaves the answer in hand alone.     *)
LEMMA StoringType == ASSUME TypeInv, Storing PROVE TypeInv'
<1>1. ConfigTypeOK' /\ todo # <<>>
  BY StoreType DEF TypeInv, TypeOK, Storing
<1>2. UNCHANGED <<botVars, lifeVars, dialogue, phase, told>>
  BY DEF Storing
<1> QED
  BY <1>1, <1>2
  DEF TypeInv, TypeOK, HandInv, FirstIsKept, botVars, lifeVars, Running, FromAdmin,
      InHand, Pending, Answerable

(* Handlers that end in one step, and the report.                          *)
Ends ==
  /\ Running /\ queue # <<>> /\ phase' = "idle" /\ todo = <<>>
  /\ UNCHANGED <<mem, file, store, todo, unsaved, shown, restarts>>
  /\ saved' \in BOOLEAN
  /\ process' \in {process, "stopping"}

LEMMA EndsType ==
  ASSUME TypeInv, Ends, Calls,
         dialogue' \in [Admins -> PendingAction \cup {None}], FirstIsKept',
         DOMAIN told' \subseteq Objects
  PROVE  TypeInv'
<1>1. ConfigTypeOK'
  BY DEF TypeInv, TypeOK, ConfigTypeOK, Ends
<1>2. /\ queue' \in Seq(Update) /\ handled' \in Seq(Update)
      /\ threw' \in BOOLEAN /\ received' = received
  BY BotType DEF TypeInv, Ends
<1>3. TypeOK'
  BY <1>1, <1>2 DEF TypeInv, TypeOK, Ends
<1> QED
  BY <1>3 DEF TypeInv, HandInv, Ends

(* One administrator's dialogue replaced.                                  *)
LEMMA DialogueSet ==
  ASSUME TypeInv, NEW a \in Admins, NEW d \in PendingAction \cup {None},
         d # None /\ d.key \in SecondKeys => d.param \in Texts,
         dialogue' = [dialogue EXCEPT ![a] = d]
  PROVE  dialogue' \in [Admins -> PendingAction \cup {None}] /\ FirstIsKept'
BY DEF TypeInv, TypeOK, FirstIsKept

LEMMA DialogueKept ==
  ASSUME TypeInv, UNCHANGED dialogue
  PROVE  dialogue' \in [Admins -> PendingAction \cup {None}] /\ FirstIsKept'
BY DEF TypeInv, TypeOK, FirstIsKept

LEMMA ToldType ==
  ASSUME TypeInv, NEW o \in Objects, NEW v
  PROVE  DOMAIN Tell(o, v) \subseteq Objects /\ DOMAIN Forget(o) \subseteq Objects
BY DEF Tell, Forget, TypeInv, TypeOK

LEMMA QuickEnds ==
  ASSUME TypeInv, CanHandle, UNCHANGED <<configVars, restarts, phase, told>>,
         process' \in {process, "stopping"}
  PROVE  Ends /\ DOMAIN told' \subseteq Objects
BY DEF TypeInv, TypeOK, ConfigTypeOK, CanHandle, Ends, configVars

LEMMA HandledType ==
  ASSUME TypeInv,
         \/ Ignore \/ Command \/ InlineQuery \/ Menu \/ Button \/ RestartButton
         \/ CancelDialogue \/ FirstAnswer \/ DeadEnd \/ Refuse
  PROVE  TypeInv' /\ Ends /\ Calls /\ UNCHANGED told
<1>1. CanHandle /\ UNCHANGED <<configVars, restarts, phase, told>>
      /\ process' \in {process, "stopping"}
  BY DEF Ignore, Command, InlineQuery, LeavesNoTrace, Menu, Button, RestartButton,
         CancelDialogue, FirstAnswer, DeadEnd, Refuse, IsStorable, IsValue, IsAnswer, lifeVars
<1>2. Ends /\ DOMAIN told' \subseteq Objects
  BY <1>1, QuickEnds
<1>3. Calls
  BY DEF Ignore, Command, InlineQuery, LeavesNoTrace, Menu, Button, RestartButton,
         CancelDialogue, FirstAnswer, DeadEnd, Refuse, Calls
<1>4. InHand \in Update
  BY <1>1, QueueHead DEF CanHandle, InHand, TypeInv, TypeOK
<1>5. dialogue' \in [Admins -> PendingAction \cup {None}] /\ FirstIsKept'
  <2>1. CASE UNCHANGED dialogue
    BY <2>1, DialogueKept
  <2>2. CASE Button
    <3> DEFINE d == [key |-> InHand.data,
                     param |-> IF Pending = None THEN None ELSE Pending.param]
    <3>1. InHand.from \in Admins /\ InHand.data \in Questions
      BY <1>4, <2>2, UpdateIs DEF Button, FromAdmin
    <3>2. Pending \in PendingAction \cup {None}
      BY <3>1 DEF Pending, TypeInv, TypeOK
    <3>3. (IF Pending = None THEN None ELSE Pending.param) \in Texts \cup {None}
      BY <3>2 DEF PendingAction
    <3>4. d \in PendingAction /\ d.key \notin SecondKeys
      BY <3>1, <3>3 DEF PendingAction, Keys, Questions, SecondKeys
    <3>5. dialogue' = [dialogue EXCEPT ![InHand.from] = d]
      BY <2>2, <3>1 DEF Button, Pending, TypeInv, TypeOK
    <3> QED
      BY <3>1, <3>4, <3>5, DialogueSet
  <2>3. CASE CancelDialogue
    BY <2>3, DialogueSet DEF CancelDialogue, IsAnswer, FromAdmin
  <2>4. CASE FirstAnswer
    <3> DEFINE d == [key |-> SecondQuestion[Pending.key], param |-> InHand.data]
    <3>1. InHand.from \in Admins /\ InHand.data \in Texts
      BY <1>4, <2>4, UpdateIs DEF FirstAnswer, IsValue, IsAnswer, FromAdmin
    <3>2. d.key \in SecondKeys
      BY <2>4, SecondQuestionIs DEF FirstAnswer
    <3>3. d \in PendingAction
      BY <3>1, <3>2 DEF PendingAction, Keys, SecondKeys
    <3>4. dialogue' = [dialogue EXCEPT ![InHand.from] = d]
      BY <2>4, <3>1 DEF FirstAnswer, Pending, TypeInv, TypeOK
    <3> QED
      BY <3>1, <3>3, <3>4, DialogueSet
  <2> QED
    BY <2>1, <2>2, <2>3, <2>4 
    DEF Ignore, Command, InlineQuery, LeavesNoTrace, Menu, RestartButton, DeadEnd, Refuse
<1> QED
  BY <1>1, <1>2, <1>3, <1>5, EndsType

LEMMA AnswerType ==
  ASSUME TypeInv, Answer
  PROVE  /\ Answerable(Pending, InHand.data) /\ Running /\ FromAdmin
         /\ store = "none" /\ TypeInv'
<1>1. CanHandle /\ FromAdmin /\ InHand.kind = "text" /\ Pending # None
      /\ InHand.data # Cancel
  BY DEF Answer, IsStorable, IsValue, IsAnswer
<1>2. InHand.from \in Admins /\ InHand.data \in Texts
  BY <1>1, QueueHead, UpdateIs DEF CanHandle, FromAdmin, InHand, TypeInv, TypeOK
<1>3. Pending \in PendingAction
  BY <1>1, <1>2 DEF Pending, TypeInv, TypeOK
<1>4. Pending.key \in StorableKeys
  BY <1>3 DEF Answer, IsStorable, StorableKeys, PendingAction
<1>5. Answerable(Pending, InHand.data)
  BY <1>1, <1>2, <1>3, <1>4 DEF Answer, Answerable, TypeInv, TypeOK, FirstIsKept, Pending
<1>6. todo' \in Seq(Change) /\ saved' \in BOOLEAN
  <2>1. PICK taken \in BOOLEAN :
          /\ todo' = Operation(Pending, InHand.data, taken).stores
          /\ saved' = Operation(Pending, InHand.data, taken).ok
    BY DEF Answer
  <2>2. Operation(Pending, InHand.data, taken) \in OpResult
    BY <1>5, OperationType DEF TypeInv, TypeOK, ConfigTypeOK
  <2> QED
    BY <2>1, <2>2 DEF OpResult
<1>7. store = "none"
  BY <1>1 DEF CanHandle, TypeInv, TypeOK, ConfigTypeOK
<1>8. DOMAIN told' \subseteq Objects
  BY <1>5, AskedType, ToldType DEF Answer, Stored
<1>9. UNCHANGED <<mem, file, store, unsaved, shown, botVars, lifeVars, dialogue>>
      /\ phase' = "storing"
  BY DEF Answer
<1>10. FirstIsKept'
  BY <1>9 DEF FirstIsKept, TypeInv, TypeOK
<1>11. TypeOK'
  BY <1>1, <1>6, <1>7, <1>8, <1>9, <1>10
  DEF CanHandle, TypeInv, TypeOK, ConfigTypeOK, botVars, lifeVars
<1>12. HandInv'
  BY <1>1, <1>5, <1>9
  DEF HandInv, Answerable, Pending, InHand, FromAdmin, Running,
      CanHandle, botVars, lifeVars
<1> QED
  BY <1>1, <1>5, <1>7, <1>11, <1>12 DEF CanHandle, TypeInv

LEMMA ReportType == ASSUME TypeInv, Report PROVE TypeInv' /\ Ends /\ Calls
<1>1. Running /\ queue # <<>> /\ InHand.from \in Admins /\ Answerable(Pending, InHand.data)
  BY DEF Report, StoringEnded, TypeInv, HandInv, FromAdmin
<1>2. Ends /\ Calls
  BY <1>1 DEF Report, Ends, StoringEnded, configVars, lifeVars, TypeInv, TypeOK,
              ConfigTypeOK
<1>3. dialogue' \in [Admins -> PendingAction \cup {None}] /\ FirstIsKept'
  <2>1. CASE UNCHANGED dialogue
    BY <2>1, DialogueKept
  <2>2. CASE dialogue' = [dialogue EXCEPT ![InHand.from] = None]
    BY <1>1, <2>2, DialogueSet
  <2> QED
    BY <2>1, <2>2 DEF Report
<1>4. DOMAIN told' \subseteq Objects
  <2>1. Stored.object \in Objects
    BY <1>1, AskedType DEF Stored
  <2>2. DOMAIN Tell(Stored.object, Stored.value) \subseteq Objects
    BY <2>1, ToldType
  <2> QED
    BY <2>2 DEF Report, TypeInv, TypeOK
<1> QED
  BY <1>2, <1>3, <1>4, EndsType

LEMMA SilentType == ASSUME TypeInv, Silent PROVE TypeInv' /\ Ends /\ Calls
<1>1. Running /\ queue # <<>> /\ UNCHANGED <<dialogue, told>>
  BY DEF Silent, StoringEnded, TypeInv, HandInv
<1>2. Ends /\ Calls
  BY <1>1 DEF Silent, Ends, Calls, StoringEnded, lifeVars
<1>3. dialogue' \in [Admins -> PendingAction \cup {None}] /\ FirstIsKept'
  BY <1>1, DialogueKept
<1>4. DOMAIN told' \subseteq Objects
  BY <1>1 DEF TypeInv, TypeOK
<1> QED
  BY <1>2, <1>3, <1>4, EndsType

LEMMA DownType == ASSUME TypeInv, Down PROVE TypeInv'
<1>1. ConfigTypeOK'
  BY OtherConfigTypes DEF Down, TypeInv, TypeOK
<1>2. handled \o queue \in Seq(Update) /\ <<>> \in Seq(Update)
  BY DEF TypeInv, TypeOK
<1>3. dialogue' \in [Admins -> PendingAction \cup {None}] /\ FirstIsKept'
  BY DEF Down, NoDialogues, FirstIsKept
<1>4. DOMAIN told' \subseteq Objects
  BY DEF Down, Nothing, TypeInv, TypeOK
<1>5. todo' = <<>> /\ phase' = "idle"
  BY DEF Down, StoreEnds
<1>6. TypeOK'
  BY <1>1, <1>2, <1>3, <1>4, <1>5 DEF Down, TypeInv, TypeOK
<1> QED
  BY <1>3, <1>5, <1>6 DEF TypeInv, HandInv

LEMMA StartType == ASSUME TypeInv, Start PROVE TypeInv'
<1>1. ConfigTypeOK'
  BY LoadType DEF Start, TypeInv, TypeOK
<1>2. restarts' \in 0..MaxRestarts /\ process' \in {"up", "down"}
  BY DEF Start, TypeInv, TypeOK
<1>3. UNCHANGED <<botVars, dialogue, phase, told, todo>>
  BY DEF Start, Load
<1>4. TypeOK'
  BY <1>1, <1>2, <1>3 DEF TypeInv, TypeOK, FirstIsKept, botVars
<1>5. phase # "storing"
  BY DEF Start, TypeInv, HandInv, Running
<1> QED
  BY <1>3, <1>4, <1>5 DEF TypeInv, HandInv

LEMMA BetweenType ==
  ASSUME TypeInv,
         \/ \E u \in Inputs : Receive(u)
         \/ Poll
         \/ Running /\ Resolve /\ UNCHANGED <<botVars, lifeVars, dialogue, phase, told>>
         \/ UNCHANGED vars
  PROVE  TypeInv' /\ UNCHANGED <<mem, file, store, todo, saved, unsaved, lifeVars,
                                 dialogue, phase, told>>
<1>1. CASE \E u \in Inputs : Receive(u)
  <2>1. PICK u \in Inputs : Receive(u)
    BY <1>1
  <2>2. <<u>> \in Seq(Update)
    OBVIOUS
  <2>3. received' \in 0..MaxUpdates
    BY <2>1 DEF Receive, TypeInv, TypeOK
  <2>4. ConfigTypeOK' /\ phase # "storing" /\ todo' = todo
    BY <2>1, OtherConfigTypes DEF Receive, TypeInv, TypeOK, configVars
  <2> QED
    BY <2>1, <2>2, <2>3, <2>4
    DEF Receive, TypeInv, TypeOK, HandInv, FirstIsKept, lifeVars, configVars
<1>2. CASE Poll
  BY <1>2, OtherConfigTypes
  DEF Poll, TypeInv, TypeOK, HandInv, FirstIsKept, lifeVars, configVars
<1>3. CASE Resolve /\ UNCHANGED <<botVars, lifeVars, dialogue, phase, told>>
  BY <1>3, OtherConfigTypes
  DEF Resolve, TypeInv, TypeOK, HandInv, FirstIsKept, lifeVars, botVars, Running,
      FromAdmin, InHand, Pending, Answerable
<1>4. CASE UNCHANGED vars
  BY <1>4, OtherConfigTypes
  DEF vars, TypeInv, TypeOK, HandInv, FirstIsKept, lifeVars, botVars, Running,
      FromAdmin, InHand, Pending, Answerable, configVars
<1> QED
  BY <1>1, <1>2, <1>3, <1>4

LEMMA TypeStep == TypeInv /\ [Next]_vars => TypeInv'
BY HandledType, AnswerType, StoringType, ReportType, SilentType, DownType, StartType,
   BetweenType
DEF Next, Handle, Exit, Crash

LEMMA TypeInit == Init => TypeInv
<1> SUFFICES ASSUME Init PROVE TypeInv
  OBVIOUS
<1>1. ConfigTypeOK
  <2>1. mem \in Config
    BY DEF Init
  <2>2. <<>> \in Seq(Change)
    OBVIOUS
  <2> QED
    BY <2>1, <2>2 DEF Init, ConfigTypeOK
<1>2. queue \in Seq(Update) /\ handled \in Seq(Update) /\ DOMAIN told = {}
  BY DEF Init, Nothing
<1>3. dialogue \in [Admins -> PendingAction \cup {None}]
  BY DEF Init, NoDialogues
<1>4. /\ process = "up" /\ phase = "idle" /\ todo = <<>> /\ threw = FALSE
      /\ received = 0 /\ restarts = 0
  BY DEF Init
<1>5. received \in 0..MaxUpdates /\ restarts \in 0..MaxRestarts
  BY <1>4
<1>6. FirstIsKept
  BY DEF Init, NoDialogues, FirstIsKept
<1>7. TypeOK
  BY <1>1, <1>2, <1>3, <1>4, <1>5, <1>6 DEF TypeOK
<1> QED
  BY <1>7 DEF Init, TypeInv, HandInv

(* Every variable keeps its type: the sections stay sections whatever text *)
(* is converted, codes stay within unsigned int, and only an answer that   *)
(* is still in hand is being stored.                                       *)
THEOREM TypeCorrect == Spec => []TypeOK
<1>1. Spec => []TypeInv
  BY TypeInit, TypeStep, PTL DEF Spec
<1>2. TypeInv => TypeOK
  BY DEF TypeInv
<1> QED
  BY <1>1, <1>2, PTL

-----------------------------------------------------------------------------
(* The file.  A running process has a token, and so has every tg section   *)
(* that is still to be stored.                                             *)

KeepsToken(changes) ==
  \A i \in 1..Len(changes) : changes[i][1] = "tg" => changes[i][2].token = TRUE

TokenInv ==
  /\ Running => mem.tg.token = TRUE
  /\ KeepsToken(todo)

FileInv == TypeInv /\ TokenInv /\ FileIsMemory /\ CanStartAgain

LEMMA TailKeepsToken ==
  ASSUME todo \in Seq(Change), todo # <<>>, KeepsToken(todo)
  PROVE  /\ KeepsToken(Tail(todo)) /\ KeepsToken(<<>>)
         /\ Head(todo)[1] = "tg" => Head(todo)[2].token = TRUE
<1>1. KeepsToken(<<>>)
  BY DEF KeepsToken
<1>2. Len(todo) \in Nat /\ Len(todo) >= 1 /\ Head(todo) = todo[1]
  OBVIOUS
<1>3. Head(todo)[1] = "tg" => Head(todo)[2].token = TRUE
  BY <1>2 DEF KeepsToken
<1>4. KeepsToken(Tail(todo))
  <2> SUFFICES ASSUME NEW i \in 1..Len(Tail(todo)), Tail(todo)[i][1] = "tg"
               PROVE  Tail(todo)[i][2].token = TRUE
    BY DEF KeepsToken
  <2>1. i + 1 \in 1..Len(todo) /\ Tail(todo)[i] = todo[i + 1]
    OBVIOUS
  <2> QED
    BY <2>1 DEF KeepsToken
<1> QED
  BY <1>1, <1>3, <1>4

(* Assigning a section leaves the others.                                  *)
LEMMA AssignIs ==
  ASSUME mem \in Config, todo \in Seq(Change), todo # <<>>, AssignSection
  PROVE  /\ Head(todo)[1] = "tg" =>
              mem'.tg = Head(todo)[2] /\ mem'.mqtt = mem.mqtt /\ mem'.logic = mem.logic
         /\ Head(todo)[1] = "mqtt" =>
              mem'.mqtt = Head(todo)[2] /\ mem'.tg = mem.tg /\ mem'.logic = mem.logic
         /\ Head(todo)[1] = "logic" =>
              mem'.logic = Head(todo)[2] /\ mem'.tg = mem.tg /\ mem'.mqtt = mem.mqtt
         /\ Head(todo)[1] \in {"tg", "mqtt", "logic"}
BY TodoHead, ChangeIs DEF AssignSection, Config

LEMMA StoreKeepsFile ==
  ASSUME FileInv, Store, Running, UNCHANGED process
  PROVE  TokenInv' /\ FileIsMemory' /\ CanStartAgain'
<1>1. mem \in Config /\ todo \in Seq(Change) /\ todo # <<>> /\ mem.tg.token = TRUE
  BY StoreType DEF FileInv, TypeInv, TypeOK, TokenInv, ConfigTypeOK
<1>2. /\ KeepsToken(Tail(todo)) /\ KeepsToken(<<>>) /\ KeepsToken(todo)
      /\ Head(todo)[1] = "tg" => Head(todo)[2].token = TRUE
  BY <1>1, TailKeepsToken DEF FileInv, TokenInv
<1>3. AssignSection => mem'.tg.token = TRUE
  BY <1>1, <1>2, AssignIs
<1>4. CASE Lock
  BY <1>4 DEF Lock, FileInv, TokenInv, FileIsMemory, CanStartAgain, Running, KeepsToken
<1>5. CASE OpenFile
  BY <1>2, <1>3, <1>5
  DEF OpenFile, TokenInv, FileIsMemory, CanStartAgain, Running, KeepsToken
<1>6. CASE OpenFileFails
  BY <1>2, <1>3, <1>6
  DEF OpenFileFails, Return, TokenInv, FileIsMemory, CanStartAgain, Running
<1>7. CASE WriteFile
  <2>1. todo' = Tail(todo) /\ file' = mem /\ mem' = mem
    BY <1>7 DEF WriteFile, Return
  <2>2. mem # Cut
    BY <1>1
  <2> QED
    BY <1>1, <1>2, <2>1, <2>2 DEF TokenInv, FileIsMemory, CanStartAgain, Running
<1>8. CASE WriteFileFails
  <2>1. todo' \in {Tail(todo), <<>>} /\ mem' = mem /\ unsaved' = TRUE
    BY <1>8 DEF WriteFileFails, Return
  <2> QED
    BY <1>1, <1>2, <2>1 DEF TokenInv, FileIsMemory, CanStartAgain, Running
<1> QED
  BY <1>4, <1>5, <1>6, <1>7, <1>8 DEF Store

(* An operation that builds a tg section copies the token.                 *)
LEMMA OperationKeepsToken ==
  ASSUME mem \in Config, mem.tg.token = TRUE, NEW d, NEW text, Answerable(d, text),
         NEW taken \in BOOLEAN
  PROVE  KeepsToken(Operation(d, text, taken).stores)
<1> DEFINE op == Operation(d, text, taken)
<1>1. d.key \in StorableKeys
  BY DEF Answerable
<1>2. \A ok \in BOOLEAN : KeepsToken(Returns(ok).stores)
  BY DEF KeepsToken, Returns
<1>3. \A l : KeepsToken(Stores(<<StoreLogic(l)>>).stores)
  BY DEF KeepsToken, Stores, StoreLogic
<1>4. \A l, s : KeepsToken(Stores(<<StoreLogic(l), StoreTopics(s)>>).stores)
  BY DEF KeepsToken, Stores, StoreLogic, StoreTopics
<1>5. \A s : KeepsToken(Stores(<<StoreTg(s)>>).stores)
  BY DEF KeepsToken, Stores, StoreTg, Config, TgSection
<1>6. CASE d.key = "tg.users.add"
  <2>1. op = AddUser(Number[text])
    BY <1>6 DEF Operation
  <2> QED
    BY <1>2, <1>5, <2>1 DEF AddUser
<1>7. CASE d.key = "tg.users.rem"
  <2>1. op = RemoveUser(Number[text])
    BY <1>7 DEF Operation
  <2> QED
    BY <1>2, <1>5, <2>1 DEF RemoveUser
<1>8. CASE d.key = "machines.add.pseudo"
  <2>1. op = AddMachine(d.param, text, taken)
    BY <1>8 DEF Operation
  <2> QED
    BY <1>2, <1>4, <2>1 DEF AddMachine
<1>9. CASE d.key = "machines.rem"
  <2>1. op = RemoveMachine(text, taken)
    BY <1>9 DEF Operation
  <2> QED
    BY <1>4, <2>1 DEF RemoveMachine
<1>10. CASE d.key = "errors.add.des"
  <2>1. op = AddError(ToUInt(d.param))
    BY <1>10 DEF Operation
  <2> QED
    BY <1>2, <1>3, <2>1 DEF AddError
<1>11. CASE d.key \in {"logic.timeout", "logic.timeout_limit", "errors.rem", "ex.add",
                       "ex.rem"}
  <2>1. op \in {SetTimeout(Number[text]), SetTimeoutLimit(ToUInt(text)),
                RemError(ToUInt(text)), AddEx(ToUInt(text)), RemEx(ToUInt(text))}
    BY <1>11 DEF Operation
  <2>2. \E l : op = Stores(<<StoreLogic(l)>>)
    BY <2>1 DEF SetTimeout, SetTimeoutLimit, RemError, AddEx, RemEx
  <2> QED
    BY <1>3, <2>2
<1> QED
  BY <1>1, <1>6, <1>7, <1>8, <1>9, <1>10, <1>11, StorableKeysAre

LEMMA AnswerKeepsFile ==
  ASSUME FileInv, Answer
  PROVE  TokenInv' /\ FileIsMemory' /\ CanStartAgain'
<1>1. Answerable(Pending, InHand.data) /\ Running
  BY AnswerType DEF FileInv
<1>2. PICK taken \in BOOLEAN : todo' = Operation(Pending, InHand.data, taken).stores
  BY DEF Answer
<1>3. mem \in Config /\ mem.tg.token = TRUE
  BY <1>1 DEF FileInv, TypeInv, TypeOK, ConfigTypeOK, TokenInv
<1>4. KeepsToken(todo')
  BY <1>1, <1>2, <1>3, OperationKeepsToken
<1>5. UNCHANGED <<mem, file, store, unsaved, process>>
  BY DEF Answer, lifeVars
<1> QED
  BY <1>3, <1>4, <1>5 DEF FileInv, TokenInv, FileIsMemory, CanStartAgain, KeepsToken

LEMMA StartKeepsFile ==
  ASSUME FileInv, Start
  PROVE  TokenInv' /\ FileIsMemory' /\ CanStartAgain'
<1>1. /\ process' = IF mem'.tg.token THEN "up" ELSE "down"
      /\ unsaved' = ~mem'.tg.token /\ todo' = todo
  BY DEF Start, Load
<1>2. mem' \in Config
  BY LoadType DEF Start, FileInv, TypeInv, TypeOK, ConfigTypeOK
<1>3. mem'.tg.token => file' = mem'
  BY DEF Start, Load, DefaultConfig
<1>4. KeepsToken(todo')
  BY <1>1 DEF FileInv, TokenInv
<1>5. mem'.tg.token \in BOOLEAN /\ mem' # Cut
  BY <1>2 DEF Config, TgSection
<1> QED
  BY <1>1, <1>3, <1>4, <1>5 DEF TokenInv, FileIsMemory, CanStartAgain, Running

LEMMA DownKeepsFile ==
  ASSUME FileInv, Down
  PROVE  TokenInv' /\ FileIsMemory' /\ CanStartAgain'
<1>1. process' = "down" /\ todo' = <<>> /\ UNCHANGED <<mem, file>>
  BY DEF Down, StoreEnds
<1>2. unsaved' = FALSE => unsaved = FALSE /\ store # "writing"
  BY Zenon DEF Down, StoreEnds, FileInv, TypeInv, TypeOK, ConfigTypeOK
<1>3. unsaved \in BOOLEAN /\ unsaved' \in BOOLEAN
  BY DownType DEF FileInv, TypeInv, TypeOK, ConfigTypeOK
<1>4. FileIsMemory' /\ CanStartAgain'
  BY <1>1, <1>2, <1>3 DEF FileInv, FileIsMemory, CanStartAgain
<1> QED
  BY <1>1, <1>4 DEF TokenInv, Running, KeepsToken

LEMMA FileStep == FileInv /\ [Next]_vars => FileInv'
<1> SUFFICES ASSUME FileInv, [Next]_vars PROVE FileInv'
  OBVIOUS
<1>1. TypeInv'
  BY TypeStep DEF FileInv
<1>2. CASE UNCHANGED <<mem, file, store, todo, unsaved>> /\ (Running' => Running)
  <2>1. TokenInv'
    BY <1>2 DEF FileInv, TokenInv, KeepsToken
  <2>2. FileIsMemory' /\ CanStartAgain'
    BY <1>2 DEF FileInv, FileIsMemory, CanStartAgain
  <2> QED
    BY <1>1, <2>1, <2>2 DEF FileInv
<1>3. CASE Ends
  BY <1>2, <1>3 DEF Ends, Running
<1>4. CASE Storing
  <2>1. Running /\ UNCHANGED process
    <3>1. todo # <<>>
      BY <1>4, StoreType DEF FileInv, TypeInv, TypeOK, Storing
    <3> QED
      BY <1>4, <3>1 DEF Storing, lifeVars, FileInv, TypeInv, TypeOK, HandInv
  <2> QED
    BY <1>1, <1>4, <2>1, StoreKeepsFile DEF Storing, FileInv
<1>5. CASE Answer
  BY <1>1, <1>5, AnswerKeepsFile DEF FileInv
<1>6. CASE Start
  BY <1>1, <1>6, StartKeepsFile DEF FileInv
<1>7. CASE Exit \/ Crash
  BY <1>1, <1>7, DownKeepsFile DEF Exit, Crash, FileInv
<1>8. CASE \/ Ignore \/ Command \/ InlineQuery \/ Menu \/ Button \/ RestartButton
           \/ CancelDialogue \/ FirstAnswer \/ DeadEnd \/ Refuse
  BY <1>3, <1>8, HandledType DEF FileInv
<1>9. CASE Report \/ Silent
  BY <1>3, <1>9, ReportType, SilentType DEF FileInv
<1>10. CASE \/ \E u \in Inputs : Receive(u)
            \/ Poll
            \/ Running /\ Resolve /\ UNCHANGED <<botVars, lifeVars, dialogue, phase, told>>
            \/ UNCHANGED vars
  BY <1>2, <1>10, BetweenType DEF FileInv, lifeVars, Running
<1> QED
  BY <1>4, <1>5, <1>6, <1>7, <1>8, <1>9, <1>10 DEF Next, Handle

LEMMA FileInit == Init => FileInv
<1> SUFFICES ASSUME Init PROVE FileInv
  OBVIOUS
<1>1. mem \in Config /\ mem.tg.token
  BY DEF Init
<1>2. mem # Cut /\ mem.tg.token = TRUE
  BY <1>1 DEF Config, TgSection
<1>3. TypeInv
  BY TypeInit
<1>4. KeepsToken(todo)
  BY DEF Init, KeepsToken
<1> QED
  BY <1>2, <1>3, <1>4 DEF Init, FileInv, TokenInv, FileIsMemory, CanStartAgain

(* Whatever is edited, in whatever dialogues, and wherever the process     *)
(* ends: the file holds the memory unless its last write failed.           *)
THEOREM FileHoldsMemory == Spec => []FileIsMemory
<1>1. Spec => []FileInv
  BY FileInit, FileStep, PTL DEF Spec
<1>2. FileInv => FileIsMemory
  BY DEF FileInv
<1> QED
  BY <1>1, <1>2, PTL

(* No edit takes the token from the file: the program can start again.     *)
THEOREM TokenIsKept == Spec => []CanStartAgain
<1>1. Spec => []FileInv
  BY FileInit, FileStep, PTL DEF Spec
<1>2. FileInv => CanStartAgain
  BY DEF FileInv
<1> QED
  BY <1>1, <1>2, PTL

-----------------------------------------------------------------------------
(* What was told.  Of the configurations an answer goes through, the one   *)
(* in memory and those its remaining changes lead to, each agrees with     *)
(* what was told of other objects, and the last one with what was asked.   *)

One(c, ch) == [c EXCEPT ![ch[1]] = ch[2]]

Agrees(c) == \A o \in DOMAIN told : Plain(o) => told[o] = Says(c, o)

(* What a list of at most two changes makes of a configuration.            *)
Final(c, changes) ==
  IF Len(changes) = 0 THEN c
  ELSE IF Len(changes) = 1 THEN One(c, changes[1])
  ELSE One(One(c, changes[1]), changes[2])

LEMMA SaysSame ==
  ASSUME NEW c, NEW e, NEW o \in Objects,
         o[1] = "timeout" => e.logic.timeout = c.logic.timeout,
         o[1] = "limit" => e.logic.timeout_limit = c.logic.timeout_limit,
         o[1] = "user" => (o[2] \in e.tg.users <=> o[2] \in c.tg.users),
         o[1] = "code" => (o[2] \in e.logic.code <=> o[2] \in c.logic.code),
         o[1] = "muted" =>
           (o[2] \in e.logic.disabled_codes <=> o[2] \in c.logic.disabled_codes),
         o[1] = "machine" =>
           /\ o[2] \in e.mqtt <=> o[2] \in c.mqtt
           /\ e.logic.machines[o[2]] = c.logic.machines[o[2]]
  PROVE  Says(e, o) = Says(c, o)
<1>1. o[1] \in {"timeout", "limit", "user", "code", "muted", "machine"}
  BY DEF Objects
<1>2. CASE o[1] = "timeout"
  BY <1>2 DEF Says
<1>3. CASE o[1] = "limit"
  BY <1>3 DEF Says
<1>4. CASE o[1] = "user"
  BY <1>4 DEF Says
<1>5. CASE o[1] = "code"
  BY <1>5 DEF Says
<1>6. CASE o[1] = "muted"
  BY <1>6 DEF Says
<1>7. CASE o[1] = "machine"
  BY <1>7 DEF Says
<1> QED
  BY <1>1, <1>2, <1>3, <1>4, <1>5, <1>6, <1>7

LEMMA ObjectIs ==
  ASSUME NEW o \in Objects
  PROVE  /\ o[1] \in {"timeout", "limit"} => o = <<o[1], None>>
         /\ o = <<o[1], o[2]>>
         /\ o[1] = "machine" => o[2] \in Texts
BY DEF Objects

(* What storing changes does to an object, and what it leaves alone.       *)
Effect(changes, ok, obj, value) ==
  /\ Len(changes) <= 2 /\ (Len(changes) >= 1 => ok = TRUE)
  /\ \A o \in Objects : Plain(o) /\ o # obj =>
       /\ Len(changes) >= 1 => Says(One(mem, changes[1]), o) = Says(mem, o)
       /\ Len(changes) = 2 => Says(Final(mem, changes), o) = Says(mem, o)
  /\ ok = TRUE /\ Plain(obj) => Says(Final(mem, changes), obj) = value

LEMMA NoEffect ==
  ASSUME NEW ok \in BOOLEAN, NEW obj, NEW value,
         ok = TRUE => Says(mem, obj) = value
  PROVE  Effect(Returns(ok).stores, Returns(ok).ok, obj, value)
BY DEF Effect, Returns, Final

LEMMA OneEffect ==
  ASSUME NEW ch, NEW obj, NEW value,
         \A o \in Objects : Plain(o) /\ o # obj => Says(One(mem, ch), o) = Says(mem, o),
         Says(One(mem, ch), obj) = value
  PROVE  Effect(Stores(<<ch>>).stores, Stores(<<ch>>).ok, obj, value)
<1>1. Stores(<<ch>>).stores = <<ch>> /\ Len(<<ch>>) = 1 /\ <<ch>>[1] = ch
  BY DEF Stores
<1>2. Stores(<<ch>>).ok = TRUE /\ Final(mem, <<ch>>) = One(mem, ch)
  BY <1>1 DEF Final, Stores
<1>3. Effect(<<ch>>, Stores(<<ch>>).ok, obj, value)
  BY <1>1, <1>2 DEF Effect
<1> QED
  BY <1>1, <1>3

LEMMA TwoEffect ==
  ASSUME NEW ch, NEW dh, NEW obj, NEW value,
         \A o \in Objects : Plain(o) /\ o # obj =>
           /\ Says(One(mem, ch), o) = Says(mem, o)
           /\ Says(One(One(mem, ch), dh), o) = Says(mem, o),
         Plain(obj) => Says(One(One(mem, ch), dh), obj) = value
  PROVE  Effect(Stores(<<ch, dh>>).stores, Stores(<<ch, dh>>).ok, obj, value)
<1>1. /\ Stores(<<ch, dh>>).stores = <<ch, dh>> /\ Len(<<ch, dh>>) = 2
      /\ <<ch, dh>>[1] = ch /\ <<ch, dh>>[2] = dh
  BY DEF Stores
<1>2. Stores(<<ch, dh>>).ok = TRUE /\ Final(mem, <<ch, dh>>) = One(One(mem, ch), dh)
  BY <1>1 DEF Final, Stores
<1>3. Effect(<<ch, dh>>, Stores(<<ch, dh>>).ok, obj, value)
  BY <1>1, <1>2 DEF Effect
<1> QED
  BY <1>1, <1>3

(* What one section's change makes of a configuration.                     *)
LEMMA OneIs ==
  ASSUME NEW c \in Config
  PROVE  /\ \A l : LET e == One(c, StoreLogic(l))
                   IN e.logic = l /\ e.tg = c.tg /\ e.mqtt = c.mqtt
         /\ \A s : LET e == One(c, StoreTopics(s))
                   IN e.mqtt = s /\ e.tg = c.tg /\ e.logic = c.logic
         /\ \A u \in SUBSET Users : c = mem => LET e == One(c, StoreTg(u))
              IN e.tg.users = u /\ e.mqtt = c.mqtt /\ e.logic = c.logic
BY DEF One, StoreLogic, StoreTopics, StoreTg, Config, TgSection

(* One field of the logic section changes.                                 *)
LEMMA LogicEffect ==
  ASSUME mem \in Config, NEW l, NEW obj, NEW value,
         \A o \in Objects : o # obj =>
           /\ o[1] = "timeout" => l.timeout = mem.logic.timeout
           /\ o[1] = "limit" => l.timeout_limit = mem.logic.timeout_limit
           /\ o[1] = "code" => (o[2] \in l.code <=> o[2] \in mem.logic.code)
           /\ o[1] = "muted" =>
                (o[2] \in l.disabled_codes <=> o[2] \in mem.logic.disabled_codes),
         l.machines = mem.logic.machines,
         Says(One(mem, StoreLogic(l)), obj) = value
  PROVE  Effect(Stores(<<StoreLogic(l)>>).stores, Stores(<<StoreLogic(l)>>).ok,
                obj, value)
<1> DEFINE e == One(mem, StoreLogic(l))
<1>1. e.logic = l /\ e.tg = mem.tg /\ e.mqtt = mem.mqtt
  BY OneIs
<1>2. ASSUME NEW o \in Objects, o # obj PROVE Says(e, o) = Says(mem, o)
  <2> HIDE DEF e
  <2> QED
    BY <1>1, <1>2, SaysSame
<1> QED
  BY <1>2, OneEffect

LEMMA UsersEffect ==
  ASSUME mem \in Config, NEW s \in SUBSET Users, NEW u \in Users,
         \A x \in Users \ {u} : x \in s <=> x \in mem.tg.users
  PROVE  Effect(Stores(<<StoreTg(s)>>).stores, Stores(<<StoreTg(s)>>).ok,
                <<"user", u>>, u \in s)
<1> DEFINE e == One(mem, StoreTg(s))
<1>1. e.tg.users = s /\ e.logic = mem.logic /\ e.mqtt = mem.mqtt
  BY OneIs
<1>2. ASSUME NEW o \in Objects, o # <<"user", u>> PROVE Says(e, o) = Says(mem, o)
  <2>1. o[1] = "user" => o[2] \in Users \ {u}
    BY <1>2 DEF Objects
  <2> HIDE DEF e
  <2>2. o[1] = "user" => (o[2] \in e.tg.users <=> o[2] \in mem.tg.users)
    BY <1>1, <2>1
  <2> QED
    BY <1>1, <2>2, SaysSame
<1>3. Says(e, <<"user", u>>) = (u \in s)
  <2> HIDE DEF e
  <2> QED
    BY <1>1 DEF Says
<1> QED
  BY <1>2, <1>3, OneEffect

(* A machine's name and its topic, one after the other.                    *)
LEMMA MachineEffect ==
  ASSUME mem \in Config, NEW t \in Texts, NEW name \in Texts \cup {None},
         NEW s \in TopicList, NEW value,
         \A x \in Texts \ {t} : SecondLevel[x] = x => (x \in s <=> x \in mem.mqtt),
         SecondLevel[t] = t =>
           value = IF t \in s THEN <<name>> ELSE IF name = None THEN <<>> ELSE <<None, t>>
  PROVE  LET stores == Stores(<<StoreLogic(WithName(t, name)), StoreTopics(s)>>)
         IN Effect(stores.stores, stores.ok, <<"machine", t>>, value)
<1> DEFINE c == One(mem, StoreLogic(WithName(t, name)))
           e == One(c, StoreTopics(s))
<1>1. c.logic = WithName(t, name) /\ c.tg = mem.tg /\ c.mqtt = mem.mqtt
  BY OneIs
<1>2. c \in Config
  <2>1. WithName(t, name) \in LogicSection
    BY DEF WithName, LogicSection, Config
  <2>2. StoreLogic(WithName(t, name)) \in Change
    BY <2>1, SectionTypes
  <2> QED
    BY <2>2, AssignType DEF One
<1>3. e.logic = WithName(t, name) /\ e.tg = mem.tg /\ e.mqtt = s
  <2> HIDE DEF c
  <2> QED
    BY <1>1, <1>2, OneIs
<1>4. /\ WithName(t, name).timeout = mem.logic.timeout
      /\ WithName(t, name).timeout_limit = mem.logic.timeout_limit
      /\ WithName(t, name).code = mem.logic.code
      /\ WithName(t, name).disabled_codes = mem.logic.disabled_codes
      /\ WithName(t, name).machines[t] = name
      /\ \A x \in Texts \ {t} : WithName(t, name).machines[x] = mem.logic.machines[x]
  BY DEF WithName, Config, LogicSection
<1> HIDE DEF c, e
<1>5. ASSUME NEW o \in Objects, Plain(o), o # <<"machine", t>>
      PROVE  Says(c, o) = Says(mem, o) /\ Says(e, o) = Says(mem, o)
  <2>1. o[1] = "machine" => o[2] \in Texts \ {t} /\ SecondLevel[o[2]] = o[2]
    BY <1>5, ObjectIs DEF Plain
  <2>2. Says(c, o) = Says(mem, o)
    BY <1>1, <1>4, <2>1, SaysSame
  <2>3. Says(e, o) = Says(mem, o)
    BY <1>3, <1>4, <2>1, SaysSame
  <2> QED
    BY <2>2, <2>3
<1>6. Plain(<<"machine", t>>) => Says(e, <<"machine", t>>) = value
  BY <1>3, <1>4 DEF Says, Plain
<1> QED
  BY <1>5, <1>6, TwoEffect DEF c, e

(* Every operation changes the object of the answer only, and makes of it  *)
(* what was asked, unless it returns false.                                *)
LEMMA OperationEffect ==
  ASSUME mem \in Config, NEW d, NEW text, Answerable(d, text), NEW taken \in BOOLEAN
  PROVE  LET op == Operation(d, text, taken)
             a  == Asked(d, text)
         IN Effect(op.stores, op.ok, a.object, a.value)
<1> DEFINE op == Operation(d, text, taken)
           a == Asked(d, text)
           Logic(l) == One(mem, StoreLogic(l))
<1>1. text \in Texts /\ d.key \in StorableKeys
  BY DEF Answerable
<1>2. mem.logic \in LogicSection /\ mem.mqtt \in TopicList /\ mem.tg.users \in SUBSET Users
  BY DEF Config, TgSection
<1>3. \A l : Logic(l).logic = l
  BY OneIs
<1> HIDE DEF Logic
<1>4. CASE d.key = "logic.timeout"
  <2> DEFINE l == [mem.logic EXCEPT !.timeout = Number[text]]
  <2>1. op = Stores(<<StoreLogic(l)>>)
    BY <1>4 DEF Operation, SetTimeout
  <2>2. a.object = <<"timeout", None>> /\ a.value = Number[text]
    BY <1>4 DEF Asked
  <2>3. /\ l.timeout = Number[text] /\ l.timeout_limit = mem.logic.timeout_limit
        /\ l.code = mem.logic.code /\ l.disabled_codes = mem.logic.disabled_codes
        /\ l.machines = mem.logic.machines
    BY <1>2 DEF LogicSection
  <2> HIDE DEF l
  <2>4. Says(Logic(l), <<"timeout", None>>) = Number[text]
    BY <1>3, <2>3 DEF Says
  <2>5. \A o \in Objects : o # <<"timeout", None>> => o[1] # "timeout"
    BY DEF Objects
  <2>6. Effect(Stores(<<StoreLogic(l)>>).stores, Stores(<<StoreLogic(l)>>).ok,
               <<"timeout", None>>, Number[text])
    BY <2>3, <2>4, <2>5, LogicEffect DEF Logic
  <2> QED
    BY <2>1, <2>2, <2>6
<1>5. CASE d.key = "logic.timeout_limit"
  <2> DEFINE l == [mem.logic EXCEPT !.timeout_limit = ToUInt(text)]
  <2>1. op = Stores(<<StoreLogic(l)>>)
    BY <1>5 DEF Operation, SetTimeoutLimit
  <2>2. a.object = <<"limit", None>> /\ a.value = ToUInt(text)
    BY <1>5 DEF Asked
  <2>3. /\ l.timeout = mem.logic.timeout /\ l.timeout_limit = ToUInt(text)
        /\ l.code = mem.logic.code /\ l.disabled_codes = mem.logic.disabled_codes
        /\ l.machines = mem.logic.machines
    BY <1>2 DEF LogicSection
  <2> HIDE DEF l
  <2>4. Says(Logic(l), <<"limit", None>>) = ToUInt(text)
    BY <1>3, <2>3 DEF Says
  <2>5. \A o \in Objects : o # <<"limit", None>> => o[1] # "limit"
    BY DEF Objects
  <2>6. Effect(Stores(<<StoreLogic(l)>>).stores, Stores(<<StoreLogic(l)>>).ok,
               <<"limit", None>>, ToUInt(text))
    BY <2>3, <2>4, <2>5, LogicEffect DEF Logic
  <2> QED
    BY <2>1, <2>2, <2>6
<1>6. CASE d.key \in {"tg.users.add", "tg.users.rem"}
  <2> DEFINE u == Number[text]
  <2>1. u \in Users
    BY <1>1, <1>6, NumberIs DEF Answerable, Accepts, IsULong
  <2>2. a.object = <<"user", u>> /\ a.value = (d.key = "tg.users.add")
    BY <1>6 DEF Asked
  <2>3. Says(mem, <<"user", u>>) = (u \in mem.tg.users)
    BY DEF Says
  <2> HIDE DEF u
  <2>4. CASE d.key = "tg.users.add"
    <3>1. op = AddUser(u) /\ a.value = TRUE
      BY <2>4 DEF Operation, u, Asked
    <3>2. CASE u \in mem.tg.users
      <4>1. op = Returns(TRUE)
        BY <3>1, <3>2 DEF AddUser
      <4>2. Says(mem, <<"user", u>>) = TRUE
        BY <2>3, <3>2
      <4> QED
        BY <2>2, <3>1, <4>1, <4>2, NoEffect
    <3>3. CASE u \notin mem.tg.users
      <4> DEFINE s == mem.tg.users \cup {u}
      <4>1. op = Stores(<<StoreTg(s)>>)
        BY <3>1, <3>3 DEF AddUser
      <4>2. s \in SUBSET Users /\ (u \in s) = TRUE
            /\ \A x \in Users \ {u} : x \in s <=> x \in mem.tg.users
        BY <1>2, <2>1
      <4> HIDE DEF s
      <4>3. Effect(Stores(<<StoreTg(s)>>).stores, Stores(<<StoreTg(s)>>).ok,
                   <<"user", u>>, u \in s)
        BY <2>1, <4>2, UsersEffect
      <4> QED
        BY <2>2, <3>1, <4>1, <4>2, <4>3
    <3> QED
      BY <3>2, <3>3
  <2>5. CASE d.key = "tg.users.rem"
    <3>1. op = RemoveUser(u) /\ a.value = FALSE
      BY <2>5 DEF Operation, u, Asked
    <3>2. CASE mem.tg.users = {}
      <4>1. op = Returns(TRUE)
        BY <3>1, <3>2 DEF RemoveUser
      <4>2. (u \in mem.tg.users) = FALSE
        BY <3>2
      <4>3. Says(mem, <<"user", u>>) = FALSE
        BY <2>3, <4>2
      <4> QED
        BY <2>2, <3>1, <4>1, <4>3, NoEffect
    <3>3. CASE mem.tg.users # {}
      <4> DEFINE s == mem.tg.users \ {u}
      <4>1. op = Stores(<<StoreTg(s)>>)
        BY <3>1, <3>3 DEF RemoveUser
      <4>2. s \in SUBSET Users /\ (u \in s) = FALSE
            /\ \A x \in Users \ {u} : x \in s <=> x \in mem.tg.users
        BY <1>2, <2>1
      <4> HIDE DEF s
      <4>3. Effect(Stores(<<StoreTg(s)>>).stores, Stores(<<StoreTg(s)>>).ok,
                   <<"user", u>>, u \in s)
        BY <2>1, <4>2, UsersEffect
      <4> QED
        BY <2>2, <3>1, <4>1, <4>2, <4>3
    <3> QED
      BY <3>2, <3>3
  <2> QED
    BY <1>6, <2>4, <2>5
<1>7. CASE d.key = "machines.add.pseudo"
  <2>1. op = AddMachine(d.param, text, taken) /\ d.param \in Texts
    BY <1>7 DEF Operation, Answerable, SecondKeys
  <2>2. a.object = <<"machine", d.param>> /\ a.value = <<text>>
    BY <1>7 DEF Asked
  <2>3. CASE op = Returns(FALSE)
    BY <2>3, NoEffect
  <2>4. CASE op # Returns(FALSE)
    <3> DEFINE s == mem.mqtt \cup {d.param}
    <3>1. op = Stores(<<StoreLogic(WithName(d.param, text)), StoreTopics(s)>>)
      BY <2>1, <2>4 DEF AddMachine
    <3>2. s \in TopicList /\ d.param \in s
          /\ \A x \in Texts \ {d.param} : x \in s <=> x \in mem.mqtt
      BY <1>2, <2>1 DEF TopicList
    <3> HIDE DEF s
    <3>3. LET stores == Stores(<<StoreLogic(WithName(d.param, text)), StoreTopics(s)>>)
          IN Effect(stores.stores, stores.ok, <<"machine", d.param>>, <<text>>)
      BY <1>1, <2>1, <3>2, MachineEffect
    <3> QED
      BY <2>2, <3>1, <3>3
  <2> QED
    BY <2>3, <2>4
<1>8. CASE d.key = "machines.rem"
  <2> DEFINE s == mem.mqtt \ TopicsOf(text, taken)
  <2>1. op = Stores(<<StoreLogic(WithName(text, None)), StoreTopics(s)>>)
    BY <1>8 DEF Operation, RemoveMachine
  <2>2. a.object = <<"machine", text>> /\ a.value = <<>>
    BY <1>8 DEF Asked
  <2>3. s \in TopicList
    BY <1>2 DEF TopicList
  <2>4. \A x \in Texts \ {text} : SecondLevel[x] = x => (x \in s <=> x \in mem.mqtt)
    BY DEF TopicsOf
  <2>5. SecondLevel[text] = text => text \notin s
    BY <1>1 DEF TopicsOf
  <2> HIDE DEF s
  <2>6. LET stores == Stores(<<StoreLogic(WithName(text, None)), StoreTopics(s)>>)
        IN Effect(stores.stores, stores.ok, <<"machine", text>>, <<>>)
    BY <1>1, <2>3, <2>4, <2>5, MachineEffect
  <2> QED
    BY <2>1, <2>2, <2>6
<1>9. CASE d.key \in {"errors.add.des", "errors.rem"}
  <2> DEFINE t == IF d.key = "errors.rem" THEN text ELSE d.param
             n == ToUInt(t)
             l == IF d.key = "errors.rem"
                  THEN [mem.logic EXCEPT !.code = @ \ {n}]
                  ELSE [mem.logic EXCEPT !.code = @ \cup {n}]
  <2>1. n \in UInt
    BY <1>1, <1>9, NumberIs DEF Answerable, Accepts, IsULong, SecondKeys
  <2>2. op \in {Returns(FALSE), Stores(<<StoreLogic(l)>>)}
    BY <1>9 DEF Operation, AddError, RemError
  <2>3. a.object = <<"code", n>> /\ a.value = (d.key = "errors.add.des")
    BY <1>9 DEF Asked
  <2>4. /\ l.timeout = mem.logic.timeout /\ l.timeout_limit = mem.logic.timeout_limit
        /\ (n \in l.code) = (d.key = "errors.add.des")
        /\ \A x : x # n => (x \in l.code <=> x \in mem.logic.code)
        /\ l.disabled_codes = mem.logic.disabled_codes
        /\ l.machines = mem.logic.machines
    BY <1>2, <1>9 DEF LogicSection
  <2> HIDE DEF n, l, t
  <2>5. Says(Logic(l), <<"code", n>>) = (d.key = "errors.add.des")
    BY <1>3, <2>4 DEF Says
  <2>6. \A o \in Objects : o # <<"code", n>> /\ o[1] = "code" => o[2] # n
    BY ObjectIs
  <2>7. Effect(Stores(<<StoreLogic(l)>>).stores, Stores(<<StoreLogic(l)>>).ok,
               <<"code", n>>, d.key = "errors.add.des")
    BY <2>4, <2>5, <2>6, LogicEffect DEF Logic
  <2> QED
    BY <2>2, <2>3, <2>7, NoEffect
<1>10. CASE d.key \in {"ex.add", "ex.rem"}
  <2> DEFINE n == ToUInt(text)
             l == IF d.key = "ex.rem"
                  THEN [mem.logic EXCEPT !.disabled_codes = @ \ {n}]
                  ELSE [mem.logic EXCEPT !.disabled_codes = @ \cup {n}]
  <2>1. n \in UInt
    BY <1>1, <1>10, NumberIs DEF Answerable, Accepts, IsULong
  <2>2. op = Stores(<<StoreLogic(l)>>)
    BY <1>10 DEF Operation, AddEx, RemEx
  <2>3. a.object = <<"muted", n>> /\ a.value = (d.key = "ex.add")
    BY <1>10 DEF Asked
  <2>4. /\ l.timeout = mem.logic.timeout /\ l.timeout_limit = mem.logic.timeout_limit
        /\ (n \in l.disabled_codes) = (d.key = "ex.add")
        /\ \A x : x # n => (x \in l.disabled_codes <=> x \in mem.logic.disabled_codes)
        /\ l.code = mem.logic.code
        /\ l.machines = mem.logic.machines
    BY <1>2, <1>10 DEF LogicSection
  <2> HIDE DEF n, l
  <2>5. Says(Logic(l), <<"muted", n>>) = (d.key = "ex.add")
    BY <1>3, <2>4 DEF Says
  <2>6. \A o \in Objects : o # <<"muted", n>> /\ o[1] = "muted" => o[2] # n
    BY ObjectIs
  <2>7. Effect(Stores(<<StoreLogic(l)>>).stores, Stores(<<StoreLogic(l)>>).ok,
               <<"muted", n>>, d.key = "ex.add")
    BY <2>4, <2>5, <2>6, LogicEffect DEF Logic
  <2> QED
    BY <2>2, <2>3, <2>7
<1> QED
  BY <1>1, <1>4, <1>5, <1>6, <1>7, <1>8, <1>9, <1>10, StorableKeysAre

(* While an answer is stored, and once it is.                              *)
StoringInv ==
  /\ Len(todo) <= 2
  /\ Len(todo) >= 1 => saved = TRUE /\ Agrees(One(mem, todo[1]))
  /\ Len(todo) = 2 => Agrees(Final(mem, todo))
  /\ store = "writing" => mem = One(mem, todo[1])
  /\ saved = TRUE /\ Plain(Stored.object) =>
       Says(Final(mem, todo), Stored.object) = Stored.value

ToldInv ==
  /\ Agrees(mem)
  /\ phase = "storing" => StoringInv
  /\ ~Running => unsaved = FALSE \/ DOMAIN told = {}

Inv == FileInv /\ ToldInv

LEMMA OneTwice ==
  ASSUME NEW c \in Config, NEW ch \in Change
  PROVE  One(c, ch) \in Config /\ One(One(c, ch), ch) = One(c, ch)
BY AssignType, ChangeIs DEF One, Config

LEMMA ShortTail ==
  ASSUME todo \in Seq(Change), todo # <<>>, Len(todo) <= 2
  PROVE  /\ todo[1] \in Change /\ Head(todo) = todo[1]
         /\ Len(todo) = 1 => Tail(todo) = <<>>
         /\ Len(todo) = 2 => Len(Tail(todo)) = 1 /\ Tail(todo)[1] = todo[2]
         /\ Len(todo) \in {1, 2}
<1>1. Len(todo) \in Nat /\ Len(todo) >= 1
  OBVIOUS
<1>2. Len(todo) \in {1, 2}
  <2>1. \A n \in Nat : n >= 1 /\ n <= 2 => n \in {1, 2}
    OBVIOUS
  <2> QED
    BY <1>1, <2>1
<1>3. todo[1] \in Change /\ Head(todo) = todo[1]
  BY <1>1
<1>4. Tail(todo) \in Seq(Change) /\ Len(Tail(todo)) = Len(todo) - 1
  BY <1>1
<1>5. Len(todo) = 1 => Tail(todo) = <<>>
  <2>1. \A s \in Seq(Change) : Len(s) = 0 => s = <<>>
    OBVIOUS
  <2>2. Len(todo) = 1 => Len(Tail(todo)) = 0
    BY <1>1, <1>4
  <2>3. Tail(todo) \in Seq(Change)
    BY <1>4
  <2> QED
    BY <2>1, <2>2, <2>3, Zenon
<1>6. ASSUME Len(todo) = 2 PROVE Len(Tail(todo)) = 1 /\ Tail(todo)[1] = todo[2]
  <2>1. Len(Tail(todo)) = 1 /\ 1 \in 1..Len(Tail(todo))
    BY <1>4, <1>6
  <2> QED
    BY <1>6, <2>1
<1> QED
  BY <1>2, <1>3, <1>5, <1>6

(* An update that returns leaves the changes after it.                     *)
LEMMA ReturnTold ==
  ASSUME Inv, phase = "storing", todo # <<>>, NEW ok \in BOOLEAN, Return(ok),
         mem' = One(mem, todo[1]),
         UNCHANGED <<told, dialogue, queue, phase>>
  PROVE  Agrees(mem)' /\ StoringInv'
<1>1. todo \in Seq(Change) /\ mem \in Config /\ StoringInv
  BY DEF Inv, FileInv, TypeInv, TypeOK, ConfigTypeOK, ToldInv
<1>2. Len(todo) <= 2
  BY <1>1 DEF StoringInv
<1>3. /\ todo[1] \in Change /\ Len(todo) \in {1, 2}
      /\ Len(todo) = 1 => Tail(todo) = <<>>
      /\ Len(todo) = 2 => Len(Tail(todo)) = 1 /\ Tail(todo)[1] = todo[2]
  BY <1>1, <1>2, ShortTail
<1>4. Agrees(mem)'
  BY <1>1, <1>3 DEF StoringInv, Agrees
<1>5. Stored' = Stored
  BY DEF Stored, Pending, InHand
<1>6. store' = "none" /\ saved' = ok /\ todo' = IF ok THEN Tail(todo) ELSE <<>>
  BY DEF Return
<1>7. saved = TRUE
  BY <1>1, <1>3 DEF StoringInv
<1>8. CASE todo' = <<>> /\ (ok = TRUE => Len(todo) = 1)
  <2>1. Len(todo') = 0 /\ Final(mem', todo') = mem'
    BY <1>8 DEF Final
  <2>2. ok = TRUE => Final(mem, todo) = mem'
    BY <1>8 DEF Final
  <2> QED
    BY <1>1, <1>5, <1>4, <1>6, <1>7, <2>1, <2>2 DEF StoringInv
<1>9. CASE ok = TRUE /\ Len(todo) = 2
  <2>1. Final(mem, todo) = One(mem', todo[2])
    BY <1>9 DEF Final
  <2>2. Len(todo') = 1 /\ todo'[1] = todo[2]
    BY <1>3, <1>6, <1>9
  <2>3. Final(mem', todo') = One(mem', todo[2])
    BY <2>2 DEF Final
  <2>4. Agrees(One(mem, todo[1]))'
    <3>1. Agrees(One(mem', todo[2]))
      BY <1>1, <1>9, <2>1 DEF StoringInv
    <3> QED
      BY <3>1, <2>2 DEF Agrees
  <2>5. (saved = TRUE /\ Plain(Stored.object) =>
           Says(Final(mem, todo), Stored.object) = Stored.value)'
    BY <1>1, <1>5, <1>7, <2>1, <2>3 DEF StoringInv, Plain
  <2>6. Len(todo') <= 2 /\ Len(todo') # 2
    BY <2>2
  <2>7. saved' = TRUE /\ store' # "writing"
    BY <1>6, <1>9
  <2>8. StoringInv'
    BY <2>4, <2>5, <2>6, <2>7 DEF StoringInv
  <2> QED
    BY <1>4, <2>8
<1> QED
  BY <1>3, <1>6, <1>8, <1>9

LEMMA StoreTold ==
  ASSUME Inv, phase = "storing", Storing
  PROVE  ToldInv'
<1>1. todo # <<>> /\ todo \in Seq(Change) /\ mem \in Config /\ StoringInv /\ Running
  BY StoreType
  DEF Storing, Inv, FileInv, TypeInv, TypeOK, ConfigTypeOK, HandInv, ToldInv
<1>2. UNCHANGED <<told, dialogue, queue, phase, process>>
  BY DEF Storing, botVars, lifeVars
<1>3. Len(todo) <= 2
  BY <1>1 DEF StoringInv
<1>4. todo[1] \in Change /\ Head(todo) = todo[1] /\ Len(todo) \in {1, 2}
  BY <1>1, <1>3, ShortTail
<1>5. Stored' = Stored
  BY <1>2 DEF Stored, Pending, InHand
<1> SUFFICES Agrees(mem)' /\ StoringInv'
  BY <1>1, <1>2 DEF ToldInv, Running
<1>6. CASE Lock
  <2>1. UNCHANGED <<mem, todo, saved>> /\ store' = "assigning"
    BY <1>6 DEF Lock
  <2> QED
    BY <1>1, <1>2, <1>5, <2>1 DEF Inv, ToldInv, StoringInv, Agrees, Final
<1>7. CASE OpenFile
  <2>1. mem' = One(mem, todo[1]) /\ UNCHANGED <<todo, saved>>
    BY <1>4, <1>7 DEF OpenFile, AssignSection, One
  <2>2. One(mem', todo[1]) = mem'
    BY <1>1, <1>4, <2>1, OneTwice
  <2>3. Final(mem', todo') = Final(mem, todo)
    BY <1>4, <2>1, <2>2 DEF Final
  <2>4. Agrees(mem)' /\ (Agrees(One(mem, todo[1])))' /\ saved' = TRUE
    BY <1>1, <1>2, <1>4, <2>1, <2>2 DEF StoringInv, Agrees
  <2>5. (Len(todo) = 2 => Agrees(Final(mem, todo)))'
    BY <1>1, <1>2, <2>1, <2>3 DEF StoringInv, Agrees
  <2>6. (saved = TRUE /\ Plain(Stored.object) =>
           Says(Final(mem, todo), Stored.object) = Stored.value)'
    BY <1>1, <1>5, <2>1, <2>3 DEF StoringInv, Plain
  <2>7. (Len(todo) <= 2)' /\ mem' = One(mem', todo'[1])
    BY <1>3, <2>1, <2>2
  <2> QED
    BY <2>4, <2>5, <2>6, <2>7 DEF StoringInv
<1>8. CASE OpenFileFails
  <2>1. mem' = One(mem, todo[1]) /\ Return(FALSE)
    BY <1>4, <1>8 DEF OpenFileFails, AssignSection, One
  <2> QED
    BY <1>1, <1>2, <2>1, ReturnTold
<1>9. CASE WriteFile \/ WriteFileFails
  <2>1. mem' = mem /\ store = "writing" /\ \E ok \in BOOLEAN : Return(ok)
    BY <1>9 DEF WriteFile, WriteFileFails
  <2>2. mem' = One(mem, todo[1])
    BY <1>1, <2>1 DEF StoringInv
  <2> QED
    BY <1>1, <1>2, <2>1, <2>2, ReturnTold
<1> QED
  BY <1>6, <1>7, <1>8, <1>9 DEF Storing, Store

LEMMA AnswerTold == ASSUME Inv, Answer PROVE ToldInv'
<1>1. /\ Answerable(Pending, InHand.data) /\ Running /\ store = "none"
      /\ mem \in Config /\ DOMAIN told \subseteq Objects /\ Agrees(mem)
  BY AnswerType DEF Inv, FileInv, TypeInv, TypeOK, ConfigTypeOK, ToldInv
<1>2. /\ told' = Forget(Stored.object) /\ phase' = "storing"
      /\ UNCHANGED <<mem, store, queue, dialogue, process>>
  BY DEF Answer, botVars, lifeVars
<1>3. PICK taken \in BOOLEAN :
        /\ todo' = Operation(Pending, InHand.data, taken).stores
        /\ saved' = Operation(Pending, InHand.data, taken).ok
  BY DEF Answer
<1>4. Effect(todo', saved', Stored.object, Stored.value)
  BY <1>1, <1>3, OperationEffect DEF Stored
<1>5. Stored' = Stored
  BY <1>2 DEF Stored, Pending, InHand
<1>6. \A o \in DOMAIN told' :
        /\ o \in DOMAIN told /\ o # Stored.object /\ o \in Objects
        /\ told'[o] = told[o]
  BY <1>1, <1>2 DEF Forget
<1>7. Agrees(mem)'
  BY <1>1, <1>2, <1>6 DEF Agrees
<1>8. (Len(todo) >= 1 => saved = TRUE /\ Agrees(One(mem, todo[1])))'
  <2> SUFFICES ASSUME Len(todo') >= 1
               PROVE  saved' = TRUE /\ (Agrees(One(mem, todo[1])))'
    OBVIOUS
  <2>1. saved' = TRUE
    BY <1>4 DEF Effect
  <2>2. \A o \in Objects : Plain(o) /\ o # Stored.object =>
          Says(One(mem, todo'[1]), o) = Says(mem, o)
    BY <1>4 DEF Effect
  <2>3. \A o \in DOMAIN told' : Plain(o) => told'[o] = Says(One(mem, todo'[1]), o)
    BY <1>1, <1>6, <2>2 DEF Agrees
  <2> QED
    BY <1>2, <2>1, <2>3 DEF Agrees
<1>9. (Len(todo) = 2 => Agrees(Final(mem, todo)))'
  <2> SUFFICES ASSUME Len(todo') = 2 PROVE (Agrees(Final(mem, todo)))'
    OBVIOUS
  <2>1. \A o \in Objects : Plain(o) /\ o # Stored.object =>
          Says(Final(mem, todo'), o) = Says(mem, o)
    BY <1>4 DEF Effect
  <2>2. \A o \in DOMAIN told' : Plain(o) => told'[o] = Says(Final(mem, todo'), o)
    BY <1>1, <1>6, <2>1 DEF Agrees
  <2> QED
    BY <1>2, <2>2 DEF Agrees
<1>10. (saved = TRUE /\ Plain(Stored.object) =>
          Says(Final(mem, todo), Stored.object) = Stored.value)'
  BY <1>2, <1>4, <1>5 DEF Effect, Plain
<1>11. (Len(todo) <= 2)' /\ store' # "writing"
  BY <1>1, <1>2, <1>4 DEF Effect
<1>12. StoringInv'
  BY <1>8, <1>9, <1>10, <1>11 DEF StoringInv
<1> QED
  BY <1>1, <1>2, <1>7, <1>12 DEF ToldInv, Running

LEMMA ReportTold == ASSUME Inv, Report PROVE ToldInv'
<1>1. /\ phase = "storing" /\ todo = <<>> /\ saved = TRUE /\ Running
      /\ Agrees(mem) /\ StoringInv
  BY DEF Report, StoringEnded, Inv, FileInv, TypeInv, TypeOK, ConfigTypeOK, HandInv,
         ToldInv
<1>2. Final(mem, todo) = mem
  BY <1>1 DEF Final
<1>3. Plain(Stored.object) => Says(mem, Stored.object) = Stored.value
  BY <1>1, <1>2 DEF StoringInv
<1>4. told' \in {told, Tell(Stored.object, Stored.value)} /\ phase' = "idle"
      /\ UNCHANGED <<mem, process>>
  BY DEF Report, configVars, lifeVars
<1>5. Agrees(mem)'
  <2>1. CASE told' = told
    BY <1>1, <1>4, <2>1 DEF Agrees
  <2>2. CASE told' = Tell(Stored.object, Stored.value)
    BY <1>1, <1>3, <1>4, <2>2 DEF Agrees, Tell
  <2> QED
    BY <1>4, <2>1, <2>2
<1> QED
  BY <1>1, <1>4, <1>5 DEF ToldInv, Running

LEMMA DownTold == ASSUME Inv, Down PROVE ToldInv'
<1>1. /\ mem' = mem /\ phase' = "idle" /\ process' = "down"
      /\ told' = IF unsaved' THEN Nothing ELSE told
  BY DEF Down, StoreEnds
<1>2. unsaved' \in BOOLEAN /\ Agrees(mem)
  BY DownType DEF Inv, FileInv, TypeInv, TypeOK, ConfigTypeOK, ToldInv
<1>3. CASE unsaved' = TRUE
  <2>1. DOMAIN told' = {}
    BY <1>1, <1>3 DEF Nothing
  <2> QED
    BY <1>1, <2>1 DEF ToldInv, Agrees
<1>4. CASE unsaved' = FALSE
  BY <1>1, <1>2, <1>4 DEF ToldInv, Agrees
<1> QED
  BY <1>2, <1>3, <1>4

(* What was saved is loaded again.                                         *)
LEMMA StartTold == ASSUME Inv, Start PROVE ToldInv'
<1>1. /\ process = "down" /\ phase' = phase /\ told' = told /\ Load
      /\ process' = IF mem'.tg.token THEN "up" ELSE "down"
  BY DEF Start
<1>2. phase # "storing" /\ store = "none"
  BY <1>1 DEF Inv, FileInv, TypeInv, TypeOK, ConfigTypeOK, HandInv, Running
<1>3. CASE DOMAIN told = {}
  BY <1>1, <1>2, <1>3 DEF ToldInv, Agrees
<1>4. CASE unsaved = FALSE
  <2>1. file = mem /\ file # Cut
    BY <1>2, <1>4 DEF Inv, FileInv, FileIsMemory, CanStartAgain
  <2>2. mem' = mem
    BY <1>1, <2>1 DEF Load
  <2>3. mem.tg.token
    BY <1>2, <1>4, <2>1 DEF Inv, FileInv, CanStartAgain
  <2>4. Running'
    BY <1>1, <2>2, <2>3 DEF Running
  <2> QED
    BY <1>1, <1>2, <2>2, <2>4 DEF Inv, ToldInv, Agrees
<1> QED
  BY <1>1, <1>3, <1>4 DEF Inv, ToldInv, Running

LEMMA InvStep == Inv /\ [Next]_vars => Inv'
<1> SUFFICES ASSUME Inv, [Next]_vars PROVE ToldInv'
  BY FileStep DEF Inv
<1>1. CASE UNCHANGED <<mem, told>> /\ phase' = "idle" /\ Running'
  BY <1>1 DEF Inv, ToldInv, Agrees
<1>2. CASE Ends /\ UNCHANGED told
  BY <1>1, <1>2 DEF Ends, Running
<1>3. CASE Storing
  <2>1. phase = "storing"
    <3>1. todo # <<>>
      BY <1>3, StoreType DEF Inv, FileInv, TypeInv, TypeOK, Storing
    <3> QED
      BY <3>1 DEF Inv, FileInv, TypeInv, TypeOK
  <2> QED
    BY <1>3, <2>1, StoreTold
<1>4. CASE \/ Ignore \/ Command \/ InlineQuery \/ Menu \/ Button \/ RestartButton
           \/ CancelDialogue \/ FirstAnswer \/ DeadEnd \/ Refuse
  BY <1>2, <1>4, HandledType DEF Inv, FileInv
<1>5. CASE Silent
  BY <1>2, <1>5, SilentType DEF Silent, Inv, FileInv
<1>6. CASE \/ \E u \in Inputs : Receive(u)
           \/ Poll
           \/ Running /\ Resolve /\ UNCHANGED <<botVars, lifeVars, dialogue, phase, told>>
           \/ UNCHANGED vars
  <2>1. UNCHANGED <<mem, file, store, todo, saved, unsaved, process, dialogue, phase, told>>
    BY <1>6, BetweenType DEF Inv, FileInv, lifeVars
  <2>2. phase = "storing" => UNCHANGED queue
    BY <1>6 DEF Receive, Poll, botVars, vars
  <2>3. ASSUME phase = "storing" PROVE StoringInv'
    <3>1. Stored' = Stored
      BY <2>1, <2>2, <2>3 DEF Stored, Pending, InHand
    <3> QED
      BY <2>1, <2>3, <3>1 DEF Inv, ToldInv, StoringInv, Agrees, Final
  <2> QED
    BY <2>1, <2>3 DEF Inv, ToldInv, Agrees, Running
<1> QED
  BY <1>3, <1>4, <1>5, <1>6, AnswerTold, ReportTold, DownTold, StartTold
  DEF Next, Handle, Exit, Crash

LEMMA InvInit == Init => Inv
<1> SUFFICES ASSUME Init PROVE Inv
  OBVIOUS
<1>1. phase = "idle" /\ process = "up" /\ DOMAIN told = {}
  BY DEF Init, Nothing
<1> QED
  BY <1>1, FileInit DEF Inv, ToldInv, Agrees, Running

(* An administrator who was told of a change finds it made, until he or    *)
(* another asks something of the same object: whatever else was edited,    *)
(* answered twice, refused, not saved, or ended with its process.          *)
THEOREM ToldStaysTrue == Spec => []ToldIsTrue
<1>1. Spec => []Inv
  BY InvInit, InvStep, PTL DEF Spec
<1>2. Inv => ToldIsTrue
  BY DEF Inv, ToldInv, Agrees, ToldIsTrue
<1> QED
  BY <1>1, <1>2, PTL
=============================================================================

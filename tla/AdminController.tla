-------------------------- MODULE AdminController --------------------------
(***************************************************************************)
(* AdminController (src/src/adminController.cpp) on the Telegram thread    *)
(* and the configuration it edits: buttons open a dialogue, texts answer   *)
(* it, an answer is stored by an operation of ConfigManager and confirmed  *)
(* to the administrator.                                                   *)
(*                                                                         *)
(* Updates come in batches.  Telegram keeps the updates of a batch until   *)
(* the next poll confirms them; a handler that throws ends the batch, and  *)
(* a new process is given again what was not confirmed.  Which updates the *)
(* bot library handles again after an exception is left open: all of the   *)
(* batch, or none.  New updates of a batch are revealed one at a time.     *)
(* Every call to Telegram may throw, whether or not the message was        *)
(* delivered.                                                              *)
(***************************************************************************)
EXTENDS ConfigManager

CONSTANTS Admins, Strangers, \* who writes to the bot
          Cancel,            \* "/cancel"
          Inputs,            \* what is sent to the bot
          ULongSize,         \* values of unsigned long: 2^32 or 2^64
          InitConfigs,       \* configurations the program is started with
          MaxBatch,          \* updates of one poll: the library asks for 100
          MaxUpdates,        \* bound: updates sent to the bot
          MaxRestarts        \* bound: starts of a new process

VARIABLES
  process,  \* up, stopping (SIGINT was raised), down
  dialogue, \* _awaitingInput
  phase,    \* the handler is idle, or storing what it was answered
  queue,    \* updates to handle, the first one in hand
  handled,  \* updates handled and not confirmed
  received, \* updates sent so far
  restarts, \* processes started so far
  threw,    \* the last handler threw, and no poll was made since
  told      \* history: what was last reported as changed, by object

botVars == <<queue, handled, received, threw>>
lifeVars == <<process, restarts>>
vars == <<configVars, botVars, lifeVars, dialogue, phase, told>>

(* What a button asks for, and what the second question then asks for.     *)
Questions == {"logic.timeout", "logic.timeout_limit", "tg.users.add",
              "tg.users.rem", "machines.state", "machines.add.id",
              "machines.rem", "errors.add.code", "errors.rem", "ex.add", "ex.rem"}
SecondQuestion == [k \in {"machines.add.id", "errors.add.code"} |->
  IF k = "machines.add.id" THEN "machines.add.pseudo" ELSE "errors.add.des"]
SecondKeys == {"machines.add.pseudo", "errors.add.des"}
Keys == Questions \cup SecondKeys

PendingAction == [key : Keys, param : Texts \cup {None}]

(* menu: a button that shows something; command: outside a dialogue.       *)
Update == [from : Admins \cup Strangers, kind : {"button"}, data : Questions]
            \cup [from : Admins \cup Strangers, kind : {"text"},
                  data : Texts \cup {Cancel}]
            \cup [from : Admins \cup Strangers,
                  kind : {"menu", "restart", "command", "inline"}, data : {None}]

ASSUME AdminAssumption ==
  /\ InitConfigs \subseteq {c \in Config : c.tg.token}
  /\ Inputs \subseteq Update
  /\ ULongSize \in Nat /\ ULongSize >= UIntSize
  /\ Cancel \notin Texts /\ Admins \cap Strangers = {}
  /\ MaxBatch \in Nat /\ MaxUpdates \in Nat /\ MaxRestarts \in Nat

(* What can be reported as changed.                                        *)
Objects == ({"timeout", "limit"} \X {None}) \cup ({"user"} \X Users)
             \cup ({"code", "muted"} \X UInt) \cup ({"machine"} \X Texts)

(* A dialogue at its second question has the answer to the first.          *)
FirstIsKept ==
  \A a \in Admins :
    dialogue[a] # None /\ dialogue[a].key \in SecondKeys => dialogue[a].param \in Texts

TypeOK ==
  /\ ConfigTypeOK
  /\ process \in {"up", "stopping", "down"}
  /\ dialogue \in [Admins -> PendingAction \cup {None}]
  /\ FirstIsKept
  /\ phase \in {"idle", "storing"} /\ (todo # <<>> => phase = "storing")
  /\ queue \in Seq(Update) /\ handled \in Seq(Update)
  /\ (phase = "storing" => queue # <<>>)
  /\ received \in 0..MaxUpdates /\ restarts \in 0..MaxRestarts
  /\ threw \in BOOLEAN
  /\ DOMAIN told \subseteq Objects

Nothing == <<>>
NoDialogues == [a \in Admins |-> None]

Init ==
  /\ mem \in InitConfigs /\ file = mem
  /\ store = "none" /\ todo = <<>> /\ saved = TRUE
  /\ unsaved = FALSE /\ shown = "name"
  /\ process = "up" /\ phase = "idle"
  /\ dialogue = NoDialogues
  /\ queue = <<>> /\ handled = <<>> /\ received = 0
  /\ restarts = 0 /\ threw = FALSE
  /\ told = Nothing

-----------------------------------------------------------------------------
(* Updates and their confirmation.                                         *)

Running == process # "down"
InHand  == Head(queue)
FromAdmin == InHand.from \in Admins

CanHandle == Running /\ phase = "idle" /\ queue # <<>>

(* The handler of the update in hand returns.                              *)
Returned ==
  /\ queue' = Tail(queue) /\ handled' = Append(handled, InHand)
  /\ threw' = FALSE
  /\ UNCHANGED received

(* It throws: runLongPoll catches, and starts the long poll again.         *)
Threw ==
  /\ \/ queue' = Tail(queue) /\ handled' = Append(handled, InHand)
     \/ queue' = handled \o queue /\ handled' = <<>>
  /\ threw' = TRUE
  /\ UNCHANGED received

(* The handler ends with calls to Telegram.                                *)
Calls == Returned \/ Threw

(* One more update of the batch.                                           *)
Receive(u) ==
  /\ Running /\ phase = "idle" /\ queue = <<>>
  /\ received < MaxUpdates /\ Len(handled) < MaxBatch
  /\ threw' = FALSE
  /\ queue' = <<u>> /\ received' = received + 1
  /\ UNCHANGED <<configVars, handled, lifeVars, dialogue, phase, told>>

(* The next poll confirms what was handled.                                *)
Poll ==
  /\ Running /\ phase = "idle" /\ queue = <<>>
  /\ handled' = <<>> /\ threw' = FALSE
  /\ UNCHANGED <<configVars, queue, received, lifeVars, dialogue, phase, told>>

-----------------------------------------------------------------------------
(* Handlers that end in one step.                                          *)

Pending == dialogue[InHand.from]

LeavesNoTrace ==
  Returned /\ UNCHANGED <<configVars, lifeVars, dialogue, phase, told>>

(* Users without rights, and texts outside a dialogue.                     *)
Ignore ==
  /\ CanHandle /\ InHand.kind \notin {"command", "inline"}
  /\ ~FromAdmin \/ (InHand.kind = "text" /\ Pending = None)
  /\ LeavesNoTrace

(* /start, /admin and /stateof show something; what throws is caught.      *)
Command == CanHandle /\ InHand.kind = "command" /\ LeavesNoTrace

InlineQuery == CanHandle /\ InHand.kind = "inline" /\ LeavesNoTrace

Menu ==
  /\ CanHandle /\ FromAdmin /\ InHand.kind = "menu"
  /\ Calls
  /\ UNCHANGED <<configVars, lifeVars, dialogue, phase, told>>

(* _awaitingInput[from].key = ...                                          *)
Button ==
  /\ CanHandle /\ FromAdmin /\ InHand.kind = "button"
  /\ dialogue' = [dialogue EXCEPT ![InHand.from] =
       [key |-> InHand.data, param |-> IF @ = None THEN None ELSE @.param]]
  /\ Calls
  /\ UNCHANGED <<configVars, lifeVars, phase, told>>

(* The restart button says what it is about to do, then raises SIGINT.     *)
RestartButton ==
  /\ CanHandle /\ FromAdmin /\ InHand.kind = "restart"
  /\ \/ Threw /\ UNCHANGED process
     \/ Calls /\ process' = "stopping"
  /\ UNCHANGED <<configVars, restarts, dialogue, phase, told>>

IsAnswer == CanHandle /\ FromAdmin /\ InHand.kind = "text" /\ Pending # None

CancelDialogue ==
  /\ IsAnswer /\ InHand.data = Cancel
  /\ dialogue' = [dialogue EXCEPT ![InHand.from] = None]
  /\ Calls
  /\ UNCHANGED <<configVars, lifeVars, phase, told>>

IsValue == IsAnswer /\ InHand.data # Cancel

(* The answer to a first question is not kept for the second.              *)
FirstAnswerForgets ==
  /\ IsValue /\ Pending.key \in DOMAIN SecondQuestion
  /\ dialogue' = [dialogue EXCEPT ![InHand.from].key = SecondQuestion[@]]
  /\ Calls
  /\ UNCHANGED <<configVars, lifeVars, phase, told>>

(* The answer to a first question is kept as param, and the second asked.  *)
FirstAnswer ==
  /\ IsValue /\ Pending.key \in DOMAIN SecondQuestion
  /\ dialogue' = [dialogue EXCEPT ![InHand.from] =
       [key |-> SecondQuestion[@.key], param |-> InHand.data]]
  /\ Calls
  /\ UNCHANGED <<configVars, lifeVars, phase, told>>

(* A key that no branch knows: the dialogue stays, nothing is answered.    *)
DeadEnd ==
  /\ IsValue /\ Pending.key = "machines.state"
  /\ Returned
  /\ UNCHANGED <<configVars, lifeVars, dialogue, phase, told>>

-----------------------------------------------------------------------------
(* Answers that are stored.                                                *)

IsNumber(text) == Number[text] # None

(* std::stoul: it throws beyond an unsigned long.                          *)
IsULong(text) == IsNumber(text) /\ Number[text] < ULongSize

(* unsigned int val = std::stoul(text)                                     *)
ToUInt(text) == Number[text] % UIntSize

(* Every conversion that throws is answered with an error.                 *)
Accepts(d, text) ==
  CASE d.key = "logic.timeout"  -> IsNumber(text) /\ Number[text] >= 5
    [] d.key = "errors.add.des" -> IsULong(d.param)
    [] d.key \in {"logic.timeout_limit", "errors.rem", "ex.add", "ex.rem"} -> IsULong(text)
    [] d.key \in {"machines.add.pseudo", "machines.rem"} -> TRUE
    [] OTHER -> IsNumber(text)

Operation(d, text, taken) ==
  CASE d.key = "logic.timeout"       -> SetTimeout(Number[text])
    [] d.key = "logic.timeout_limit" -> SetTimeoutLimit(ToUInt(text))
    [] d.key = "tg.users.add"        -> AddUser(Number[text])
    [] d.key = "tg.users.rem"        -> RemoveUser(Number[text])
    [] d.key = "machines.add.pseudo" -> AddMachine(d.param, text, taken)
    [] d.key = "machines.rem"        -> RemoveMachine(text, taken)
    [] d.key = "errors.add.des"      -> AddError(ToUInt(d.param))
    [] d.key = "errors.rem"          -> RemError(ToUInt(text))
    [] d.key = "ex.add"              -> AddEx(ToUInt(text))
    [] d.key = "ex.rem"              -> RemEx(ToUInt(text))

(* What the answer is about, and what it asks for: a machine has its name  *)
(* in a tuple, or is gone.                                                 *)
Asked(d, text) ==
  CASE d.key = "logic.timeout"       -> [object |-> <<"timeout", None>>, value |-> Number[text]]
    [] d.key = "logic.timeout_limit" -> [object |-> <<"limit", None>>, value |-> ToUInt(text)]
    [] d.key = "tg.users.add"        -> [object |-> <<"user", Number[text]>>, value |-> TRUE]
    [] d.key = "tg.users.rem"        -> [object |-> <<"user", Number[text]>>, value |-> FALSE]
    [] d.key = "machines.add.pseudo" -> [object |-> <<"machine", d.param>>, value |-> <<text>>]
    [] d.key = "machines.rem"        -> [object |-> <<"machine", text>>, value |-> <<>>]
    [] d.key = "errors.add.des"      -> [object |-> <<"code", ToUInt(d.param)>>, value |-> TRUE]
    [] d.key = "errors.rem"          -> [object |-> <<"code", ToUInt(text)>>, value |-> FALSE]
    [] d.key = "ex.add"              -> [object |-> <<"muted", ToUInt(text)>>, value |-> TRUE]
    [] d.key = "ex.rem"              -> [object |-> <<"muted", ToUInt(text)>>, value |-> FALSE]

Stored == Asked(Pending, InHand.data)

Forget(o)  == [x \in DOMAIN told \ {o} |-> told[x]]
Tell(o, v) == [x \in DOMAIN told \cup {o} |-> IF x = o THEN v ELSE told[x]]

IsStorable == IsValue /\ Pending.key \notin DOMAIN SecondQuestion \cup {"machines.state"}

(* A value that does not convert, or is too small.                         *)
Refuse ==
  /\ IsStorable /\ ~Accepts(Pending, InHand.data)
  /\ Calls
  /\ UNCHANGED <<configVars, lifeVars, dialogue, phase, told>>

Answer ==
  /\ IsStorable /\ Accepts(Pending, InHand.data)
  /\ phase' = "storing"
  /\ \E taken \in BOOLEAN :
       LET op == Operation(Pending, InHand.data, taken)
       IN todo' = op.stores /\ saved' = op.ok
  /\ told' = Forget(Stored.object)
  /\ UNCHANGED <<mem, file, store, unsaved, shown, botVars, lifeVars, dialogue>>

Storing == Store /\ UNCHANGED <<botVars, lifeVars, dialogue, phase, told>>

StoringEnded == phase = "storing" /\ todo = <<>> /\ store = "none"

(* The change is reported, the dialogue ends, the panel is shown.  If the  *)
(* report throws, an error is shown instead and the dialogue stays.        *)
Report ==
  /\ StoringEnded /\ saved
  /\ phase' = "idle"
  /\ LET reported == Tell(Stored.object, Stored.value)
     IN \/ told' = reported /\ dialogue' = [dialogue EXCEPT ![InHand.from] = None]
        \/ told' \in {told, reported} /\ UNCHANGED dialogue
  /\ Calls
  /\ UNCHANGED <<configVars, lifeVars>>

(* A false result is tried again.                                          *)
SilentTriesAgain ==
  /\ StoringEnded /\ ~saved
  /\ phase' = "idle"
  /\ saved' = TRUE
  /\ UNCHANGED <<mem, file, store, todo, unsaved, shown, botVars, lifeVars,
                 dialogue, told>>

(* An operation that returned false is not answered at all.                *)
Silent ==
  /\ StoringEnded /\ ~saved
  /\ phase' = "idle"
  /\ saved' = TRUE
  /\ Returned
  /\ UNCHANGED <<mem, file, store, todo, unsaved, shown, lifeVars, dialogue, told>>

-----------------------------------------------------------------------------
(* The process.                                                            *)

Down ==
  /\ process' = "down" /\ phase' = "idle"
  /\ dialogue' = NoDialogues
  /\ queue' = handled \o queue /\ handled' = <<>>
  /\ threw' = FALSE
  /\ StoreEnds
  /\ told' = IF unsaved' THEN Nothing ELSE told
  /\ UNCHANGED <<received, restarts>>

(* The long poll ends between two batches, or with a handler that threw.   *)
Exit ==
  /\ process = "stopping" /\ phase = "idle"
  /\ queue = <<>> \/ threw
  /\ Down

(* A crash, a kill, or a stop from outside.                                *)
Crash == Running /\ Down

(* A new process; without a token the first call to Telegram throws out of *)
(* main.                                                                   *)
Start ==
  /\ process = "down" /\ restarts < MaxRestarts
  /\ Load
  /\ process' = IF mem'.tg.token THEN "up" ELSE "down"
  /\ restarts' = restarts + 1
  /\ UNCHANGED <<botVars, dialogue, phase, told>>

-----------------------------------------------------------------------------
Handle ==
  \/ Ignore \/ Command \/ InlineQuery \/ Menu \/ Button \/ RestartButton
  \/ CancelDialogue \/ FirstAnswer \/ DeadEnd \/ Refuse
  \/ Answer \/ Storing \/ Report \/ Silent

Next ==
  \/ \E u \in Inputs : Receive(u)
  \/ Handle \/ Poll
  \/ Running /\ Resolve /\ UNCHANGED <<botVars, lifeVars, dialogue, phase, told>>
  \/ Exit \/ Crash \/ Start

Spec == Init /\ [][Next]_vars

(* The Telegram thread runs, and its calls return or throw.                *)
FairSpec == Spec /\ WF_vars(Handle)

-----------------------------------------------------------------------------
(* Properties.                                                             *)

(* What a configuration says of an object.                                 *)
Says(c, o) ==
  CASE o[1] = "timeout" -> c.logic.timeout
    [] o[1] = "limit"   -> c.logic.timeout_limit
    [] o[1] = "user"    -> o[2] \in c.tg.users
    [] o[1] = "code"    -> o[2] \in c.logic.code
    [] o[1] = "muted"   -> o[2] \in c.logic.disabled_codes
    [] o[1] = "machine" ->
         IF o[2] \in c.mqtt THEN <<c.logic.machines[o[2]]>>
         ELSE IF c.logic.machines[o[2]] = None THEN <<>> ELSE <<None, o[2]>>

(* Ids that are one level of a topic.                                      *)
Plain(o) == o[1] = "machine" => SecondLevel[o[2]] = o[2]

(* What an administrator was told is so, in all sections it concerns,      *)
(* until something is asked of the same object again: later operations on  *)
(* other objects, answers taken twice, failed updates, restarts and        *)
(* crashes leave it true, unless a write failed or was cut before the      *)
(* process ended.                                                          *)
ToldIsTrue ==
  Running => \A o \in DOMAIN told : Plain(o) => told[o] = Says(mem, o)

(* Updates given again are got through: no answer blocks the ones after    *)
(* it, whatever it does to the configuration, unless handlers throw.       *)
UpdatesAreHandled == <>[](process = "up" /\ ~threw) => []<>(queue = <<>>)
=============================================================================

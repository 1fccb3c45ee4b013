--------------------------- MODULE ConfigManager ---------------------------
(***************************************************************************)
(* Settings::ConfigManager (src/src/settings.cpp): the sections of the     *)
(* configuration in memory, the file that holds them, and the operations   *)
(* that edit them.                                                         *)
(*                                                                         *)
(* One thread, Telegram's, edits: an operation copies sections, edits the  *)
(* copies and stores them one after the other; to store a section is to    *)
(* assign it and to write the whole file again, under the mutex.  Other    *)
(* threads read at any moment, resolveHmiName and resolvePath without the  *)
(* mutex.  The file is cut to nothing before it is written.                *)
(*                                                                         *)
(* A topic "NordFrost/T/#" is the text T.  Lists of topics and codes are   *)
(* sets: of their order and repetitions nothing is said.  Broker, graphite *)
(* and poses are read only and left out.                                   *)
(***************************************************************************)
EXTENDS Integers, Sequences

CONSTANTS Texts,       \* what an administrator may type
          Number,      \* what stoull makes of a text, or None
          SecondLevel, \* split(topic, '/')[1] of a text's topic, or None
          UIntSize,    \* values of unsigned int: 2^32
          Users,       \* ids of Telegram users
          None,
          Malformed,   \* a topic without a second level
          Cut          \* a file cut short: empty, or it does not parse

VARIABLES
  mem,     \* _tg, _mqtt, _logic
  file,    \* what the file holds
  store,   \* the update under way holds the mutex: assigning, then writing
  todo,    \* the sections still to be stored by the operation under way
  saved,   \* what the last update of a section returned
  unsaved, \* history: a write failed or was cut, and none succeeded since
  shown    \* history: what an unlocked read gave during this assignment

configVars == <<mem, file, store, todo, saved, unsaved, shown>>

UInt == 0..(UIntSize - 1)
TgSection    == [token : BOOLEAN, users : SUBSET Users]
TopicList    == SUBSET (Texts \cup {Malformed})
LogicSection == [timeout : Nat, timeout_limit : UInt,
                 disabled_codes : SUBSET UInt, code : SUBSET UInt,
                 machines : [Texts -> Texts \cup {None}]]
Config == [tg : TgSection, mqtt : TopicList, logic : LogicSection]

ASSUME ConfigAssumption ==
  /\ Number \in [Texts -> Users \cup {None}] /\ Users \subseteq Nat
  /\ SecondLevel \in [Texts -> Texts \cup {None}]
  /\ UIntSize \in Nat /\ UIntSize > 100
  /\ Cut \notin Config
  /\ None \notin Texts /\ None \notin Nat /\ Malformed \notin Texts

(* A section and its new value.                                            *)
Change == ({"tg"} \X TgSection) \cup ({"mqtt"} \X TopicList)
            \cup ({"logic"} \X LogicSection)

ConfigTypeOK ==
  /\ mem \in Config
  /\ file \in Config \cup {Cut}
  /\ store \in {"none", "assigning", "writing"}
  /\ todo \in Seq(Change) /\ (store # "none" => todo # <<>>)
  /\ saved \in BOOLEAN /\ unsaved \in BOOLEAN
  /\ shown \in {"name", "garbage"}

(* The sections as constructed: no token, the topic "topic".               *)
DefaultConfig ==
  [tg    |-> [token |-> FALSE, users |-> {}],
   mqtt  |-> {Malformed},
   logic |-> [timeout |-> 60, timeout_limit |-> 3, disabled_codes |-> {0},
              code |-> {0, 100}, machines |-> [t \in Texts |-> None]]]

-----------------------------------------------------------------------------
(* The operations, on the sections they copy: each gives what it returns   *)
(* if nothing fails, and the sections it stores.  A later section is only  *)
(* stored if the update of the one before it returned true.                *)

Returns(ok)     == [ok |-> ok, stores |-> <<>>]
Stores(changes) == [ok |-> TRUE, stores |-> changes]

StoreTg(users)      == <<"tg", [mem.tg EXCEPT !.users = users]>>
StoreTopics(topics) == <<"mqtt", topics>>
StoreLogic(logic)   == <<"logic", logic>>

(* A section built anew instead of copied: it has no token.                *)
AddUserAnew(u) ==
  IF u \in mem.tg.users
  THEN Returns(TRUE)
  ELSE Stores(<<<<"tg", [token |-> FALSE, users |-> mem.tg.users \cup {u}]>>>>)

AddUser(u) ==
  IF u \in mem.tg.users THEN Returns(TRUE)
                        ELSE Stores(<<StoreTg(mem.tg.users \cup {u})>>)

RemoveUser(u) ==
  IF mem.tg.users = {} THEN Returns(TRUE)
                       ELSE Stores(<<StoreTg(mem.tg.users \ {u})>>)

(* Topics whose second level is mid.  A malformed topic has no element 1,  *)
(* and operator[] does not throw: taken says whether what it reads there   *)
(* happens to equal mid.                                                   *)
TopicsOf(mid, taken) ==
  {t \in mem.mqtt : IF t = Malformed THEN taken ELSE SecondLevel[t] = mid}

WithName(mid, name) == [mem.logic EXCEPT !.machines[mid] = name]

AddMachine(mid, pseudo, taken) ==
  IF TopicsOf(mid, taken) # {}
  THEN Returns(FALSE)
  ELSE Stores(<<StoreLogic(WithName(mid, pseudo)),
                StoreTopics(mem.mqtt \cup {mid})>>)

(* The name is taken out, the topic is forgotten.                          *)
RemoveMachineName(mid, taken) == Stores(<<StoreLogic(WithName(mid, None))>>)

RemoveMachine(mid, taken) ==
  Stores(<<StoreLogic(WithName(mid, None)),
           StoreTopics(mem.mqtt \ TopicsOf(mid, taken))>>)

AddError(code) ==
  IF code \in mem.logic.code
  THEN Returns(FALSE)
  ELSE Stores(<<StoreLogic([mem.logic EXCEPT !.code = @ \cup {code}])>>)

RemError(code) == Stores(<<StoreLogic([mem.logic EXCEPT !.code = @ \ {code}])>>)

AddEx(code) ==
  Stores(<<StoreLogic([mem.logic EXCEPT !.disabled_codes = @ \cup {code}])>>)

RemEx(code) ==
  Stores(<<StoreLogic([mem.logic EXCEPT !.disabled_codes = @ \ {code}])>>)

SetTimeout(val) == Stores(<<StoreLogic([mem.logic EXCEPT !.timeout = val])>>)

SetTimeoutLimit(val) ==
  Stores(<<StoreLogic([mem.logic EXCEPT !.timeout_limit = val])>>)

-----------------------------------------------------------------------------
(* updateTgConfig, updateMqttConfig, updateLogicConfig and _write.         *)

Lock ==
  /\ todo # <<>> /\ store = "none"
  /\ store' = "assigning"
  /\ UNCHANGED <<mem, file, todo, saved, unsaved, shown>>

(* What an update that returns ok leaves to do.                            *)
Return(ok) ==
  /\ store' = "none" /\ saved' = ok
  /\ todo' = IF ok THEN Tail(todo) ELSE <<>>

AssignSection == mem' = [mem EXCEPT ![Head(todo)[1]] = Head(todo)[2]]

(* Opening the file for writing cuts it to nothing.                        *)
OpenFile ==
  /\ store = "assigning"
  /\ AssignSection
  /\ file' = Cut
  /\ store' = "writing"
  /\ UNCHANGED <<todo, saved, unsaved>>
  /\ shown' = "name"

(* The section stays assigned although it is not saved.                    *)
OpenFileFails ==
  /\ store = "assigning"
  /\ AssignSection
  /\ Return(FALSE)
  /\ unsaved' = TRUE
  /\ UNCHANGED file
  /\ shown' = "name"

(* One section is not put into what is written.                            *)
WriteFileWithoutTopics ==
  /\ store = "writing"
  /\ file' = [mem EXCEPT !.mqtt = DefaultConfig.mqtt]
  /\ Return(TRUE)
  /\ unsaved' = FALSE
  /\ UNCHANGED <<mem, shown>>

WriteFile ==
  /\ store = "writing"
  /\ file' = mem
  /\ Return(TRUE)
  /\ unsaved' = FALSE
  /\ UNCHANGED <<mem, shown>>

(* The disk is full, say.  fail() is asked before the buffer is flushed,   *)
(* so that what was cut may be returned as saved.                          *)
WriteFileFails ==
  /\ store = "writing"
  /\ file' = Cut
  /\ \E noticed \in BOOLEAN : Return(~noticed)
  /\ unsaved' = TRUE
  /\ UNCHANGED <<mem, shown>>

Store == Lock \/ OpenFile \/ OpenFileFails \/ WriteFile \/ WriteFileFails

(* resolveHmiName and resolvePath, called by the main thread: during the   *)
(* assignment of the section they look into a map that is being replaced.  *)
Resolve ==
  /\ shown' \in IF store = "assigning" /\ Head(todo)[1] = "logic"
                THEN {"name", "garbage"} ELSE {"name"}
  /\ UNCHANGED <<mem, file, store, todo, saved, unsaved>>

(* The process ends: the update under way ends where it is.                *)
StoreEnds ==
  /\ store' = "none" /\ todo' = <<>>
  /\ unsaved' = (unsaved \/ store = "writing")
  /\ UNCHANGED <<mem, file, saved>>
  /\ shown' = "name"

(* _load() of a new process: an empty file is written anew with defaults;  *)
(* what does not parse stays, and leaves the sections as constructed.      *)
Load ==
  /\ IF file = Cut THEN mem' = DefaultConfig /\ file' \in {Cut, DefaultConfig}
                   ELSE mem' = file /\ file' = file
  /\ unsaved' = ~mem'.tg.token
  /\ UNCHANGED <<store, todo, saved, shown>>

-----------------------------------------------------------------------------
(* Properties.                                                             *)

(* What is in memory is what the next start will load, unless the last     *)
(* write failed: no operation ends with the file behind the memory, be it  *)
(* one of two updates of which the second was never made (updateLogic-     *)
(* Config && updateMqttConfig) or one that ended with its process.         *)
FileIsMemory == store # "writing" /\ ~unsaved => file = mem

(* No sequence of edits, crashes and restarts takes from the program what  *)
(* it needs to start again; only a write that failed or was cut does.      *)
CanStartAgain ==
  store # "writing" /\ ~unsaved => file # Cut /\ file.tg.token

(* A name read for an alert or a metric is a name: ConfigManager is said   *)
(* to be thread-safe.                                                      *)
ReadsAreWhole == shown # "garbage"
=============================================================================

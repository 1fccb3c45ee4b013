------------------------- MODULE MCAdminController -------------------------
(* A small instance of AdminController: one administrator, one stranger,   *)
(* and three texts: a number, a name and a path whose second level is that *)
(* name.  With an unsigned int of 7 bits the number 129 is the code 1.     *)
EXTENDS AdminController

CONSTANTS number, name, path, admin, stranger

MCTexts == {number, name, path}
MCNumber == [t \in MCTexts |-> IF t = number THEN 129 ELSE None]
MCSecondLevel == [t \in MCTexts |-> IF t = path THEN name ELSE t]

MCInitConfigs ==
  {[tg    |-> [token |-> TRUE, users |-> {}],
    mqtt  |-> {name, Malformed},
    logic |-> [DefaultConfig.logic EXCEPT !.machines[name] = number]]}

(* Of the stranger, a button and an inline query, and none of the latter   *)
(* of the administrator.                                                   *)
MCInputs ==
  {u \in Update : IF u.from = stranger THEN u.data = "ex.add" \/ u.kind = "inline"
                                       ELSE u.kind # "inline"}
=============================================================================

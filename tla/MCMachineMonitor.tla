-------------------------- MODULE MCMachineMonitor --------------------------
(***************************************************************************)
(* Small instances of MachineMonitor: machine r1 is subscribed to, r2 is   *)
(* not.                                                                    *)
(***************************************************************************)
EXTENDS MachineMonitor

CONSTANTS r1, r2, n1, n2, none, malformed

OneId   == {r1}
MCNames == {n1, n2}

NamesOf == [id \in Ids |-> IF id = r1 THEN n1 ELSE n2]

\* Alarm code 0 is muted, 1 is known; any other is unknown.
Limits(set) ==
  {[timeout_limit |-> n, disabled |-> {0}, known |-> {1}, name |-> NamesOf] : n \in set}

OneLimit    == Limits({1})
EditedLimit == Limits({1, 2})

OneTopic == {<<r1>>}
Removed  == {<<r1>>, <<>>}
\* The machine twice, removed, and beside a malformed topic.
Edited   == {<<r1, r1>>, <<>>, <<r1, malformed>>}

Msg(id, theme, val) == [id |-> id, theme |-> theme, val |-> val]

Heartbeat  == {Msg(r1, "state", 0)}
\* A topic of two levels beside a well-formed one.
ShortTopic == Heartbeat \cup {Msg(r1, "missing", none)}

\* 65536 wraps to 0; step 3 is neither winter mode nor its end.
Steps  == {Msg(r1, "state", s) : s \in {none, 0, 1, 2, 3, 65536}}
Alarms == {Msg(r1, "alarm_kod", c) : c \in {none, 1, 2, 65536}}
ErrorCodes == Heartbeat \cup Alarms
Devices ==
  Steps \cup Alarms
    \cup {Msg(r1, t, v) : t \in {"in_not_fil", "out"}, v \in {none, 0, 1}}
    \cup {Msg(r1, t, 0) : t \in {"in_filter", "time_light_ECO", "unknown"}}
    \cup {Msg(r1, "in_filter", none)}
=============================================================================

--------------------------------- MODULE Backend ---------------------------------
(***************************************************************************)
(* What the interface Client of internal/wginternal promises, whichever    *)
(* package implements it: one call of Devices, Device, ConfigureDevice or  *)
(* Close, while devices come and go.  A call takes time, and its answer    *)
(* need not be true of any one moment of it: it must not leave out what    *)
(* was there all the while, nor make up what was not there at all.         *)
(*                                                                         *)
(* A device is <<name, place>>: its name, and whatever tells it from other *)
(* devices of the name (a directory, a kind, a backend).                   *)
(***************************************************************************)
CONSTANT Names

VARIABLES
  op,        \* "devices", "device", "configure", "close"
  name,      \* what Device and ConfigureDevice are asked for
  there,     \* the devices that there are
  begun,     \* the call has begun
  stayed,    \* the devices that there have been ever since it began
  seen,      \* the devices that there have been at some time since it began
  hidden,    \* names that the backend may miss: another device stands before theirs
  unfit,     \* devices that the backend cannot speak to
  result,    \* "none" until it answers: "ok", "notexist", "error"
  found      \* the devices returned, or the one configured

vars == <<op, name, there, begun, stayed, seen, hidden, unfit, result, found>>

Named(devices) == {d[1] : d \in devices}

Init ==
  /\ op \in {"devices", "device", "configure", "close"}
  /\ name \in Names
  /\ begun \in BOOLEAN
  /\ stayed = there /\ seen = there
  /\ result = "none" /\ found = {}

\* Devices come and go, and begin and cease to stand before each other.
Change ==
  /\ stayed' = IF begun THEN stayed \intersect there' ELSE there'
  /\ seen' = IF begun THEN seen \union there' ELSE there'
  /\ Named(there') \subseteq Names
  /\ hidden' \subseteq Names
  /\ UNCHANGED <<op, name, begun, unfit, result, found>>

\* The call begins; an answer may be its first step.
Begun ==
  /\ begun' = TRUE
  /\ UNCHANGED <<op, name, there, hidden, unfit>>
  /\ IF begun THEN UNCHANGED <<stayed, seen>> ELSE stayed' = there /\ seen' = there

Begin == ~ begun /\ Begun /\ UNCHANGED <<result, found>>

Answer(res) == result = "none" /\ Begun /\ result' = res

\* Every name that was there all the while.
Lists ==
  /\ op = "devices" /\ Answer("ok")
  /\ Named(stayed') \subseteq Named(found')
  /\ found' \subseteq seen' \ unfit

\* The device is returned, or has been configured.
Finds ==
  /\ op \in {"device", "configure"} /\ Answer("ok")
  /\ \E d \in seen' \ unfit : d[1] = name /\ found' = {d}

\* os.ErrNotExist.
NotExist ==
  /\ op \in {"device", "configure"} /\ Answer("notexist")
  /\ name \in Named(stayed') => name \in hidden
  /\ found' = {}

\* Any other error; Devices may still return devices.
Fails ==
  /\ Answer("error")
  /\ found' \subseteq IF op = "devices" THEN seen' \ unfit ELSE {}

Closes == op = "close" /\ Answer("ok") /\ found' = {}

Next == Change \/ Begin \/ Lists \/ Finds \/ NotExist \/ Fails \/ Closes

Spec == Init /\ [][Next]_vars
=============================================================================

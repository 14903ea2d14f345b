------------------------------ MODULE AWGConfigure ------------------------------
(***************************************************************************)
(* Client.ConfigureDevice of client.go, for the numbers and headers of an  *)
(* AmneziaWG device: the configuration is validated; if it sets only some  *)
(* of a group the kernel checks together, the device is read and what it   *)
(* would become is validated too; then the attributes are sent.  Several   *)
(* callers do this at once, and nothing locks the device in between.       *)
(***************************************************************************)
EXTENDS Validate

CONSTANTS Callers,
          Configs,  \* the configurations the callers may pass
          Devices   \* what the device may hold beforehand

VARIABLES
  device,   \* n, mark and H of the device; isAmnezia: its family
  cfg, pc, result,
  unread,   \* history: the device could not be read
  raced     \* history: another caller changed the device since the check

vars == <<device, cfg, pc, result, unread, raced>>

HeaderRange == Int \X Int

\* A device and a configuration, as the Go types allow them.
Device ==
  [isAmnezia : BOOLEAN, n : [Numbers -> 0 .. U16 - 1], mark : 0 .. U32 - 1,
   H : [Headers -> HeaderRange \union {Nil}]]

\* The keys of the tags of an init packet; any other is unknown.
TagKeys == {"b", "t", "c", "r", "rc", "rd", "unknown"}

InitTag == [key : TagKeys, val : Int \union {Nil}, text : Nat]

PeerValues ==
  [ka : Int \union {Nil}, port : Int \union {Nil}, on : BOOLEAN, off : BOOLEAN]

Config ==
  [n : [Numbers -> Int \union {Nil}], mark : Int \union {Nil},
   H : [Headers -> HeaderRange \union {Nil}],
   I : [1 .. 5 -> Seq(InitTag) \union {Nil}], peers : Seq(PeerValues)]

ASSUME NilAssumption == Nil \notin Int \union HeaderRange

ASSUME ConfigsAssumption == Configs \subseteq Config

\* The types, and that only a validated configuration reaches the backend.
TypeOK ==
  /\ device \in Device
  /\ cfg \in [Callers -> Config]
  /\ pc \in [Callers -> {"start", "set", "done"}]
  /\ \A c \in Callers : pc[c] = "set" => Validates(cfg[c])
  /\ result \in [Callers -> {"none", "ok", "invalid", "notsupported", "EINVAL"}]
  /\ unread \in [Callers -> BOOLEAN]
  /\ raced \in [Callers -> BOOLEAN]

Init ==
  /\ device \in Devices
  /\ cfg \in [Callers -> Configs]
  /\ pc = [c \in Callers |-> "start"]
  /\ result = [c \in Callers |-> "none"]
  /\ unread = [c \in Callers |-> FALSE]
  /\ raced = [c \in Callers |-> FALSE]

Return(c, res) ==
  /\ result' = [result EXCEPT ![c] = res]
  /\ pc' = [pc EXCEPT ![c] = "done"]

-----------------------------------------------------------------------------
\* Some, but not all, of a group are set.
Partial(group, set) == (\E f \in group : f \in set) /\ ~ (group \subseteq set)

\* Mutant: the junk parameters are forgotten.
PartialHeaders(x) == Partial(Headers, {i \in Headers : x.H[i] # Nil})

PartialAWG(x) ==
  \/ Partial({"Jc", "Jmin", "Jmax"}, {f \in Numbers : x.n[f] # Nil})
  \/ Partial(Headers, {i \in Headers : x.H[i] # Nil})

\* What the device would have: what the configuration sets, what the device
\* has now otherwise.  A header the device does not have stays unset.
MergeAWG(d, x) ==
  [n |-> [f \in Numbers |-> IF f \notin {"Jc", "Jmin", "Jmax"} THEN Nil
                            ELSE IF x.n[f] # Nil THEN x.n[f] ELSE d.n[f]],
   mark |-> Nil,
   H |-> [i \in Headers |-> IF x.H[i] # Nil THEN x.H[i] ELSE d.H[i]],
   I |-> [i \in 1 .. 5 |-> Nil],
   peers |-> <<>>]

ValidateFails(c) ==
  /\ pc[c] = "start"
  /\ ~ Validates(cfg[c])
  /\ Return(c, "invalid")
  /\ UNCHANGED <<device, cfg, unread, raced>>

NoRead(c) ==
  /\ pc[c] = "start"
  /\ Validates(cfg[c])
  /\ ~ PartialAWG(cfg[c])
  /\ pc' = [pc EXCEPT ![c] = "set"]
  /\ UNCHANGED <<device, cfg, result, unread, raced>>

\* "A device that cannot be read is left to the backend."
ReadFails(c) ==
  /\ pc[c] = "start"
  /\ Validates(cfg[c])
  /\ PartialAWG(cfg[c])
  /\ pc' = [pc EXCEPT ![c] = "set"]
  /\ unread' = [unread EXCEPT ![c] = TRUE]
  /\ UNCHANGED <<device, cfg, result, raced>>

Read(c) ==
  /\ pc[c] = "start"
  /\ Validates(cfg[c])
  /\ PartialAWG(cfg[c])
  /\ IF device.isAmnezia /\ ~ Validates(MergeAWG(device, cfg[c]))
     THEN Return(c, "invalid")
     ELSE pc' = [pc EXCEPT ![c] = "set"] /\ UNCHANGED result
  /\ UNCHANGED <<device, cfg, unread, raced>>

-----------------------------------------------------------------------------
\* The attributes the backend sends, and what the kernel would make of the
\* device (the latter external).
Applied(d, x) ==
  [d EXCEPT
     !.n = [f \in Numbers |-> IF x.n[f] = Nil THEN d.n[f] ELSE Uint16(x.n[f])],
     !.mark = IF x.mark = Nil THEN @ ELSE Uint32(x.mark),
     !.H = [i \in Headers |-> IF x.H[i] = Nil THEN d.H[i] ELSE x.H[i]]]

\* The AmneziaWG module's own check of the outcome, external.
KernelAccepts(d) ==
  /\ \A f \in Numbers : d.n[f] <= Limit[f]
  /\ d.n["Jmax"] # 0 => d.n["Jmin"] <= d.n["Jmax"]
  /\ \A i, j \in Headers :
       i < j /\ d.H[i] # Nil /\ d.H[j] # Nil
       => d.H[i][2] < d.H[j][1] \/ d.H[j][2] < d.H[i][1]

HasAWGFields(x) ==
  \/ \E f \in Numbers \ {"ListenPort"} : x.n[f] # Nil
  \/ \E i \in Headers : x.H[i] # Nil
  \/ \E i \in 1 .. 5 : x.I[i] # Nil
  \/ \E i \in DOMAIN x.peers : x.peers[i].on \/ x.peers[i].off

NotSupported(c) ==
  /\ pc[c] = "set"
  /\ ~ device.isAmnezia /\ HasAWGFields(cfg[c])
  /\ Return(c, "notsupported")
  /\ UNCHANGED <<device, cfg, unread, raced>>

SetOK(c) ==
  /\ pc[c] = "set"
  /\ device.isAmnezia \/ ~ HasAWGFields(cfg[c])
  /\ KernelAccepts(Applied(device, cfg[c]))
  /\ device' = Applied(device, cfg[c])
  /\ raced' = [d \in Callers |-> raced[d] \/ (d # c /\ pc[d] = "set" /\ device' # device)]
  /\ Return(c, "ok")
  /\ UNCHANGED <<cfg, unread>>

SetFails(c) ==
  /\ pc[c] = "set"
  /\ device.isAmnezia \/ ~ HasAWGFields(cfg[c])
  /\ ~ KernelAccepts(Applied(device, cfg[c]))
  /\ Return(c, "EINVAL")
  /\ UNCHANGED <<device, cfg, unread, raced>>

\* The kernel has let pass what the device holds beforehand.
ASSUME DevicesAssumption == \A d \in Devices : d \in Device /\ KernelAccepts(d)

ConfigureDevice(c) ==
  \/ ValidateFails(c) \/ NoRead(c) \/ ReadFails(c) \/ Read(c)
  \/ NotSupported(c) \/ SetOK(c) \/ SetFails(c)

Next == \E c \in Callers : ConfigureDevice(c)

Spec == Init /\ [][Next]_vars

-----------------------------------------------------------------------------
(* Properties.                                                             *)

\* "Jc 70000 would otherwise reach the kernel as 4464 without an error": a
\* number that changes on the device is one that some caller asked for.
AsAsked ==
  [][/\ \A f \in Numbers :
          device'.n[f] # device.n[f] => \E c \in Callers : cfg[c].n[f] = device'.n[f]
     /\ device'.mark # device.mark => \E c \in Callers : cfg[c].mark = device'.mark]_vars

\* "Such a conflict is reported clearly instead of as EINVAL": the bare errno
\* comes back only for a partial update, and only if the device could not be
\* read or was changed by another caller after it was.
EinvalOnlyAfterRace ==
  \A c \in Callers :
    result[c] = "EINVAL" => PartialAWG(cfg[c]) /\ (unread[c] \/ raced[c])
=============================================================================

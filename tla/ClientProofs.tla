------------------------------ MODULE ClientProofs ------------------------------
(***************************************************************************)
(* Client, for any number of backends and any devices on them.             *)
(*                                                                         *)
(* What makes Devices right is Covered: a backend whose turn is over has   *)
(* either failed or had every device it kept looked at.  Whatever is       *)
(* appended later is then new, and no later backend can stand for an       *)
(* earlier one.  In the end the composite Client is shown to be a Backend: *)
(* every step of it is one answer of a Backend, a change of its devices,   *)
(* or nothing that a user of the interface could see.                      *)
(***************************************************************************)
EXTENDS Client, TLAPS

\* The phases of an operation.
Phases ==
  /\ pc \in {"asking", "list"} => op = "devices" /\ at <= N
  /\ pc = "read" => op = "configure"
  /\ (pc = "done") <=> (result # "none")
  /\ (op = "devices" /\ pc = "done" /\ result # "ctx") => at = N + 1

\* seen holds the names of the entries of out.
SeenIsOut == seen = {out[i][2] : i \in DOMAIN out}

\* Backends whose turn is over have no device left to be looked at.
Covered ==
  op = "devices" => \A b \in Backends : (b < at /\ b \notin failed) => stayed[b] \subseteq seen

\* Nor has the one whose turn it is, but for what it has yet to list.
Pending ==
  /\ pc = "asking" => stayed[at] \subseteq low
  /\ pc = "list" => stayed[at] \subseteq seen \union {list[i] : i \in DOMAIN list}

\* What was there all along is there.
StayedIsThere == \A b \in Backends : stayed[b] \subseteq has[b]

ListInv == /\ SeenIsOut /\ Covered /\ Pending /\ StayedIsThere
           /\ NoDuplicates /\ FirstOccurrenceKept

\* TypeOK holds initially and every step of the client and of its
\* surroundings preserves it.
LEMMA TypeInvariant == Spec => [](TypeOK /\ Phases)
<1>1. Init => TypeOK /\ Phases
  <2> SUFFICES ASSUME Init PROVE TypeOK /\ Phases
    OBVIOUS
  <2>1. /\ at \in 1 .. N + 1 /\ readFrom \in 0 .. N /\ from \in 0 .. N
        /\ list \in Seq(Names) /\ out \in Seq(Backends \X Names)
    BY NAssumption DEF Init
  <2>2. /\ pc \in {"read", "ask", "asking", "list", "done"}
        /\ result = "none" /\ Phases
    BY DEF Init, Phases
  <2> QED BY <2>1, <2>2 DEF Init, TypeOK
<1>2. TypeOK /\ Phases /\ [Next]_vars => TypeOK' /\ Phases'
  <2> SUFFICES ASSUME TypeOK, Phases, [Next]_vars PROVE TypeOK' /\ Phases'
    OBVIOUS
  <2> USE NAssumption DEF TypeOK, Phases
  <2> at <= N => at \in Backends
    BY DEF Backends
  <2>1. CASE AskForList
    BY <2>1 DEF AskForList
  <2>2. CASE Lists
    <3>1. list' \in Seq(Names)
      <4>1. PICK k \in 0 .. MaxListed : list' \in [1 .. k -> Names]
        BY <2>2 DEF Lists, Listings
      <4> QED BY <4>1, BoundsAssumption
    <3> QED BY <2>2, <3>1 DEF Lists, envVars
  <2>3. CASE ListFails
    BY <2>3 DEF ListFails, Return, envVars
  <2>4. CASE Keep
    <3>1. list \in Seq(Names) /\ list # <<>>
      BY <2>4 DEF Keep
    <3>2. Head(list) \in Names /\ Tail(list) \in Seq(Names)
      BY ONLY <3>1
    <3>3. <<at, Head(list)>> \in Backends \X Names
      BY <2>4, <3>2 DEF Keep
    <3>4. out' \in Seq(Backends \X Names)
      BY <2>4, <3>3 DEF Keep
    <3> QED BY <2>4, <3>2, <3>4 DEF Keep, envVars
  <2>5. CASE NextBackend
    BY <2>5 DEF NextBackend, envVars
  <2>6. CASE ListDone
    BY <2>6 DEF ListDone, Return, envVars
  <2>7. CASE NotThere \/ Denies \/ AppliesPart
    <3>1. /\ at \in Backends
          /\ touched' = touched \/ touched' = touched \union {at}
          /\ denied' = denied \/ denied' = denied \union {at}
      BY <2>7 DEF NotThere, Denies, AppliesPart
    <3>2. touched' \subseteq Backends /\ denied' \subseteq Backends
      BY <3>1
    <3> QED BY <2>7, <3>2 DEF NotThere, Denies, AppliesPart, envVars
  <2>8. CASE Succeeds
    <3>1. touched' \subseteq Backends
      <4>1. at \in Backends /\ (touched' = touched \/ touched' = touched \union {at})
        BY <2>8 DEF Succeeds
      <4> QED BY <4>1
    <3> QED BY <2>8, <3>1 DEF Succeeds, Return, ByName, envVars
  <2>9. CASE Fails
    BY <2>9 DEF Fails, Return, ByName, envVars
  <2>10. CASE NotFound
    BY <2>10 DEF NotFound, Return, envVars
  <2>11. CASE ReadSucceeds
    BY <2>11 DEF ReadSucceeds, Return, envVars
  <2>12. CASE ReadFails
    BY <2>12 DEF ReadFails, envVars
  <2>13. CASE CloseNext
    BY <2>13 DEF CloseNext, envVars
  <2>14. CASE CloseDone
    BY <2>14 DEF CloseDone, Return, envVars
  <2>15. CASE CtxEnds
    BY <2>15 DEF CtxEnds, envVars
  <2>16. ASSUME NEW b \in Backends, NEW n \in Names, Appears(b, n) PROVE TypeOK' /\ Phases'
    BY <2>16 DEF Appears, callVars
  <2>17. ASSUME NEW b \in Backends, NEW n \in Names, Vanishes(b, n) PROVE TypeOK' /\ Phases'
    BY <2>17 DEF Vanishes, callVars
  <2>18. CASE UNCHANGED vars
    BY <2>18 DEF vars, callVars, envVars
  <2> QED
    BY <2>1, <2>2, <2>3, <2>4, <2>5, <2>6, <2>7, <2>8, <2>9, <2>10, <2>11, <2>12,
       <2>13, <2>14, <2>15, <2>16, <2>17, <2>18 DEF Next
<1> QED BY <1>1, <1>2, PTL DEF Spec

\* Every variable has its type in every state, for any number of backends.
THEOREM TypeCorrect == Spec => []TypeOK
BY TypeInvariant, PTL

-----------------------------------------------------------------------------
(* Devices.                                                                *)

\* A list's elements are its head and those of its tail.
LEMMA HeadOrTail ==
  ASSUME NEW S, NEW l \in Seq(S), l # <<>>, NEW x \in {l[i] : i \in DOMAIN l}
  PROVE  x = Head(l) \/ x \in {Tail(l)[i] : i \in DOMAIN Tail(l)}
<1>1. PICK i \in 1 .. Len(l) : x = l[i] OBVIOUS
<1>2. CASE i = 1 BY <1>1, <1>2
<1>3. CASE i # 1
  <2>1. i - 1 \in DOMAIN Tail(l) /\ Tail(l)[i - 1] = x
    BY <1>1, <1>3
  <2> QED BY <2>1
<1> QED BY <1>2, <1>3

\* One device of a list: it is appended if it is new, and then no earlier
\* backend that did not fail has kept a device of this name.
LEMMA KeepStep ==
  ASSUME TypeOK, Phases, ListInv, Keep PROVE ListInv'
<1>0. /\ list \in Seq(Names) /\ list # <<>> /\ pc = "list" /\ pc' = "list"
      /\ at' = at /\ op' = op /\ failed' = failed /\ stayed' = stayed /\ has' = has /\ low' = low
      /\ list' = Tail(list) /\ seen' = seen \union {Head(list)}
      /\ op = "devices" /\ at \in Backends /\ N' = N
      /\ out \in Seq(Backends \X Names) /\ Head(list) \in Names
  BY NAssumption DEF Keep, TypeOK, Phases, envVars, Backends
<1>1. Pending'
  <2>1. ASSUME NEW n \in stayed[at], n \notin seen
        PROVE  n = Head(list) \/ n \in {Tail(list)[i] : i \in DOMAIN Tail(list)}
    BY <2>1, <1>0, HeadOrTail DEF ListInv, Pending
  <2> QED BY <2>1, <1>0 DEF Pending
<1>2. Covered'
  BY <1>0 DEF ListInv, Covered, Backends
<1>3. StayedIsThere'
  BY <1>0 DEF ListInv, StayedIsThere, Backends
<1>4. CASE Head(list) \in seen
  <2>1. out' = out /\ seen' = seen BY <1>0, <1>4 DEF Keep
  <2> QED BY <1>0, <1>1, <1>2, <1>3, <2>1
          DEF ListInv, SeenIsOut, NoDuplicates, FirstOccurrenceKept, Entries, Backends
<1>5. CASE Head(list) \notin seen
  <2> DEFINE e == <<at, Head(list)>>
  <2>1. out' = Append(out, e) BY <1>5 DEF Keep
  <2>2. e \in Backends \X Names /\ e[1] = at /\ e[2] = Head(list) BY <1>0
  <2> HIDE DEF e
  <2>3. /\ DOMAIN out' = 1 .. Len(out) + 1 /\ DOMAIN out = 1 .. Len(out) /\ Len(out) \in Nat
        /\ out'[Len(out) + 1] = e
        /\ \A i \in 1 .. Len(out) : out'[i] = out[i]
    BY <1>0, <2>1, <2>2
  <2>4. \A i \in 1 .. Len(out) : out[i][2] \in seen
    BY <2>3 DEF ListInv, SeenIsOut
  <2>5. SeenIsOut'
    <3>1. ASSUME NEW n \in seen PROVE \E i \in DOMAIN out' : n = out'[i][2]
      BY <2>3 DEF ListInv, SeenIsOut
    <3>2. \E i \in DOMAIN out' : Head(list) = out'[i][2]
      BY <2>2, <2>3
    <3>3. \A i \in DOMAIN out' : out'[i][2] \in seen \union {Head(list)}
      BY <2>2, <2>3, <2>4
    <3> QED BY <1>0, <3>1, <3>2, <3>3 DEF SeenIsOut
  <2>6. NoDuplicates'
    BY <1>5, <2>2, <2>3, <2>4 DEF ListInv, NoDuplicates
  <2>7. FirstOccurrenceKept'
    <3> SUFFICES ASSUME NoDuplicates', NEW i \in 1 .. Len(out) + 1, NEW b \in Backends,
                        b < out'[i][1], out'[i][2] \in stayed[b]
                 PROVE  b \in failed
      BY <1>0, <2>3, <2>6 DEF FirstOccurrenceKept, Entries, Backends
    <3>1. CASE i = Len(out) + 1
      BY <3>1, <1>0, <1>5, <2>2, <2>3 DEF ListInv, Covered
    <3>2. CASE i \in 1 .. Len(out)
      BY <3>2, <2>3 DEF ListInv, FirstOccurrenceKept, Entries
    <3> QED BY <3>1, <3>2, <2>3
  <2> QED BY <1>1, <1>2, <1>3, <2>5, <2>6, <2>7 DEF ListInv
<1> QED BY <1>4, <1>5

\* The other steps append nothing.
LEMMA ListStep ==
  TypeOK /\ Phases /\ ListInv /\ [Next]_vars => ListInv'
<1> SUFFICES ASSUME TypeOK, Phases, ListInv, [Next]_vars PROVE ListInv'
    OBVIOUS
<1> USE NAssumption DEF ListInv
<1>0. ASSUME UNCHANGED <<seen, out>>, failed \subseteq failed',
             \A b \in Backends : stayed'[b] \subseteq stayed[b]
      PROVE  SeenIsOut' /\ NoDuplicates' /\ FirstOccurrenceKept'
  BY <1>0 DEF SeenIsOut, NoDuplicates, FirstOccurrenceKept, Entries, Backends
<1>1. CASE AskForList
  <2>1. at \in Backends BY <1>1 DEF AskForList, TypeOK, Backends
  <2>2. Covered' BY <1>1 DEF AskForList, Covered, Backends
  <2>3. Pending' BY <1>1, <2>1 DEF AskForList, Pending, StayedIsThere
  <2>4. UNCHANGED <<seen, out, stayed, has>> /\ failed' = failed BY <1>1 DEF AskForList
  <2> QED BY <1>0, <2>2, <2>3, <2>4 DEF StayedIsThere, Backends
<1>2. CASE Lists
  <2>1. list' \in Listings(low, high) /\ pc = "asking" BY <1>2 DEF Lists
  <2>2. low \subseteq {list'[i] : i \in DOMAIN list'} BY <2>1 DEF Listings
  <2>3. Pending' BY <1>2, <2>2 DEF Lists, Pending, envVars
  <2> QED BY <1>0, <1>2, <2>3 DEF Lists, Covered, StayedIsThere, Backends, envVars
<1>3. CASE ListFails
  <2>1. Covered' BY <1>3 DEF ListFails, Covered, Return, TypeOK, Backends, envVars
  <2>2. Pending' BY <1>3 DEF ListFails, Pending, Return
  <2>3. UNCHANGED <<seen, out, stayed, has>> /\ failed \subseteq failed'
    BY <1>3 DEF ListFails, envVars
  <2> QED BY <1>0, <2>1, <2>2, <2>3 DEF StayedIsThere, Backends
<1>4. CASE Keep BY <1>4, KeepStep
<1>5. CASE NextBackend
  <2>1. stayed[at] \subseteq seen BY <1>5 DEF NextBackend, Pending
  <2>2. Covered'
    <3>1. at \in Nat /\ at' = at + 1 /\ UNCHANGED <<op, seen, failed, stayed>>
      BY <1>5 DEF NextBackend, TypeOK, envVars
    <3>2. \A b \in Backends : b < at + 1 => b < at \/ b = at
      BY <3>1 DEF Backends
    <3> QED BY <2>1, <3>1, <3>2 DEF Covered, Backends
  <2>3. Pending' BY <1>5 DEF NextBackend, Pending
  <2> QED BY <1>0, <1>5, <2>2, <2>3 DEF NextBackend, StayedIsThere, Backends, envVars
<1>6. CASE ListDone \/ NotFound \/ CloseDone \/ Succeeds
  BY <1>0, <1>6 DEF ListDone, NotFound, CloseDone, Succeeds, Return, Covered, Pending,
                    StayedIsThere, Backends, envVars
<1>7. CASE AppliesPart \/ NotThere \/ Denies \/ ReadSucceeds \/ ReadFails \/ Fails \/ CloseNext
  <2>1. op # "devices" /\ op' = op /\ pc' \notin {"asking", "list"}
    BY <1>7 DEF AppliesPart, NotThere, Denies, ReadSucceeds, ReadFails, Fails, CloseNext,
                Return, ByName, Phases
  <2>2. UNCHANGED <<seen, out, stayed, has>> /\ failed \subseteq failed'
    BY <1>7 DEF AppliesPart, NotThere, Denies, ReadSucceeds, ReadFails, Fails, CloseNext, envVars
  <2> QED BY <1>0, <2>1, <2>2 DEF Covered, Pending, StayedIsThere, Backends
<1>8. CASE CtxEnds
  BY <1>0, <1>8 DEF CtxEnds, Covered, Pending, StayedIsThere, Backends, envVars
<1>9. ASSUME NEW b \in Backends, NEW n \in Names, Appears(b, n) PROVE ListInv'
  <2>1. /\ \A c \in Backends : has[c] \subseteq has'[c]
        /\ UNCHANGED <<callVars, low, stayed>>
    BY <1>9 DEF Appears, TypeOK
  <2>2. StayedIsThere' BY <2>1 DEF StayedIsThere, Backends
  <2> QED BY <1>0, <2>1, <2>2 DEF callVars, Covered, Pending, Backends
<1>10. ASSUME NEW b \in Backends, NEW n \in Names, Vanishes(b, n) PROVE ListInv'
  <2>1. /\ \A c \in Backends : stayed'[c] = IF c = b THEN stayed[c] \ {n} ELSE stayed[c]
        /\ \A c \in Backends : has'[c] = IF c = b THEN has[c] \ {n} ELSE has[c]
        /\ low' = IF b = at THEN low \ {n} ELSE low
        /\ UNCHANGED callVars
    BY <1>10 DEF Vanishes, TypeOK
  <2>2. at \in Backends \/ pc \notin {"asking", "list"}
    BY DEF Phases, TypeOK, Backends
  <2>3. UNCHANGED <<op, pc, at, list, seen, out>> /\ failed' = failed
    BY <2>1 DEF callVars
  <2>4. \A c \in Backends : stayed'[c] \subseteq stayed[c] BY <2>1
  <2>5. Pending'
    <3>1. CASE pc = "asking"
      <4>1. at \in Backends /\ stayed[at] \subseteq low BY <3>1, <2>2 DEF Pending
      <4>2. stayed'[at] \subseteq low' BY <4>1, <2>1
      <4> QED BY <3>1, <4>2, <2>3 DEF Pending
    <3>2. CASE pc = "list"
      <4>1. /\ at \in Backends
            /\ stayed[at] \subseteq seen \union {list[i] : i \in DOMAIN list}
        BY <3>2, <2>2 DEF Pending
      <4>2. stayed'[at] \subseteq seen \union {list[i] : i \in DOMAIN list}
        BY <4>1, <2>4
      <4> QED BY <3>2, <4>2, <2>3 DEF Pending
    <3> QED BY <3>1, <3>2, <2>3 DEF Pending
  <2>6. Covered' BY <2>3, <2>4 DEF Covered, Backends
  <2>7. StayedIsThere' BY <2>1 DEF StayedIsThere, Backends
  <2> QED BY <1>0, <2>3, <2>4, <2>5, <2>6, <2>7
<1>11. CASE UNCHANGED vars
  BY <1>0, <1>11 DEF vars, callVars, envVars, Covered, Pending, StayedIsThere, Backends
<1> QED BY <1>1, <1>2, <1>3, <1>4, <1>5, <1>6, <1>7, <1>8, <1>9, <1>10, <1>11 DEF Next

\* The invariant behind the theorems about Devices.
LEMMA ListInvariant == Spec => [](TypeOK /\ Phases /\ ListInv)
<1>1. Init => ListInv
  BY DEF Init, ListInv, SeenIsOut, Covered, Pending, StayedIsThere, NoDuplicates,
         FirstOccurrenceKept, Entries, Backends
<1> QED BY <1>1, TypeInvariant, ListStep, PTL DEF Spec

\* Devices never returns two devices of one name, however many backends
\* report it and however often.
THEOREM EachNameOnce == Spec => []NoDuplicates
BY ListInvariant, PTL DEF ListInv

\* The device kept is the first backend's that had it all along and did not
\* fail.
THEOREM FirstKept == Spec => []FirstOccurrenceKept
BY ListInvariant, PTL DEF ListInv

\* What fails on one backend takes nothing away from the others.
THEOREM NothingHidden == Spec => []FailureHidesNothing
<1>1. TypeOK /\ Phases /\ ListInv => FailureHidesNothing
  <2> SUFFICES ASSUME TypeOK, Phases, ListInv, op = "devices", pc = "done", result # "ctx",
                      NEW b \in Backends \ failed, NEW n \in stayed[b]
               PROVE  \E e \in Entries : e[2] = n
    BY DEF FailureHidesNothing
  <2>1. b < at BY NAssumption DEF Phases, Backends
  <2>2. n \in seen BY <2>1 DEF ListInv, Covered
  <2> QED BY <2>2 DEF ListInv, SeenIsOut, Entries
<1> QED BY <1>1, ListInvariant, PTL

-----------------------------------------------------------------------------
(* Device, ConfigureDevice and Close.                                      *)

\* Backends whose turn is over did not have the device all along, or they have
\* denied it.
Passed ==
  ByName => \A b \in Backends : (b < at /\ b \notin denied) => name \notin stayed[b]

\* The call ends at the backend whose turn it is, and has changed nothing behind
\* it; the read changes nothing at all.
EndsAt ==
  /\ pc # "done" => from = 0
  /\ pc = "read" => touched = {}
  /\ from # 0 => from = at
  /\ \A b \in touched : b <= at
  /\ (ByName /\ result = "notexist") => at = N + 1

NameInv == StayedIsThere /\ Passed /\ EndsAt

\* Every step of Device and ConfigureDevice preserves NameInv, and the others
\* do not touch what it speaks of.
LEMMA NameStep ==
  TypeOK /\ Phases /\ NameInv /\ [Next]_vars => NameInv'
<1> SUFFICES ASSUME TypeOK, Phases, NameInv, [Next]_vars PROVE NameInv'
    OBVIOUS
<1> USE NAssumption DEF NameInv
<1>0. ASSUME UNCHANGED <<has, stayed>> PROVE StayedIsThere'
  BY <1>0 DEF StayedIsThere, Backends
<1>1. CASE AskForList \/ Lists \/ ListFails \/ Keep \/ NextBackend \/ ListDone
           \/ CloseNext \/ CloseDone
  <2>1. /\ ~ ByName /\ ~ ByName' /\ pc # "done"
        /\ UNCHANGED <<has, stayed, from, touched>> /\ pc' # "read"
        /\ at' = at \/ at' = at + 1
    BY <1>1 DEF AskForList, Lists, ListFails, Keep, NextBackend, ListDone, CloseNext,
                CloseDone, Return, ByName, Phases, envVars
  <2> QED BY <1>0, <2>1 DEF Passed, EndsAt, TypeOK, Backends
<1>2. CASE NotThere \/ Denies
  <2>1. /\ at \in Backends
        /\ name \notin stayed[at] \/ at \in denied'
        /\ denied \subseteq denied'
        /\ at' = at + 1 /\ pc' = pc /\ pc # "done" /\ result' = result
        /\ UNCHANGED <<op, name, has, stayed, from, touched>>
    BY <1>2 DEF NotThere, Denies, StayedIsThere, TypeOK, Backends, envVars
  <2>2. Passed' BY <2>1 DEF Passed, ByName, TypeOK, Backends
  <2>3. EndsAt' BY <2>1 DEF EndsAt, Phases, TypeOK, Backends
  <2> QED BY <1>0, <2>1, <2>2, <2>3
<1>3. CASE AppliesPart \/ Succeeds \/ Fails \/ NotFound
  <2>1. /\ UNCHANGED <<op, name, at, has, stayed, denied>>
        /\ pc = "ask" /\ N' = N
        /\ (pc' = "done" /\ from' \in {from, at}) \/ (pc' = pc /\ from' = from)
        /\ touched' \subseteq touched \union {at}
        /\ result' = "notexist" => (at = N + 1 \/ result' = result)
    BY <1>3 DEF AppliesPart, Succeeds, Fails, NotFound, Return, envVars
  <2> QED BY <1>0, <2>1 DEF Passed, EndsAt, ByName, Backends, TypeOK
<1>4. CASE ReadSucceeds \/ ReadFails
  <2>1. /\ UNCHANGED <<op, name, has, stayed, from, touched, denied>> /\ pc = "read"
        /\ at' = 1 \/ at' = at
        /\ result' # "notexist"
    BY <1>4 DEF ReadSucceeds, ReadFails, Return, Phases, envVars
  <2>2. Passed' BY <2>1 DEF Passed, ByName, Backends
  <2>3. EndsAt' BY <2>1 DEF EndsAt
  <2> QED BY <1>0, <2>1, <2>2, <2>3
<1>5. CASE CtxEnds
  BY <1>0, <1>5 DEF CtxEnds, Passed, EndsAt, ByName, Backends, envVars
<1>6. ASSUME NEW b \in Backends, NEW n \in Names, Appears(b, n) \/ Vanishes(b, n)
      PROVE  NameInv'
  <2>1. /\ \A c \in Backends : stayed'[c] \subseteq stayed[c] /\ stayed'[c] \subseteq has'[c]
        /\ UNCHANGED callVars
    BY <1>6 DEF Appears, Vanishes, TypeOK, StayedIsThere
  <2> QED BY <2>1 DEF StayedIsThere, Passed, EndsAt, ByName, Backends, callVars
<1>7. CASE UNCHANGED vars
  BY <1>0, <1>7 DEF vars, callVars, envVars, Passed, EndsAt, ByName, Backends
<1> QED BY <1>1, <1>2, <1>3, <1>4, <1>5, <1>6, <1>7 DEF Next

\* The invariant behind the theorems about Device and ConfigureDevice.
LEMMA NameInvariant == Spec => [](TypeOK /\ Phases /\ NameInv)
<1>1. Init => NameInv
  BY DEF Init, NameInv, StayedIsThere, Passed, EndsAt, Backends
<1> QED BY <1>1, TypeInvariant, NameStep, PTL DEF Spec

\* os.ErrNotExist is never returned for a device that some backend had all
\* along and did not deny.
THEOREM NotExistCorrect == Spec => []NotExistIsTrue
<1>1. TypeOK /\ NameInv => NotExistIsTrue
  BY NAssumption DEF NameInv, Passed, EndsAt, NotExistIsTrue, Backends
<1> QED BY <1>1, NameInvariant, PTL

\* Device and ConfigureDevice end at the first backend that has the device and
\* does not deny it.
THEOREM FirstCorrect == Spec => []FirstIsMeant
<1>1. TypeOK /\ NameInv => FirstIsMeant
  BY DEF NameInv, Passed, EndsAt, FirstIsMeant
<1> QED BY <1>1, NameInvariant, PTL

\* When ConfigureDevice goes on to a second device, at whatever point the first
\* backend stopped, then only because the first device went, or was denied.
THEOREM OneDeviceTouched == Spec => []OneTouched
<1>1. TypeOK /\ Phases /\ NameInv /\ (touched # {} => ByName) => OneTouched
  <2> SUFFICES ASSUME TypeOK, NameInv, touched # {} => ByName,
                      NEW b \in touched, NEW c \in touched, b < c, b \notin denied
               PROVE  name \notin stayed[b]
    BY DEF OneTouched
  <2>1. b \in Backends /\ c \in Backends /\ c <= at
    BY DEF TypeOK, NameInv, EndsAt
  <2>2. b < at
    BY <2>1, NAssumption DEF TypeOK, Backends
  <2> QED BY <2>1, <2>2 DEF NameInv, Passed
<1>2. Init => (touched # {} => ByName)
  BY DEF Init
<1>3. (touched # {} => ByName) /\ [Next]_vars => (touched # {} => ByName)'
  BY DEF Next, AskForList, Lists, ListFails, Keep, NextBackend, ListDone, AppliesPart, NotThere,
         Denies, Succeeds, Fails, NotFound, ReadSucceeds, ReadFails, CloseNext, CloseDone,
         CtxEnds, Appears, Vanishes, ByName, vars, callVars
<1> QED BY <1>1, <1>2, <1>3, NameInvariant, PTL DEF Spec

\* The device that a partial update was read from still has the name, and the
\* backends before it do not.
Checked ==
  changes = 0 /\ denied = {} =>
    /\ stayed = has
    /\ readFrom # 0 =>
         /\ name \in has[readFrom]
         /\ \A b \in Backends : b < readFrom => name \notin has[b]
         /\ touched \subseteq {readFrom}

\* The update that was checked reaches the device it was checked against, as
\* long as no device comes or goes and no backend denies one.
THEOREM CheckedCorrect == Spec => []CheckedIsChanged
<1>1. Init => Checked
  BY DEF Init, Checked
<1>2. TypeOK /\ Phases /\ NameInv /\ Checked /\ [Next]_vars => Checked'
  <2> SUFFICES ASSUME TypeOK, Phases, NameInv, Checked, [Next]_vars PROVE Checked'
    OBVIOUS
  <2> USE NAssumption
  <2>1. CASE ReadSucceeds
    <3>1. /\ at \in Backends /\ readFrom' = at /\ name \in has[at] /\ ByName /\ touched = {}
          /\ UNCHANGED <<name, has, stayed, changes, touched, denied>>
      BY <2>1 DEF ReadSucceeds, TypeOK, Phases, NameInv, EndsAt, ByName, Backends, envVars
    <3> QED BY <3>1 DEF Checked, NameInv, Passed, Backends
  <2>2. CASE AppliesPart \/ Succeeds
    <3>1. pc = "ask" /\ ByName /\ at \in Backends /\ name \in has[at]
      BY <2>2 DEF AppliesPart, Succeeds, TypeOK, Backends, ByName
    <3>2. /\ touched' \subseteq touched \union {at}
          /\ UNCHANGED <<name, readFrom, has, stayed, changes, denied>>
      BY <2>2 DEF AppliesPart, Succeeds, envVars
    <3>3. ASSUME changes = 0, denied = {}, readFrom # 0 PROVE at = readFrom
      <4>1. readFrom \in Backends /\ name \in has[readFrom] /\ stayed = has
        BY <3>3 DEF Checked, TypeOK, Backends
      <4>2. ~ (readFrom < at) BY <3>1, <3>3, <4>1 DEF NameInv, Passed
      <4>3. ~ (at < readFrom) BY <3>1, <3>3, <4>1 DEF Checked
      <4> QED BY <3>1, <4>1, <4>2, <4>3 DEF Backends
    <3> QED BY <3>2, <3>3 DEF Checked, Backends
  <2>3. CASE AskForList \/ Lists \/ ListFails \/ Keep \/ NextBackend \/ ListDone
             \/ NotThere \/ Denies \/ Fails \/ NotFound \/ ReadFails \/ CloseNext
             \/ CloseDone \/ CtxEnds
    <3>1. UNCHANGED <<name, readFrom, has, stayed, changes, touched>> /\ denied \subseteq denied'
      BY <2>3 DEF AskForList, Lists, ListFails, Keep, NextBackend, ListDone, NotThere, Denies,
                  Fails, NotFound, ReadFails, CloseNext, CloseDone, CtxEnds, envVars
    <3> QED BY <3>1 DEF Checked, Backends
  <2>4. ASSUME NEW b \in Backends, NEW n \in Names, Appears(b, n) \/ Vanishes(b, n)
        PROVE  Checked'
    <3>1. changes' = changes + 1 /\ changes \in Nat
      BY <2>4 DEF Appears, Vanishes, TypeOK
    <3> QED BY <3>1 DEF Checked
  <2>5. CASE UNCHANGED vars
    BY <2>5 DEF vars, callVars, envVars, Checked, Backends
  <2> QED BY <2>1, <2>2, <2>3, <2>4, <2>5 DEF Next
<1>3. Checked => CheckedIsChanged
  BY DEF Checked, CheckedIsChanged
<1> QED BY <1>1, <1>2, <1>3, NameInvariant, PTL DEF Spec

\* The errors that are joined, and the backends that Close has come to.
Joined ==
  /\ (op \in {"devices", "close"} /\ result # "ctx") => errs = failed
  /\ (op \in {"devices", "close"} /\ result = "ok") => errs = {}
  /\ (op \in {"devices", "close"} /\ result = "error") => errs # {}
  /\ (op \in {"devices", "close"}) => result \in {"none", "ok", "error", "ctx"}
  /\ op = "close" => /\ closed = {b \in Backends : b < at}
                     /\ pc = "done" => at = N + 1

\* The errors and the closed backends go with the position in the loop.
LEMMA JoinedInvariant == Spec => [](TypeOK /\ Phases /\ Joined)
<1>1. Init => Joined
  BY DEF Init, Joined, Backends
<1>2. TypeOK /\ Phases /\ Joined /\ [Next]_vars => Joined'
  <2> SUFFICES ASSUME TypeOK, Phases, Joined, [Next]_vars PROVE Joined'
    OBVIOUS
  <2> USE NAssumption DEF Joined
  <2>1. CASE AskForList \/ Lists \/ Keep \/ NextBackend \/ CtxEnds
    BY <2>1 DEF AskForList, Lists, Keep, NextBackend, CtxEnds, Phases, Backends
  <2>2. CASE ListFails
    <3>1. op = "devices" /\ result = "none" BY <2>2 DEF ListFails, Phases
    <3> QED BY <2>2, <3>1 DEF ListFails, Return
  <2>3. CASE ListDone \/ CloseDone
    BY <2>3 DEF ListDone, CloseDone, Return, Phases, Backends
  <2>4. CASE AppliesPart \/ NotThere \/ Denies \/ Succeeds \/ Fails \/ NotFound
             \/ ReadSucceeds \/ ReadFails
    <3>1. op \notin {"devices", "close"} /\ op' = op
      BY <2>4 DEF AppliesPart, NotThere, Denies, Succeeds, Fails, NotFound, ReadSucceeds,
                  ReadFails, ByName, Phases
    <3> QED BY <3>1
  <2>5. CASE CloseNext
    <3>1. /\ at' = at + 1 /\ closed' = closed \union {at} /\ pc' = "ask" /\ pc = "ask"
          /\ op = "close" /\ op' = op /\ result' = result
      BY <2>5 DEF CloseNext
    <3>2. at \in Backends BY <2>5 DEF CloseNext, TypeOK, Backends
    <3>3. result = "none" BY <3>1 DEF Phases
    <3>4. errs = failed BY <3>1, <3>3
    <3>5. errs' = failed' BY <2>5, <3>4 DEF CloseNext
    <3>6. closed = {b \in Backends : b < at} BY <3>1
    <3>7. closed' = {b \in Backends : b < at + 1} BY <3>1, <3>2, <3>6 DEF Backends
    <3> QED BY <3>1, <3>3, <3>5, <3>7 DEF Backends
  <2>6. ASSUME NEW b \in Backends, NEW n \in Names, Appears(b, n) \/ Vanishes(b, n)
        PROVE  Joined'
    BY <2>6 DEF Appears, Vanishes, callVars, Backends
  <2>7. CASE UNCHANGED vars
    BY <2>7 DEF vars, callVars, Backends
  <2> QED BY <2>1, <2>2, <2>3, <2>4, <2>5, <2>6, <2>7 DEF Next
<1> QED BY <1>1, <1>2, TypeInvariant, PTL DEF Spec

\* Devices and Close forget no backend's error and invent none.
THEOREM ErrorsCorrect == Spec => []ErrorsJoined
<1>1. Phases /\ Joined => ErrorsJoined
  BY DEF Phases, Joined, ErrorsJoined
<1> QED BY <1>1, JoinedInvariant, PTL

\* Close closes every backend, whatever the ones before it returned.
THEOREM CloseCorrect == Spec => []AllClosed
<1>1. TypeOK /\ Joined => AllClosed
  <2> SUFFICES ASSUME TypeOK, Joined, op = "close", pc = "done" PROVE closed = Backends
    BY DEF AllClosed
  <2>1. closed = {b \in Backends : b < N + 1} BY DEF Joined
  <2> QED BY <2>1, NAssumption DEF Backends
<1> QED BY <1>1, JoinedInvariant, PTL

-----------------------------------------------------------------------------
(* The refinement.  What was there all along is not left out; what is left *)
(* is that nothing is made up, which is FoundWasThere.                     *)

\* Whatever is listed, kept or found was on its backend at some time.
FoundWasThere ==
  /\ \A b \in Backends : has[b] \subseteq ever[b]
  /\ pc = "asking" => high \subseteq ever[at]
  /\ pc = "list" => {list[i] : i \in DOMAIN list} \subseteq ever[at]
  /\ \A i \in DOMAIN out : out[i][2] \in ever[out[i][1]]
  /\ from # 0 => name \in ever[from]

\* Only a call by name that succeeds ends at a backend.
EndsWell == from # 0 => ByName /\ result = "ok"

\* The devices that were there at some time only become more.
LEMMA EverGrows ==
  ASSUME TypeOK, FoundWasThere,
         \A b \in Backends : ever[b] \subseteq ever'[b] /\ has'[b] \subseteq ever'[b],
         UNCHANGED callVars,
         at \in Backends => high' \subseteq high \union ever'[at],
         pc \in {"asking", "list"} => at \in Backends
  PROVE  FoundWasThere'
<1>1. ASSUME NEW i \in DOMAIN out PROVE out[i][1] \in Backends
  BY DEF TypeOK
<1>2. from # 0 => from \in Backends
  BY NAssumption DEF TypeOK, Backends
<1>3. UNCHANGED <<pc, at, list, out, from, name>>
  BY DEF callVars
<1> QED BY <1>1, <1>2, <1>3 DEF FoundWasThere, Backends

\* Every step preserves FoundWasThere.
LEMMA FoundStep ==
  TypeOK /\ Phases /\ NameInv /\ FoundWasThere /\ EndsWell /\ [Next]_vars
  => FoundWasThere' /\ EndsWell'
<1> SUFFICES ASSUME TypeOK, Phases, NameInv, FoundWasThere, EndsWell, [Next]_vars
             PROVE  FoundWasThere' /\ EndsWell'
  OBVIOUS
<1> USE NAssumption
<1>0. ASSUME UNCHANGED <<op, name, has, ever, out, from>>,
             (pc' = "done" /\ pc # "done") \/ result' = result,
             pc' \notin {"asking", "list"}
      PROVE  FoundWasThere' /\ EndsWell'
  BY <1>0 DEF FoundWasThere, EndsWell, ByName, Backends, NameInv, EndsAt
<1>1. CASE AskForList
  BY <1>1 DEF AskForList, FoundWasThere, EndsWell, ByName, Backends, TypeOK
<1>2. CASE Lists
  <2>1. list' \in Listings(low, high) /\ pc = "asking" BY <1>2 DEF Lists
  <2>2. {list'[i] : i \in DOMAIN list'} \subseteq high BY <2>1 DEF Listings
  <2> QED BY <1>2, <2>1, <2>2 DEF Lists, FoundWasThere, EndsWell, ByName, Backends, envVars
<1>3. CASE Keep
  <2>1. /\ list \in Seq(Names) /\ list # <<>> /\ pc = "list" /\ pc' = "list" /\ list' = Tail(list)
        /\ UNCHANGED <<op, name, at, from, result, has, ever>>
        /\ out \in Seq(Backends \X Names) /\ at \in Backends
        /\ out' = out \/ out' = Append(out, <<at, Head(list)>>)
    BY <1>3 DEF Keep, TypeOK, Phases, envVars, Backends
  <2>2. Head(list) \in ever[at] /\ \A i \in DOMAIN Tail(list) : Tail(list)[i] \in ever[at]
    <3>1. \A i \in DOMAIN list : list[i] \in ever[at]
      BY <2>1 DEF FoundWasThere
    <3>2. \A i \in DOMAIN Tail(list) : Tail(list)[i] = list[i + 1] /\ i + 1 \in DOMAIN list
      BY <2>1
    <3>3. Head(list) = list[1] /\ 1 \in DOMAIN list
      BY <2>1
    <3> QED BY <3>1, <3>2, <3>3
  <2>3. \A i \in DOMAIN out' : out'[i][2] \in ever[out'[i][1]]
    <3>1. CASE out' = out BY <3>1 DEF FoundWasThere
    <3>2. CASE out' = Append(out, <<at, Head(list)>>)
      <4>1. \A i \in DOMAIN out' : \/ i \in DOMAIN out /\ out'[i] = out[i]
                                   \/ out'[i] = <<at, Head(list)>>
        BY <2>1, <3>2
      <4> QED BY <2>2, <4>1 DEF FoundWasThere
    <3> QED BY <2>1, <3>1, <3>2
  <2> QED BY <2>1, <2>2, <2>3 DEF FoundWasThere, EndsWell, ByName, Backends
<1>4. CASE ListFails \/ NextBackend \/ ListDone \/ AppliesPart \/ NotThere \/ Denies \/ NotFound
           \/ Fails \/ ReadSucceeds \/ ReadFails \/ CloseNext \/ CloseDone
  <2>1. /\ UNCHANGED <<op, name, has, ever, out, from>>
        /\ pc # "done"
        /\ pc' = "done" \/ result' = result
        /\ pc' \notin {"asking", "list"}
    BY <1>4 DEF ListFails, NextBackend, ListDone, AppliesPart, NotThere, Denies, NotFound, Fails,
                ReadSucceeds, ReadFails, CloseNext, CloseDone, Return, envVars
  <2> QED BY <1>0, <2>1
<1>5. CASE Succeeds
  <2>1. /\ at \in Backends /\ ByName /\ name \in has[at] /\ from' = at
        /\ pc' = "done" /\ result' = "ok"
        /\ UNCHANGED <<op, name, has, ever, out>>
    BY <1>5 DEF Succeeds, Return, TypeOK, Backends, envVars
  <2> QED BY <2>1 DEF FoundWasThere, EndsWell, ByName, Backends
<1>6. CASE CtxEnds
  BY <1>6 DEF CtxEnds, envVars, FoundWasThere, EndsWell, ByName, Backends
<1>7. ASSUME NEW b \in Backends, NEW n \in Names, Appears(b, n) \/ Vanishes(b, n)
      PROVE  FoundWasThere' /\ EndsWell'
  <2>1. /\ UNCHANGED callVars
        /\ \A c \in Backends : ever[c] \subseteq ever'[c] /\ has'[c] \subseteq ever'[c]
        /\ at \in Backends => high' \subseteq high \union ever'[at]
    BY <1>7 DEF Appears, Vanishes, TypeOK, FoundWasThere
  <2>2. pc \in {"asking", "list"} => at \in Backends
    BY DEF Phases, TypeOK, Backends
  <2>3. EndsWell' BY <2>1 DEF EndsWell, ByName, callVars
  <2> QED BY <2>1, <2>2, <2>3, EverGrows
<1>8. CASE UNCHANGED vars
  BY <1>8 DEF vars, callVars, envVars, FoundWasThere, EndsWell, ByName, Backends
<1> QED BY <1>1, <1>2, <1>3, <1>4, <1>5, <1>6, <1>7, <1>8 DEF Next

\* The invariant behind the refinement.
RefinementInv == TypeOK /\ Phases /\ ListInv /\ NameInv /\ Joined /\ FoundWasThere /\ EndsWell

LEMMA RefinementInvariant == Spec => []RefinementInv
<1>1. Init => FoundWasThere /\ EndsWell
  BY DEF Init, FoundWasThere, EndsWell
<1> QED BY <1>1, FoundStep, ListInvariant, NameInvariant, JoinedInvariant, PTL
        DEF Spec, RefinementInv

-----------------------------------------------------------------------------
(* The steps.                                                              *)

\* What a user of the interface does not see.
LEMMA Silent ==
  ASSUME UNCHANGED <<op, name, has, stayed, ever, from, result, denied>>, result = "none"
  PROVE  UNCHANGED B!vars
BY DEF B!vars, DevicesOf, Backends

\* The devices change: those that stayed are those that still do, and those
\* that were there are joined by those that are.
LEMMA ChangeStep ==
  ASSUME RefinementInv, RefinementInv', NEW b \in Backends, NEW n \in Names,
         Appears(b, n) \/ Vanishes(b, n)
  PROVE  B!Change
<1>1. /\ UNCHANGED callVars
      /\ \A c \in Backends : stayed'[c] = stayed[c] \intersect has'[c]
      /\ \A c \in Backends : ever'[c] = ever[c] \union has'[c]
  BY DEF Appears, Vanishes, RefinementInv, TypeOK, NameInv, StayedIsThere, FoundWasThere
<1>2. DevicesOf(stayed') = DevicesOf(stayed) \intersect DevicesOf(has')
  BY <1>1 DEF DevicesOf
<1>3. DevicesOf(ever') = DevicesOf(ever) \union DevicesOf(has')
  BY <1>1 DEF DevicesOf
<1>4. UNCHANGED <<op, name, result, from, out, denied>>
  BY <1>1 DEF callVars
<1>5. B!Named(DevicesOf(has')) \subseteq Names /\ name \in Names
  BY DEF B!Named, DevicesOf, RefinementInv, TypeOK
<1>6. DevicesOf(has)' = DevicesOf(has') /\ DevicesOf(stayed)' = DevicesOf(stayed')
      /\ DevicesOf(ever)' = DevicesOf(ever')
  BY DEF DevicesOf, Backends
<1> QED BY <1>2, <1>3, <1>4, <1>5, <1>6 DEF B!Change, Entries

\* A backend that denies its device: the name counts as hidden from then on.
LEMMA DenyStep ==
  ASSUME RefinementInv, RefinementInv', Denies
  PROVE  B!Change
<1>1. /\ UNCHANGED <<op, name, has, stayed, ever, from, result, out>>
      /\ result = "none" /\ name \in Names
  BY DEF Denies, RefinementInv, Phases, TypeOK, envVars
<1>2. DevicesOf(has)' = DevicesOf(has) /\ DevicesOf(stayed)' = DevicesOf(stayed)
      /\ DevicesOf(ever)' = DevicesOf(ever)
  BY <1>1 DEF DevicesOf, Backends
<1>3. /\ DevicesOf(stayed) = DevicesOf(stayed) \intersect DevicesOf(has)
      /\ DevicesOf(ever) = DevicesOf(ever) \union DevicesOf(has)
  BY DEF DevicesOf, RefinementInv, ListInv, StayedIsThere, FoundWasThere
<1>4. B!Named(DevicesOf(has)) \subseteq Names
  BY DEF B!Named, DevicesOf
<1> QED BY <1>1, <1>2, <1>3, <1>4 DEF B!Change, Entries

\* An answer leaves the devices alone.
LEMMA AnswerStep ==
  ASSUME NEW res, UNCHANGED <<op, name, has, stayed, ever, denied>>, result = "none",
         result' = res \/ (res = "error" /\ result' \in {"ctx", "invalid"}),
         res \in {"ok", "notexist", "error"}
  PROVE  B!Answer(res)
BY DEF B!Answer, B!Begun, DevicesOf, Backends

\* The entries kept are devices that were there at some time.
LEMMA EntriesWereThere ==
  ASSUME TypeOK, FoundWasThere
  PROVE  {<<e[2], e[1]>> : e \in Entries} \subseteq DevicesOf(ever)
<1>1. ASSUME NEW i \in DOMAIN out PROVE <<out[i][2], out[i][1]>> \in DevicesOf(ever)
  <2>1. out[i] \in Backends \X Names BY DEF TypeOK
  <2>2. out[i][2] \in ever[out[i][1]] BY DEF FoundWasThere
  <2> QED BY <2>1, <2>2 DEF DevicesOf
<1> QED BY <1>1 DEF Entries

\* The end of Devices.
LEMMA ListDoneStep ==
  ASSUME RefinementInv, RefinementInv', ListDone
  PROVE  B!Lists \/ B!Fails
<1>1. /\ op = "devices" /\ result = "none" /\ at = N + 1
      /\ UNCHANGED <<op, name, has, stayed, ever, out, from, denied>>
      /\ result' = IF errs = {} THEN "ok" ELSE "error"
  BY DEF ListDone, Return, RefinementInv, Phases, envVars
<1>2. {<<e[2], e[1]>> : e \in Entries}' \subseteq DevicesOf(ever')
  BY <1>1, EntriesWereThere DEF RefinementInv, Entries
<1>3. DevicesOf(stayed)' = DevicesOf(stayed) /\ DevicesOf(ever)' = DevicesOf(ever)
      /\ DevicesOf(ever') = DevicesOf(ever)
  BY <1>1 DEF DevicesOf, Backends
<1>4. CASE errs = {}
  <2>1. failed = {} BY <1>1, <1>4 DEF RefinementInv, Joined
  <2>2. ASSUME NEW b \in Backends, NEW n \in stayed[b] PROVE \E e \in Entries : e[2] = n
    <3>1. n \in seen
      BY <1>1, <2>1, <2>2, NAssumption DEF RefinementInv, ListInv, Covered, Backends
    <3> QED BY <3>1 DEF RefinementInv, ListInv, SeenIsOut, Entries
  <2>3. B!Named(DevicesOf(stayed)) \subseteq B!Named({<<e[2], e[1]>> : e \in Entries})
    <3>1. ASSUME NEW d \in DevicesOf(stayed)
          PROVE  \E c \in {<<e[2], e[1]>> : e \in Entries} : c[1] = d[1]
      <4>1. PICK e \in Entries : e[2] = d[1] BY <2>2 DEF DevicesOf
      <4>2. <<e[2], e[1]>>[1] = d[1] BY <4>1
      <4> QED BY <4>2
    <3> QED BY <3>1 DEF B!Named
  <2>4. B!Answer("ok") BY <1>1, <1>4, AnswerStep
  <2>5. Entries' = Entries BY <1>1 DEF Entries
  <2> QED BY <1>1, <1>2, <1>3, <1>4, <2>3, <2>4, <2>5 DEF B!Lists
<1>5. CASE errs # {}
  <2>1. B!Answer("error") BY <1>1, <1>5, AnswerStep
  <2> QED BY <1>1, <1>2, <1>3, <1>5, <2>1 DEF B!Fails
<1> QED BY <1>4, <1>5

\* The other ends of a call.
LEMMA EndStep ==
  ASSUME RefinementInv, RefinementInv',
         Succeeds \/ Fails \/ NotFound \/ CloseDone
         \/ (ReadSucceeds /\ pc' = "done") \/ (ListFails /\ pc' = "done")
  PROVE  B!Finds \/ B!NotExist \/ B!Fails \/ B!Closes
<1> USE NAssumption
<1>1. result = "none" /\ from = 0 /\ UNCHANGED <<op, name, has, stayed, ever, denied>>
  BY DEF Succeeds, Fails, NotFound, CloseDone, ReadSucceeds, ListFails, RefinementInv,
         Phases, NameInv, EndsAt, envVars
<1>2. DevicesOf(stayed)' = DevicesOf(stayed) /\ DevicesOf(ever)' = DevicesOf(ever)
      /\ DevicesOf(ever') = DevicesOf(ever)
  BY <1>1 DEF DevicesOf, Backends
<1>3. CASE Succeeds
  <2>1. /\ op \in {"device", "configure"} /\ result' = "ok" /\ from' = at /\ at \in Backends
        /\ name \in has[at] /\ name \in Names
    BY <1>3 DEF Succeeds, Return, ByName, RefinementInv, TypeOK, Backends
  <2>2. <<name, at>> \in DevicesOf(ever)
    BY <2>1 DEF DevicesOf, RefinementInv, FoundWasThere
  <2>3. B!Answer("ok") BY <1>1, <2>1, AnswerStep
  <2>4. at # 0 /\ name' = name BY <1>1, <2>1 DEF Backends
  <2>5. {<<name', b>> : b \in {from'} \ {0}} = {<<name, at>>} BY <2>1, <2>4
  <2> QED BY <1>1, <1>2, <2>1, <2>2, <2>3, <2>4, <2>5 DEF B!Finds
<1>4. CASE NotFound
  <2>1. /\ op \in {"device", "configure"} /\ result' = "notexist" /\ from' = 0 /\ at = N + 1
    BY <1>1, <1>4 DEF NotFound, Return, ByName
  <2>2. \A b \in Backends : b \notin denied => name \notin stayed[b]
    BY <1>4, <2>1 DEF NotFound, RefinementInv, NameInv, Passed, Backends
  <2>3. name \in B!Named(DevicesOf(stayed)) => denied # {}
    BY <2>2 DEF B!Named, DevicesOf
  <2>4. B!Answer("notexist") BY <1>1, <2>1, AnswerStep
  <2> QED BY <1>1, <1>2, <2>1, <2>3, <2>4 DEF B!NotExist
<1>5. CASE Fails \/ (ReadSucceeds /\ pc' = "done")
  <2>1. /\ op \in {"device", "configure"} /\ result' \in {"error", "invalid"} /\ from' = 0
    BY <1>1, <1>5 DEF Fails, ReadSucceeds, Return, ByName, RefinementInv, Phases
  <2>2. B!Answer("error") BY <1>1, <2>1, AnswerStep
  <2> QED BY <1>1, <2>1, <2>2 DEF B!Fails
<1>6. CASE ListFails /\ pc' = "done"
  <2>1. op = "devices" /\ result' = "ctx" /\ from' = 0
    BY <1>1, <1>6 DEF ListFails, Return, RefinementInv, Phases
  <2>2. B!Answer("error") BY <1>1, <2>1, AnswerStep
  <2> QED BY <1>1, <2>1, <2>2 DEF B!Fails
<1>7. CASE CloseDone
  <2>1. op = "close" /\ result' \in {"ok", "error"} /\ from' = 0
    BY <1>1, <1>7 DEF CloseDone, Return
  <2>2. B!Answer("ok") \/ B!Answer("error") BY <1>1, <2>1, AnswerStep
  <2>3. {<<name', b>> : b \in {from'} \ {0}} = {} BY <2>1
  <2> QED BY <1>1, <2>1, <2>2, <2>3, AnswerStep DEF B!Fails, B!Closes
<1> QED BY <1>3, <1>4, <1>5, <1>6, <1>7

\* The composite Client is a backend, however many backends it is made of.
THEOREM ClientIsBackend == Spec => ImplementsBackend
<1>1. Init => B!Init
  <2> SUFFICES ASSUME Init PROVE B!Init
    OBVIOUS
  <2>1. /\ op \in {"devices", "device", "configure", "close"} /\ name \in Names
        /\ result = "none" /\ from = 0 /\ stayed = has /\ ever = has
    BY OpsAssumption DEF Init
  <2> QED BY <2>1 DEF B!Init
<1>2. RefinementInv /\ RefinementInv' /\ [Next]_vars => [B!Next]_(B!vars)
  <2> SUFFICES ASSUME RefinementInv, RefinementInv', [Next]_vars
               PROVE  B!Next \/ UNCHANGED B!vars
    OBVIOUS
  <2>1. CASE AskForList \/ Lists \/ Keep \/ NextBackend \/ AppliesPart \/ NotThere
             \/ ReadFails \/ CloseNext \/ (ReadSucceeds /\ pc' # "done")
             \/ (ListFails /\ pc' # "done")
    <3>1. result = "none" /\ UNCHANGED <<op, name, has, stayed, ever, from, result, denied>>
      BY <2>1 DEF AskForList, Lists, Keep, NextBackend, AppliesPart, NotThere, ReadFails,
                  CloseNext, ReadSucceeds, ListFails, Return, RefinementInv, Phases, envVars
    <3> QED BY <3>1, Silent
  <2>2. CASE ListDone
    BY <2>2, ListDoneStep DEF B!Next
  <2>3. CASE Succeeds \/ Fails \/ NotFound \/ CloseDone
             \/ (ReadSucceeds /\ pc' = "done") \/ (ListFails /\ pc' = "done")
    BY <2>3, EndStep DEF B!Next
  <2>4. ASSUME NEW b \in Backends, NEW n \in Names, Appears(b, n) \/ Vanishes(b, n)
        PROVE  B!Next
    BY <2>4, ChangeStep DEF B!Next
  <2>6. CASE Denies
    BY <2>6, DenyStep DEF B!Next
  <2>5. CASE CtxEnds \/ UNCHANGED vars
    <3>1. UNCHANGED <<op, name, has, stayed, ever, from, result, out, denied>>
      BY <2>5 DEF CtxEnds, vars, callVars, envVars
    <3> QED BY <3>1 DEF B!vars, DevicesOf, Backends, Entries
  <2> QED BY <2>1, <2>2, <2>3, <2>4, <2>5, <2>6 DEF Next
<1> QED BY <1>1, <1>2, RefinementInvariant, PTL DEF Spec, ImplementsBackend, B!Spec
=============================================================================

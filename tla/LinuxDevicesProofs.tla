--------------------------- MODULE LinuxDevicesProofs ---------------------------
(***************************************************************************)
(* Proofs about LinuxDevices, for any finite set of links and any number   *)
(* of changes of them: the kernel's Client is a Backend, and a link that   *)
(* goes away while Devices runs makes no failure.                          *)
(***************************************************************************)
EXTENDS LinuxDevices, FiniteSetTheorems, TLAPS

\* What a call is doing: it needs a client, its answer is given once, and
\* Device has one link to look at and nothing found before its end.
Phases ==
  /\ pc # "idle" => client = "ready"
  /\ pc = "idle" => ifis = <<>> /\ ds = <<>>
  /\ (pc = "done") <=> (result # "none")
  /\ pc = "check" => op = "devices"
  /\ (op = "device" /\ pc # "done") => ds = <<>>
  /\ (op = "device" /\ pc \in {"kind", "get"}) => ifis = <<name>>

\* What is there has been seen, and what is returned has been seen, is of a
\* family that was found, and of a version that the library knows.
ReturnedWasSeen ==
  /\ pc # "idle" => Links \subseteq seen
  /\ \A i \in DOMAIN ds : ds[i] \in seen /\ Served(ds[i][2])

\* The family that was chosen is one the client serves, and the link's own
\* one as long as the link does not change.
ChosenByKind ==
  pc = "get" => /\ Served(family)
                /\ Head(ifis) \in stayed => Kind = family

\* A device that has been there all the while is still to come in the listing,
\* or has been fetched.
Covered ==
  (op = "devices" /\ pc \in {"check", "kind", "get"}) =>
    \A n \in stayed : links[n] \in found =>
      \/ \E i \in DOMAIN ifis : ifis[i] = n
      \/ \E i \in DOMAIN ds : ds[i][1] = n

Inv == TypeOK /\ Phases /\ ReturnedWasSeen /\ ChosenByKind /\ Covered

-----------------------------------------------------------------------------
(* The operators.                                                          *)

\* A listing of a finite set, one number for each of its members, leaves none
\* of them out.
LEMMA ListingIsWhole ==
  ASSUME links \in [Names -> Kinds], NEW l \in Listings
  PROVE  /\ l \in Seq(Names)
         /\ \A n \in Names : IsWGKind(links[n]) => \E i \in DOMAIN l : l[i] = n
<1> DEFINE Ours == {n \in Names : IsWGKind(links[n])}
           C == Cardinality(Ours)
<1>1. IsFiniteSet(Ours)
  BY NamesAssumption, FS_Subset
<1>2. C \in Nat
  BY <1>1, FS_CardinalityType
<1>3. l \in [1 .. C -> Ours] /\ \A i, j \in DOMAIN l : l[i] = l[j] => i = j
  BY DEF Listings
<1> HIDE DEF Ours, C
<1>4. l \in Injection(1 .. C, Ours)
  BY <1>3 DEF Injection, IsInjective
<1>5. Cardinality(1 .. C) = C
  BY <1>2, FS_Interval
<1>6. l \in Surjection(1 .. C, Ours)
  BY <1>1, <1>4, <1>5, FS_Injection DEF C
<1>7. \A n \in Ours : \E i \in 1 .. C : l[i] = n
  BY <1>6 DEF Surjection
<1> QED BY <1>2, <1>3, <1>7 DEF Ours

\* The head of a sequence and its tail are all that is in it.
LEMMA HeadOrTail ==
  ASSUME NEW S, NEW s \in Seq(S), s # <<>>
  PROVE  /\ Head(s) \in S /\ Tail(s) \in Seq(S)
         /\ \A i \in DOMAIN s : s[i] = Head(s) \/ \E j \in DOMAIN Tail(s) : Tail(s)[j] = s[i]
<1>1. /\ Head(s) = s[1] /\ Head(s) \in S /\ Tail(s) \in Seq(S)
      /\ Len(Tail(s)) = Len(s) - 1 /\ Len(s) \in Nat /\ DOMAIN s = 1 .. Len(s)
      /\ DOMAIN Tail(s) = 1 .. Len(Tail(s))
      /\ \A j \in 1 .. (Len(s) - 1) : Tail(s)[j] = s[j + 1]
  OBVIOUS
<1>2. ASSUME NEW i \in DOMAIN s, i # 1
      PROVE  (i - 1) \in DOMAIN Tail(s) /\ Tail(s)[i - 1] = s[i]
  BY <1>1, <1>2
<1> QED BY <1>1, <1>2

\* The answers of Device: Devices goes on to the next link, or the call ends.
LEMMA DeviceErrsCases ==
  ASSUME NEW res, DeviceErrs(res)
  PROVE  \/ op = "devices" /\ res = "notexist" /\ GoOn
         \/ /\ pc' = "done" /\ result' = res /\ UNCHANGED <<ifis, family>>
            /\ op = "devices" => res # "notexist"
BY DEF DeviceErrs, Return

-----------------------------------------------------------------------------
(* Types.                                                                  *)

LEMMA TypeStep == TypeOK /\ ChosenByKind /\ [Next]_vars => TypeOK'
<1> SUFFICES ASSUME TypeOK, ChosenByKind, [Next]_vars PROVE TypeOK'
  OBVIOUS
<1>1. ASSUME GoOn, ifis # <<>>, UNCHANGED op
      PROVE  /\ ifis' \in Seq(Names) /\ family' = "none"
             /\ pc' \in {"done", "check"}
             /\ pc' = "check" => ifis' # <<>>
             /\ result' \in {"none", "ok", "notexist", "ctx", "version", "error"}
  BY <1>1, HeadOrTail DEF GoOn, Return, TypeOK
<1>2. ASSUME NEW res \in {"notexist", "ctx", "version", "error"},
             DeviceErrs(res), pc \in {"check", "kind", "get"}, UNCHANGED op
      PROVE  /\ ifis' \in Seq(Names) /\ family' \in Families \union {"none"}
             /\ pc' \in {"done", "check"}
             /\ pc' = "check" => ifis' # <<>>
             /\ result' \in {"none", "ok", "notexist", "ctx", "version", "error"}
  BY <1>1, <1>2, DeviceErrsCases DEF TypeOK
<1>3. CASE DialFails
  BY <1>3 DEF DialFails, TypeOK, linkVars, callVars, found
<1>4. CASE LookUpWireGuard
  BY <1>4 DEF LookUpWireGuard, GetFamily, TypeOK, linkVars, callVars, found, Families
<1>5. CASE LookUpAmnezia
  <2>1. /\ lookup' \in [Families -> {"none", "found", "missing", "error"}]
        /\ client' \in {"ready", "failed", "absent"}
        /\ client' = "ready" => found' # {}
    BY <1>5 DEF LookUpAmnezia, GetFamily, TypeOK, found, Families
  <2> QED BY <1>5, <2>1 DEF LookUpAmnezia, TypeOK, linkVars, callVars
<1>6. CASE Cancelled \/ ListLinksFails \/ OneDevice
  <2>1. /\ stayed' = Names /\ seen' \subseteq Names \X Kinds
        /\ UNCHANGED <<links, loaded, changes>>
    BY <1>6 DEF Cancelled, ListLinksFails, OneDevice, Begin, Links, TypeOK
  <2>2. ifis' \in Seq(Names) /\ (pc' \in {"check", "kind", "get"} => ifis' # <<>>)
    <3>1. CASE OneDevice
      <4>1. ifis' = <<name>> /\ name \in Names BY <3>1 DEF OneDevice, TypeOK
      <4> QED BY <4>1
    <3> QED BY <1>6, <3>1 DEF Cancelled, ListLinksFails, Return, TypeOK
  <2> QED BY <1>6, <2>1, <2>2 DEF Cancelled, ListLinksFails, OneDevice, Return, TypeOK, found
<1>7. CASE ListLinks
  <2>1. /\ stayed' = Names /\ seen' \subseteq Names \X Kinds
        /\ UNCHANGED <<links, loaded, changes>>
    BY <1>7 DEF ListLinks, Begin, Links, TypeOK
  <2>2. /\ ifis' \in Seq(Names) /\ pc' \in {"done", "check"} /\ (pc' = "check" => ifis' # <<>>)
        /\ result' \in {result, "ok"}
    BY <1>7, ListingIsWhole DEF ListLinks, Return, TypeOK
  <2> QED BY <1>7, <2>1, <2>2 DEF ListLinks, TypeOK, found
<1>8. CASE Check
  <2>1. /\ ifis' \in Seq(Names) /\ family' \in Families \union {"none"}
        /\ pc' \in {"done", "check", "kind"}
        /\ pc' \in {"check", "kind", "get"} => ifis' # <<>>
        /\ result' \in {"none", "ok", "notexist", "ctx", "version", "error"}
        /\ failed' \in BOOLEAN
    BY <1>2, <1>8 DEF Check, TypeOK
  <2> QED BY <1>8, <2>1 DEF Check, TypeOK, linkVars, found
<1>9. CASE FamilyFor
  BY <1>9 DEF FamilyFor, Served, TypeOK, linkVars, found
<1>10. CASE NoFamily \/ VersionTooNew \/ KindFails \/ GetNotExist \/ GetFails
  <2>1. PICK res \in {"notexist", "ctx", "version", "error"} : DeviceErrs(res)
    BY <1>10 DEF NoFamily, VersionTooNew, KindFails, GetNotExist, GetFails
  <2>2. /\ UNCHANGED <<linkVars, tooNew, client, lookup, op, name, ctxDone, ds>>
        /\ pc \in {"check", "kind", "get"} /\ failed' \in BOOLEAN
    BY <1>10 DEF NoFamily, VersionTooNew, KindFails, GetNotExist, GetFails, TypeOK
  <2>3. /\ ifis' \in Seq(Names) /\ family' \in Families \union {"none"}
        /\ pc' \in {"done", "check"}
        /\ pc' = "check" => ifis' # <<>>
        /\ result' \in {"none", "ok", "notexist", "ctx", "version", "error"}
    BY <1>2, <2>1, <2>2
  <2> QED BY <2>2, <2>3 DEF TypeOK, linkVars, found
<1>11. CASE Get
  <2>1. /\ GoOn /\ ifis # <<>> /\ UNCHANGED op
        /\ Head(ifis) \in Names /\ family \in Families
    <3>1. ifis \in Seq(Names) /\ ifis # <<>> /\ GoOn /\ UNCHANGED op /\ family \in Families
      BY <1>11 DEF Get, TypeOK, ChosenByKind, Served, found
    <3> QED BY <3>1, HeadOrTail
  <2>2. ds' \in Seq(Names \X Families)
    BY <1>11, <2>1 DEF Get, TypeOK
  <2> QED BY <1>1, <1>11, <2>1, <2>2 DEF Get, TypeOK, linkVars, found
<1>12. CASE CtxEnds
  BY <1>12 DEF CtxEnds, TypeOK, linkVars, found
<1>13. ASSUME NEW n \in Names, NEW k \in Kinds, LinkChanges(n, k) PROVE TypeOK'
  BY <1>13 DEF LinkChanges, TypeOK, callVars, found
<1>14. ASSUME NEW f \in Families, ModuleLoaded(f) PROVE TypeOK'
  BY <1>14 DEF ModuleLoaded, TypeOK, callVars, found
<1>15. CASE UNCHANGED vars
  BY <1>15 DEF vars, linkVars, callVars, TypeOK, found
<1> QED BY <1>3, <1>4, <1>5, <1>6, <1>7, <1>8, <1>9, <1>10, <1>11, <1>12, <1>13, <1>14, <1>15
        DEF Next

LEMMA TypeInit == Init => TypeOK
<1> SUFFICES ASSUME Init PROVE TypeOK
  OBVIOUS
<1>1. links \in [Names -> Kinds] /\ loaded \subseteq Families
  BY DEF Init, Kinds
<1>2. ifis \in Seq(Names) /\ ds \in Seq(Names \X Families)
  BY DEF Init
<1> QED BY <1>1, <1>2, OpsAssumption DEF Init, TypeOK

-----------------------------------------------------------------------------
(* The phases of a call, and why it fails.                                 *)

\* What fails Devices has failed: a request, the context, or the version.
FailedForAReason ==
  /\ result \in {"ctx", "error"} => failed
  /\ result = "version" => tooNew
  /\ op = "devices" => result # "notexist"

LEMMA PhaseStep ==
  TypeOK /\ Phases /\ FailedForAReason /\ [Next]_vars => Phases' /\ FailedForAReason'
<1> SUFFICES ASSUME TypeOK, Phases, FailedForAReason, [Next]_vars
             PROVE  Phases' /\ FailedForAReason'
  OBVIOUS
<1>1. CASE DialFails \/ LookUpWireGuard \/ LookUpAmnezia
  <2>1. pc = "idle" /\ UNCHANGED <<linkVars, tooNew, callVars>>
    BY <1>1 DEF DialFails, LookUpWireGuard, LookUpAmnezia, Phases
  <2> QED BY <2>1 DEF Phases, FailedForAReason, callVars
<1>2. CASE Cancelled \/ ListLinksFails
  BY <1>2 DEF Cancelled, ListLinksFails, Begin, Return, Phases, FailedForAReason
<1>3. CASE ListLinks
  BY <1>3 DEF ListLinks, Begin, Return, Phases, FailedForAReason
<1>4. CASE OneDevice
  BY <1>4 DEF OneDevice, Begin, Phases, FailedForAReason
<1>5. ASSUME GoOn, op = "devices", pc \in {"check", "kind", "get"},
             UNCHANGED <<client, op, name>>
      PROVE  Phases' /\ FailedForAReason'
  BY <1>5 DEF GoOn, Return, Phases, FailedForAReason
<1>6. ASSUME NEW res \in {"notexist", "ctx", "version", "error"},
             DeviceErrs(res), pc \in {"check", "kind", "get"},
             res \in {"ctx", "error"} => failed', res = "version" => tooNew,
             UNCHANGED <<client, op, name, tooNew, ds>>
      PROVE  Phases' /\ FailedForAReason'
  <2>1. CASE op = "devices" /\ GoOn
    BY <1>5, <1>6, <2>1
  <2>2. CASE /\ pc' = "done" /\ result' = res /\ UNCHANGED <<ifis, family>>
             /\ op = "devices" => res # "notexist"
    BY <1>6, <2>2 DEF Phases, FailedForAReason
  <2> QED BY <1>6, <2>1, <2>2, DeviceErrsCases
<1>7. CASE Check
  <2>1. CASE ctxDone
    BY <1>6, <1>7, <2>1 DEF Check
  <2>2. CASE ~ ctxDone
    BY <1>7, <2>2 DEF Check, Phases, FailedForAReason
  <2> QED BY <2>1, <2>2
<1>8. CASE FamilyFor
  BY <1>8 DEF FamilyFor, Phases, FailedForAReason
<1>9. CASE NoFamily \/ VersionTooNew \/ KindFails \/ GetNotExist \/ GetFails
  <2>1. /\ pc \in {"check", "kind", "get"}
        /\ UNCHANGED <<client, op, name, tooNew, ds>>
    BY <1>9 DEF NoFamily, VersionTooNew, KindFails, GetNotExist, GetFails
  <2>2. PICK res \in {"notexist", "ctx", "version", "error"} :
          DeviceErrs(res) /\ (res \in {"ctx", "error"} => failed') /\ (res = "version" => tooNew)
    BY <1>9 DEF NoFamily, VersionTooNew, KindFails, GetNotExist, GetFails
  <2> QED BY <1>6, <2>1, <2>2
<1>10. CASE Get
  <2>1. CASE op = "devices"
    BY <1>5, <1>10, <2>1 DEF Get
  <2>2. CASE op = "device"
    <3>1. Tail(ifis) = <<>>
      BY <1>10, <2>2 DEF Get, Phases
    <3> QED BY <1>10, <2>2, <3>1 DEF Get, GoOn, Return, Phases, FailedForAReason
  <2> QED BY <2>1, <2>2, OpsAssumption DEF TypeOK
<1>11. CASE CtxEnds
  BY <1>11 DEF CtxEnds, Phases, FailedForAReason
<1>12. ASSUME NEW n \in Names, NEW k \in Kinds, LinkChanges(n, k)
       PROVE  Phases' /\ FailedForAReason'
  BY <1>12 DEF LinkChanges, callVars, Phases, FailedForAReason
<1>13. ASSUME NEW f \in Families, ModuleLoaded(f) PROVE Phases' /\ FailedForAReason'
  BY <1>13 DEF ModuleLoaded, callVars, Phases, FailedForAReason
<1>14. CASE UNCHANGED vars
  BY <1>14 DEF vars, callVars, Phases, FailedForAReason
<1> QED BY <1>1, <1>2, <1>3, <1>4, <1>7, <1>8, <1>9, <1>10, <1>11, <1>12, <1>13, <1>14
        DEF Next

-----------------------------------------------------------------------------
(* The links during a call.                                                *)

\* Once a client is ready, no step changes the families that were found.
LEMMA FoundStays ==
  ASSUME Phases, [Next]_vars
  PROVE  pc # "idle" => UNCHANGED <<lookup, tooNew, op, name>>
BY DEF Phases, Next, vars, linkVars, callVars, DialFails, LookUpWireGuard, LookUpAmnezia, Begin,
       Cancelled, ListLinks, ListLinksFails, OneDevice, Check, FamilyFor, NoFamily,
       VersionTooNew, KindFails, Get, GetNotExist, GetFails, CtxEnds, LinkChanges, ModuleLoaded

\* The link in hand is gone, or is not of the kind it was.
Gone ==
  \/ pc = "kind" /\ Kind \notin found
  \/ pc = "get" /\ Kind # family

\* What a step of Device does to the link in hand, the devices fetched and the
\* family chosen: it ends the call, looks at the kind, chooses the family, adds
\* the device, or leaves the link out.
Ended ==
  /\ pc' = "done" /\ result' \notin {"none", "ok"}
  /\ result' = "notexist" => op = "device" /\ Gone
  /\ UNCHANGED <<ifis, ds>>
Looks   == pc' = "kind" /\ UNCHANGED <<ifis, ds, result>>
Chosen  == pc = "kind" /\ pc' = "get" /\ Served(Kind) /\ family' = Kind /\ UNCHANGED <<ifis, ds, result>>
Fetched == pc = "get" /\ Kind = family /\ ds' = Append(ds, <<Head(ifis), family>>) /\ GoOn
LeftOut == op = "devices" /\ Gone /\ UNCHANGED ds /\ GoOn

DeviceStep ==
  Check \/ FamilyFor \/ NoFamily \/ VersionTooNew \/ KindFails \/ Get \/ GetNotExist \/ GetFails

LEMMA DeviceSteps ==
  ASSUME TypeOK, Phases, DeviceStep
  PROVE  /\ UNCHANGED <<links, stayed, seen, tooNew, client, lookup, op, name>>
         /\ pc \in {"check", "kind", "get"} /\ ifis \in Seq(Names) /\ ifis # <<>>
         /\ Ended \/ Looks \/ Chosen \/ Fetched \/ LeftOut
<1>1. pc \in {"check", "kind", "get"} /\ ifis \in Seq(Names) /\ ifis # <<>>
      /\ UNCHANGED <<links, stayed, seen, tooNew, client, lookup, op, name>>
  BY DEF DeviceStep, TypeOK, Check, FamilyFor, NoFamily, VersionTooNew, KindFails, Get,
         GetNotExist, GetFails, linkVars
<1>2. CASE Check
  BY <1>1, <1>2 DEF Check, DeviceErrs, Return, Ended, Looks
<1>3. CASE FamilyFor
  BY <1>1, <1>3 DEF FamilyFor, Chosen
<1>4. CASE VersionTooNew \/ KindFails \/ GetFails
  BY <1>1, <1>4 DEF VersionTooNew, KindFails, GetFails, DeviceErrs, Return, Ended
<1>5. CASE NoFamily \/ GetNotExist
  <2>1. CASE op = "devices"
    BY <1>1, <1>5, <2>1 DEF NoFamily, GetNotExist, DeviceErrs, Return, Ended, LeftOut, Gone
  <2>2. CASE op = "device"
    BY <1>1, <1>5, <2>2 DEF NoFamily, GetNotExist, DeviceErrs, Return, Ended, Gone
  <2> QED BY <2>1, <2>2, OpsAssumption DEF TypeOK
<1>6. CASE Get
  BY <1>1, <1>6 DEF Get, Fetched
<1> QED BY <1>1, <1>2, <1>3, <1>4, <1>5, <1>6 DEF DeviceStep

LEMMA SeenStep ==
  TypeOK /\ Phases /\ ReturnedWasSeen /\ ChosenByKind /\ [Next]_vars => ReturnedWasSeen'
<1> SUFFICES ASSUME TypeOK, Phases, ReturnedWasSeen, ChosenByKind, [Next]_vars
             PROVE  ReturnedWasSeen'
  OBVIOUS
<1>1. ASSUME pc' # "idle" => Links' \subseteq seen', ds' = ds, ds = <<>>
      PROVE  ReturnedWasSeen'
  BY <1>1 DEF ReturnedWasSeen
<1>2. ASSUME pc # "idle", UNCHANGED <<links, lookup, tooNew>>, seen \subseteq seen', ds' = ds
      PROVE  ReturnedWasSeen'
  BY <1>2 DEF ReturnedWasSeen, Links, Served, found
<1>3. CASE DialFails \/ LookUpWireGuard \/ LookUpAmnezia
  <2>1. pc' = "idle" /\ ds' = ds /\ ds = <<>>
    BY <1>3 DEF DialFails, LookUpWireGuard, LookUpAmnezia, Phases, callVars
  <2> QED BY <1>1, <2>1
<1>4. CASE Cancelled \/ ListLinks \/ ListLinksFails \/ OneDevice
  <2>1. Links' = seen' /\ ds' = ds /\ ds = <<>>
    BY <1>4 DEF Cancelled, ListLinks, ListLinksFails, OneDevice, Begin, Phases, Links
  <2> QED BY <1>1, <2>1
<1>5. CASE DeviceStep
  <2>1. /\ UNCHANGED <<links, seen, tooNew, lookup>> /\ pc # "idle"
        /\ ifis \in Seq(Names) /\ ifis # <<>>
        /\ ds' = ds \/ Fetched
    BY <1>5, DeviceSteps DEF Ended, Looks, Chosen, LeftOut
  <2>2. CASE ds' = ds
    BY <1>2, <2>1, <2>2
  <2>3. CASE pc = "get" /\ Kind = family /\ ds' = Append(ds, <<Head(ifis), family>>)
    <3>1. Head(ifis) \in Names
      BY <2>1, HeadOrTail
    <3>2. <<Head(ifis), family>> \in seen /\ Served(family)
      BY <2>3, <3>1 DEF Kind, Links, ReturnedWasSeen, ChosenByKind
    <3>3. \A i \in DOMAIN ds' : \/ i \in DOMAIN ds /\ ds'[i] = ds[i]
                                \/ ds'[i] = <<Head(ifis), family>>
      BY <2>3 DEF TypeOK
    <3>4. \A i \in DOMAIN ds' : ds'[i] \in seen /\ Served(ds'[i][2])
      BY <3>2, <3>3 DEF ReturnedWasSeen
    <3> QED BY <2>1, <3>4 DEF ReturnedWasSeen, Links, Served, found
  <2> QED BY <2>1, <2>2, <2>3 DEF Fetched
<1>6. ASSUME NEW n \in Names, NEW k \in Kinds, LinkChanges(n, k) PROVE ReturnedWasSeen'
  <2>1. /\ UNCHANGED <<pc, ds, lookup, tooNew>>
        /\ links' = [links EXCEPT ![n] = k]
        /\ pc # "idle" => seen' = seen \union {<<n, k>>}
    BY <1>6 DEF LinkChanges, callVars
  <2>2. Links' \subseteq Links \union {<<n, k>>}
    BY <2>1 DEF Links, TypeOK
  <2>3. CASE pc = "idle"
    BY <1>1, <2>1, <2>3 DEF Phases
  <2>4. CASE pc # "idle"
    BY <2>1, <2>2, <2>4 DEF ReturnedWasSeen, Served, found
  <2> QED BY <2>3, <2>4
<1>7. CASE CtxEnds \/ UNCHANGED vars
  BY <1>7 DEF CtxEnds, vars, linkVars, callVars, ReturnedWasSeen, Links, Served, found
<1>8. ASSUME NEW f \in Families, ModuleLoaded(f) PROVE ReturnedWasSeen'
  BY <1>8 DEF ModuleLoaded, callVars, ReturnedWasSeen, Links, Served, found
<1> QED BY <1>3, <1>4, <1>5, <1>6, <1>7, <1>8 DEF Next, DeviceStep

LEMMA ChosenStep ==
  TypeOK /\ Phases /\ ChosenByKind /\ [Next]_vars => ChosenByKind'
<1> SUFFICES ASSUME TypeOK, Phases, ChosenByKind, [Next]_vars
             PROVE  ChosenByKind'
  OBVIOUS
<1>1. CASE DialFails \/ LookUpWireGuard \/ LookUpAmnezia
  <2>1. pc' = "idle"
    BY <1>1 DEF DialFails, LookUpWireGuard, LookUpAmnezia, Phases, callVars
  <2> QED BY <2>1 DEF ChosenByKind
<1>2. CASE Cancelled \/ ListLinks \/ ListLinksFails \/ OneDevice
  BY <1>2 DEF Cancelled, ListLinks, ListLinksFails, OneDevice, Return, Begin, ChosenByKind
<1>3. CASE DeviceStep
  <2>1. /\ UNCHANGED <<links, tooNew, lookup>>
        /\ pc' # "get" \/ (UNCHANGED ifis /\ Served(Kind) /\ family' = Kind)
    BY <1>3, DeviceSteps DEF Ended, Looks, Chosen, Fetched, LeftOut, GoOn, Return
  <2> QED BY <2>1 DEF ChosenByKind, Kind, Served, found
<1>4. ASSUME NEW n \in Names, NEW k \in Kinds, LinkChanges(n, k) PROVE ChosenByKind'
  <2>1. /\ UNCHANGED <<pc, ifis, family, lookup, tooNew>>
        /\ links' = [links EXCEPT ![n] = k]
        /\ stayed' = stayed \ {n}
    BY <1>4 DEF LinkChanges, callVars
  <2> QED BY <2>1 DEF ChosenByKind, Kind, Served, found, TypeOK
<1>5. CASE CtxEnds \/ UNCHANGED vars
  BY <1>5 DEF CtxEnds, vars, linkVars, callVars, ChosenByKind, Kind, Served, found
<1>6. ASSUME NEW f \in Families, ModuleLoaded(f) PROVE ChosenByKind'
  BY <1>6 DEF ModuleLoaded, callVars, ChosenByKind, Kind, Served, found
<1> QED BY <1>1, <1>2, <1>3, <1>4, <1>5, <1>6 DEF Next, DeviceStep

\* The link in hand is done with: what stayed is among the others, or fetched.
LEMMA CoveredByRest ==
  ASSUME TypeOK, Covered, op = "devices", pc \in {"check", "kind", "get"}, ifis # <<>>,
         NEW d \in Seq(Names \X Families),
         d = ds \/ d = Append(ds, <<Head(ifis), family>>),
         Head(ifis) \in stayed /\ links[Head(ifis)] \in found => d # ds,
         family \in Families
  PROVE  \A n \in stayed : links[n] \in found =>
           \/ \E i \in DOMAIN Tail(ifis) : Tail(ifis)[i] = n
           \/ \E i \in DOMAIN d : d[i][1] = n
<1> SUFFICES ASSUME NEW n \in stayed, links[n] \in found,
                    ~ \E i \in DOMAIN Tail(ifis) : Tail(ifis)[i] = n
             PROVE  \E i \in DOMAIN d : d[i][1] = n
  OBVIOUS
<1>1. /\ ds \in Seq(Names \X Families) /\ Head(ifis) \in Names
      /\ DOMAIN ds \subseteq DOMAIN d /\ \A i \in DOMAIN ds : d[i] = ds[i]
      /\ d # ds => \E i \in DOMAIN d : d[i] = <<Head(ifis), family>>
  <2>1. ds \in Seq(Names \X Families) /\ Head(ifis) \in Names
    BY HeadOrTail DEF TypeOK
  <2>2. CASE d = ds
    BY <2>1, <2>2
  <2>3. CASE d = Append(ds, <<Head(ifis), family>>)
    <3>1. /\ d[Len(ds) + 1] = <<Head(ifis), family>> /\ Len(ds) + 1 \in DOMAIN d
          /\ DOMAIN ds \subseteq DOMAIN d /\ \A i \in DOMAIN ds : d[i] = ds[i]
      BY <2>1, <2>3
    <3> QED BY <2>1, <3>1
  <2> QED BY <2>2, <2>3
<1>2. CASE \E i \in DOMAIN ds : ds[i][1] = n
  BY <1>1, <1>2
<1>3. CASE \E i \in DOMAIN ifis : ifis[i] = n
  <2>1. n = Head(ifis)
    BY <1>3, HeadOrTail DEF TypeOK
  <2> QED BY <1>1, <2>1
<1> QED BY <1>2, <1>3 DEF Covered

\* A link that is gone has not stayed, or is of no family that was found.
LEMMA GoneHasNotStayed ==
  ASSUME ChosenByKind, Gone
  PROVE  ~ (Head(ifis) \in stayed /\ links[Head(ifis)] \in found)
BY DEF ChosenByKind, Gone, Kind

LEMMA CoveredStep ==
  TypeOK /\ Phases /\ ChosenByKind /\ Covered /\ [Next]_vars => Covered'
<1> SUFFICES ASSUME TypeOK, Phases, ChosenByKind, Covered, [Next]_vars
             PROVE  Covered'
  OBVIOUS
<1>1. CASE DialFails \/ LookUpWireGuard \/ LookUpAmnezia
  <2>1. pc' = "idle"
    BY <1>1 DEF DialFails, LookUpWireGuard, LookUpAmnezia, Phases, callVars
  <2> QED BY <2>1 DEF Covered
<1>2. CASE Cancelled \/ ListLinksFails \/ OneDevice
  <2>1. op' # "devices" \/ pc' = "done"
    BY <1>2 DEF Cancelled, ListLinksFails, OneDevice, Return
  <2> QED BY <2>1 DEF Covered
<1>3. CASE ListLinks
  <2>1. ifis' \in Listings /\ stayed' = Names /\ UNCHANGED <<links, lookup, ds>>
    BY <1>3 DEF ListLinks, Begin
  <2>2. \A n \in Names : IsWGKind(links[n]) => \E i \in DOMAIN ifis' : ifis'[i] = n
    BY <2>1, ListingIsWhole DEF TypeOK
  <2> QED BY <2>1, <2>2 DEF Covered, IsWGKind, found
<1>4. CASE DeviceStep
  <2>1. UNCHANGED <<links, lookup, stayed, op>> /\ pc \in {"check", "kind", "get"}
        /\ ifis # <<>> /\ ifis \in Seq(Names)
    BY <1>4, DeviceSteps
  <2>2. CASE Ended
    BY <2>2 DEF Ended, Covered
  <2>3. CASE Looks \/ Chosen
    BY <2>1, <2>3 DEF Looks, Chosen, Covered, found
  <2>4. CASE Fetched
    <3>1. ifis' = Tail(ifis) /\ family \in Families /\ Head(ifis) \in Names
      BY <2>1, <2>4, HeadOrTail DEF Fetched, GoOn, ChosenByKind, Served, found
    <3>2. ds' \in Seq(Names \X Families) /\ ds' # ds
      BY <2>4, <3>1 DEF Fetched, TypeOK
    <3>3. CASE op = "devices"
      BY <2>1, <2>4, <3>1, <3>2, <3>3, CoveredByRest DEF Fetched, Covered, found
    <3> QED BY <2>1, <3>3 DEF Covered
  <2>5. CASE LeftOut
    <3>1. ~ (Head(ifis) \in stayed /\ links[Head(ifis)] \in found)
      BY <2>5, GoneHasNotStayed DEF LeftOut
    <3>2. ifis' = Tail(ifis) /\ ds' = ds /\ ds \in Seq(Names \X Families)
      BY <2>5 DEF LeftOut, GoOn, TypeOK
    <3>3. ASSUME NEW n \in stayed, links[n] \in found,
                 ~ \E i \in DOMAIN Tail(ifis) : Tail(ifis)[i] = n
          PROVE  \E i \in DOMAIN ds : ds[i][1] = n
      <4>1. n # Head(ifis) BY <3>1, <3>3
      <4>2. ~ \E i \in DOMAIN ifis : ifis[i] = n BY <2>1, <3>3, <4>1, HeadOrTail
      <4> QED BY <2>1, <2>5, <3>3, <4>2 DEF LeftOut, Covered
    <3> QED BY <2>1, <3>2, <3>3 DEF Covered, found
  <2> QED BY <1>4, <2>2, <2>3, <2>4, <2>5, DeviceSteps
<1>5. ASSUME NEW n \in Names, NEW k \in Kinds, LinkChanges(n, k) PROVE Covered'
  <2>1. /\ UNCHANGED <<op, pc, ifis, ds, lookup>>
        /\ links' = [links EXCEPT ![n] = k]
        /\ stayed' = stayed \ {n}
    BY <1>5 DEF LinkChanges, callVars
  <2>2. \A m \in stayed' : m \in stayed /\ links'[m] = links[m]
    BY <2>1 DEF TypeOK
  <2> QED BY <2>1, <2>2 DEF Covered, found
<1>6. CASE CtxEnds \/ UNCHANGED vars
  BY <1>6 DEF CtxEnds, vars, linkVars, callVars, Covered, found
<1>7. ASSUME NEW f \in Families, ModuleLoaded(f) PROVE Covered'
  BY <1>7 DEF ModuleLoaded, callVars, Covered, found
<1> QED BY <1>1, <1>2, <1>3, <1>4, <1>5, <1>6, <1>7 DEF Next, DeviceStep

-----------------------------------------------------------------------------
(* The theorems.                                                           *)

LEMMA Invariant == Spec => [](Inv /\ FailedForAReason)
<1>1. Init => Inv /\ FailedForAReason
  <2> SUFFICES ASSUME Init PROVE Inv /\ FailedForAReason
    OBVIOUS
  <2>1. TypeOK /\ pc = "idle" /\ ifis = <<>> /\ ds = <<>> /\ result = "none"
    BY TypeInit DEF Init
  <2> QED BY <2>1 DEF Inv, Phases, ReturnedWasSeen, ChosenByKind, Covered, FailedForAReason
<1>2. Inv /\ FailedForAReason /\ [Next]_vars => (Inv /\ FailedForAReason)'
  BY TypeStep, PhaseStep, SeenStep, ChosenStep, CoveredStep DEF Inv
<1> QED BY <1>1, <1>2, PTL DEF Spec

\* Every variable keeps its type, and a client is ready only with a family.
THEOREM TypeCorrect == Spec => []TypeOK
BY Invariant, PTL DEF Inv

\* Devices never fails because a link went away or changed its kind between the
\* listing, the look at its kind and the fetch.
THEOREM RemovalHarmless == Spec => []RemovalIsNoFailure
<1>1. Inv /\ FailedForAReason => RemovalIsNoFailure
  BY DEF Inv, TypeOK, FailedForAReason, RemovalIsNoFailure
<1> QED BY <1>1, Invariant, PTL

\* Whatever links come, go or change their kind: what was a device all along
\* is still to be looked at or is among the devices fetched.
THEOREM NothingLeftOut == Spec => []Covered
BY Invariant, PTL DEF Inv

-----------------------------------------------------------------------------
(* The refinement.                                                         *)

\* The devices that there are, and that were there since the call began.
Stayed == Devices(IF pc = "idle" THEN Links ELSE {d \in Links : d[1] \in stayed})
Seen   == Devices(IF pc = "idle" THEN Links ELSE seen)
Unfit  == IF tooNew THEN Names \X {"amneziawg"} ELSE {}

\* What a user of the interface does not see.
LEMMA Silent ==
  ASSUME UNCHANGED <<links, stayed, seen, lookup, tooNew, op, name, result>>,
         pc' = "idle" <=> pc = "idle", result # "ok"
  PROVE  UNCHANGED B!vars
<1>1. Links' = Links /\ found' = found
  BY DEF Links, found
<1> QED BY <1>1 DEF B!vars, Devices

\* The links change, or the families are looked up: what stayed is still there,
\* and what is there now is seen.
LEMMA LinkChangeStep ==
  ASSUME Inv, NEW n \in Names, NEW k \in Kinds, LinkChanges(n, k)
  PROVE  B!Change
<1>1. /\ UNCHANGED <<op, name, pc, lookup, tooNew, result, ds>>
      /\ k # links[n] /\ links' = [links EXCEPT ![n] = k] /\ stayed' = stayed \ {n}
      /\ seen' = IF pc = "idle" THEN seen ELSE seen \union {<<n, k>>}
      /\ links \in [Names -> Kinds] /\ found' = found
  BY DEF LinkChanges, callVars, Inv, TypeOK, found
<1>2. Links' = (Links \ {<<n, links[n]>>}) \union {<<n, k>>}
  BY <1>1 DEF Links
<1>3. Stayed' = IF pc # "idle" THEN Stayed \intersect Devices(Links)' ELSE Devices(Links)'
  BY <1>1, <1>2 DEF Stayed, Devices, Links
<1>4. Seen' = IF pc # "idle" THEN Seen \union Devices(Links)' ELSE Devices(Links)'
  BY <1>1, <1>2 DEF Seen, Devices, Inv, ReturnedWasSeen
<1>5. B!Named(Devices(Links)') \subseteq Names
  BY DEF B!Named, Devices, Links
<1> QED BY <1>1, <1>3, <1>4, <1>5 DEF B!Change, Stayed, Seen

LEMMA LookUpStep ==
  ASSUME Inv, DialFails \/ LookUpWireGuard \/ LookUpAmnezia
  PROVE  B!Change
<1>1. pc = "idle" /\ pc' = "idle" /\ UNCHANGED <<links, tooNew, op, name, result, ds>>
  BY DEF DialFails, LookUpWireGuard, LookUpAmnezia, Inv, Phases, linkVars, callVars
<1>2. B!Named(Devices(Links)') \subseteq Names
  BY DEF B!Named, Devices, Links
<1> QED BY <1>1, <1>2 DEF B!Change

\* A call begins, with or without an answer.
LEMMA BeginStep ==
  ASSUME Inv, Cancelled \/ ListLinks \/ ListLinksFails \/ OneDevice
  PROVE  B!Begun /\ Stayed' = Devices(Links) /\ Seen' = Devices(Links)
<1>1. /\ pc = "idle" /\ pc' # "idle" /\ stayed' = Names /\ seen' = Links
      /\ UNCHANGED <<links, lookup, tooNew, op, name>>
  BY DEF Cancelled, ListLinks, ListLinksFails, OneDevice, Begin, Return
<1>2. Links' = Links /\ found' = found
  BY <1>1 DEF Links, found
<1>3. {d \in Links : d[1] \in Names} = Links
  BY DEF Links
<1> QED BY <1>1, <1>2, <1>3 DEF B!Begun, Stayed, Seen, Devices

\* A step of a call that has begun leaves the devices alone.
LEMMA BegunStep ==
  ASSUME pc # "idle", pc' # "idle",
         UNCHANGED <<links, stayed, seen, lookup, tooNew, op, name>>
  PROVE  B!Begun /\ Stayed' = Stayed /\ Seen' = Seen
<1>1. Links' = Links /\ found' = found
  BY DEF Links, found
<1> QED BY <1>1 DEF B!Begun, Stayed, Seen, Devices

\* The devices fetched were seen, and the client can speak to them.
LEMMA ReturnedFit ==
  ASSUME TypeOK, ReturnedWasSeen, pc # "idle"
  PROVE  {ds[i] : i \in DOMAIN ds} \subseteq Seen \ Unfit
<1>1. ASSUME NEW i \in DOMAIN ds
      PROVE  ds[i] \in Seen /\ (tooNew => ds[i] \notin Names \X {"amneziawg"})
  <2>1. ds[i] \in Names \X Families /\ ds[i] \in seen /\ Served(ds[i][2])
    BY DEF TypeOK, ReturnedWasSeen
  <2> QED BY <2>1 DEF Served, Seen, Devices
<1> QED BY <1>1 DEF Unfit

\* The end of the listing: Devices has every device that stayed.
LEMMA ListEnds ==
  ASSUME Inv, Inv', op = "devices", result = "none", result' = "ok", pc' = "done",
         B!Begun, op' = op,
         \A n \in Names : (\E d \in Stayed' : d[1] = n) => \E i \in DOMAIN ds' : ds'[i][1] = n
  PROVE  B!Lists
<1>1. B!Answer("ok")
  BY DEF B!Answer
<1>2. {ds'[i] : i \in DOMAIN ds'} \subseteq Seen' \ Unfit'
  BY ReturnedFit DEF Inv, TypeOK, ReturnedWasSeen, Seen, Unfit, Devices, Served, found, Links
<1>3. Unfit' = Unfit
  BY DEF B!Begun, Unfit
<1>4. B!Named(Stayed') \subseteq B!Named({ds'[i] : i \in DOMAIN ds'})
  <2>1. ASSUME NEW n \in B!Named(Stayed')
        PROVE  \E c \in {ds'[i] : i \in DOMAIN ds'} : c[1] = n
    <3>1. PICK d \in Stayed' : d[1] = n
      BY DEF B!Named
    <3>2. n \in Names
      BY <3>1 DEF Stayed, Devices, Links
    <3> QED BY <3>1, <3>2
  <2> QED BY <2>1 DEF B!Named
<1> QED BY <1>1, <1>2, <1>3, <1>4 DEF B!Lists, Stayed, Seen, Unfit

\* A step of Device ends the call, or goes on unseen.
LEMMA DeviceIsBackend ==
  ASSUME Inv, Inv', DeviceStep
  PROVE  B!Next \/ UNCHANGED B!vars
<1>1. /\ UNCHANGED <<links, seen, stayed, lookup, tooNew, op, name>>
      /\ pc \in {"check", "kind", "get"} /\ ifis \in Seq(Names) /\ ifis # <<>>
      /\ result = "none" /\ op \in {"devices", "device"}
  BY DeviceSteps, OpsAssumption DEF Inv, TypeOK, Phases
<1>2. pc' # "idle" /\ (Ended \/ Looks \/ Chosen \/ Fetched \/ LeftOut)
  BY DeviceSteps DEF Inv, GoOn, Return, Ended, Looks, Chosen, Fetched, LeftOut
<1>3. B!Begun /\ Stayed' = Stayed /\ Seen' = Seen
  BY <1>1, <1>2, BegunStep
<1>4. CASE UNCHANGED result
  BY <1>1, <1>2, <1>4, Silent
<1>5. \A d \in Stayed : d[1] \in stayed /\ links[d[1]] \in found
  BY <1>1 DEF Stayed, Devices, Links
<1>6. CASE Ended
  <2>1. CASE result' = "notexist"
    <3>1. op = "device" /\ Gone /\ Head(ifis) = name
      BY <1>1, <1>6, <2>1 DEF Ended, Gone, Inv, Phases
    <3>2. name \notin B!Named(Stayed')
      BY <1>3, <1>5, <3>1, GoneHasNotStayed DEF Inv, B!Named
    <3>3. B!Answer("notexist")
      BY <1>1, <1>3, <2>1 DEF B!Answer
    <3> QED BY <1>1, <2>1, <3>1, <3>2, <3>3 DEF B!NotExist, B!Next, Stayed
  <2>2. CASE result' # "notexist"
    <3>1. B!Answer("error")
      BY <1>1, <1>3, <1>6, <2>2 DEF B!Answer, Ended
    <3> QED BY <1>6, <2>2, <3>1 DEF B!Fails, B!Next, Ended
  <2> QED BY <2>1, <2>2
<1>7. CASE Fetched /\ op = "device"
  <2>1. ifis = <<name>> /\ ds = <<>> /\ name \in Names
    BY <1>1, <1>7 DEF Inv, Phases, TypeOK, Fetched
  <2>2. result' = "ok" /\ ds' = << <<name, family>> >>
    <3>1. Tail(ifis) = <<>> /\ Head(ifis) = name
      BY <2>1
    <3> QED BY <1>7, <2>1, <3>1 DEF Fetched, GoOn, Return
  <2>3. <<name, family>> \in Seen \ Unfit
    <3>1. <<name, family>> \in Links
      BY <1>7, <2>1 DEF Fetched, Kind, Links
    <3> QED BY <1>1, <1>7, <3>1
            DEF Fetched, Inv, ReturnedWasSeen, ChosenByKind, Served, Seen, Unfit, Devices
  <2>4. {ds'[i] : i \in DOMAIN ds'} = {<<name, family>>}
    BY <2>2
  <2>5. B!Answer("ok")
    BY <1>1, <1>3, <2>2 DEF B!Answer
  <2>6. <<name, family>>[1] = name /\ Unfit' = Unfit /\ name' = name
    BY <1>1 DEF Unfit
  <2>7. \E d \in Seen' \ Unfit : d[1] = name /\ {ds'[i] : i \in DOMAIN ds'} = {d}
    BY <1>3, <2>3, <2>4, <2>6
  <2>8. B!Finds
    BY <1>7, <2>2, <2>5, <2>7 DEF B!Finds, Seen, Unfit
  <2> QED BY <2>8 DEF B!Next
<1>8. CASE (Fetched \/ LeftOut) /\ op = "devices" /\ Tail(ifis) = <<>>
  <2>1. pc' = "done" /\ result' = "ok" /\ ds \in Seq(Names \X Families)
    BY <1>8 DEF GoOn, Return, Fetched, LeftOut, Inv, TypeOK
  <2>2. ASSUME NEW n \in Names, NEW d \in Stayed, d[1] = n
        PROVE  \E i \in DOMAIN ds' : ds'[i][1] = n
    <3>1. n \in stayed /\ links[n] \in found /\ DOMAIN Tail(ifis) = {}
      BY <1>5, <1>8, <2>2
    <3>2. CASE Fetched
      <4>1. family \in Families /\ Head(ifis) \in Names
        BY <1>1, <3>2, HeadOrTail DEF Fetched, Inv, ChosenByKind, Served, found
      <4>2. ds' = Append(ds, <<Head(ifis), family>>) /\ ds' \in Seq(Names \X Families) /\ ds' # ds
        BY <2>1, <3>2, <4>1 DEF Fetched
      <4>3. \A m \in stayed : links[m] \in found =>
              \/ \E i \in DOMAIN Tail(ifis) : Tail(ifis)[i] = m
              \/ \E i \in DOMAIN ds' : ds'[i][1] = m
        BY <1>1, <1>8, <4>1, <4>2, CoveredByRest DEF Inv
      <4> QED BY <3>1, <4>3
    <3>3. CASE LeftOut
      <4>1. n # Head(ifis)
        BY <3>1, <3>3, GoneHasNotStayed DEF LeftOut, Inv
      <4>2. ~ \E i \in DOMAIN ifis : ifis[i] = n
        BY <1>1, <3>1, <4>1, HeadOrTail
      <4> QED BY <1>1, <1>8, <3>1, <3>3, <4>2 DEF LeftOut, Inv, Covered
    <3> QED BY <1>8, <3>2, <3>3
  <2>3. \A n \in Names : (\E d \in Stayed' : d[1] = n) => \E i \in DOMAIN ds' : ds'[i][1] = n
    BY <1>3, <2>2
  <2> QED BY <1>1, <1>3, <1>8, <2>1, <2>3, ListEnds DEF B!Next
<1>9. CASE (Fetched \/ LeftOut) /\ Tail(ifis) # <<>>
  BY <1>4, <1>9 DEF GoOn, Fetched, LeftOut
<1> QED BY <1>1, <1>2, <1>4, <1>6, <1>7, <1>8, <1>9 DEF Looks, Chosen, LeftOut

\* The kernel's Client is a backend, however many links there are and however
\* often they change during a call.
THEOREM KernelIsBackend == Spec => ImplementsBackend
<1>1. Init => B!Init
  BY OpsAssumption DEF Init, B!Init, Devices
<1>2. Inv /\ Inv' /\ [Next]_vars => [B!Next]_(B!vars)
  <2> SUFFICES ASSUME Inv, Inv', [Next]_vars
               PROVE  B!Next \/ UNCHANGED B!vars
    OBVIOUS
  <2>1. CASE DialFails \/ LookUpWireGuard \/ LookUpAmnezia
    BY <2>1, LookUpStep DEF B!Next
  <2>2. CASE Cancelled \/ ListLinksFails
    <3>1. result = "none" /\ result' \in {"ctx", "error"} /\ pc' = "done"
      BY <2>2 DEF Cancelled, ListLinksFails, Begin, Return, Inv, Phases
    <3>2. B!Answer("error")
      BY <2>2, <3>1, BeginStep DEF B!Answer
    <3> QED BY <3>1, <3>2 DEF B!Fails, B!Next
  <2>3. CASE ListLinks /\ ifis' = <<>>
    <3>1. /\ result = "none" /\ result' = "ok" /\ pc' = "done" /\ op = "devices" /\ op' = op
          /\ ifis' \in Listings
      BY <2>3 DEF ListLinks, Begin, Return, Inv, Phases
    <3>2. B!Begun /\ Stayed' = Devices(Links)
      BY <2>3, BeginStep
    <3>3. Devices(Links) = {}
      <4>1. \A n \in Names : ~ IsWGKind(links[n])
        BY <2>3, <3>1, ListingIsWhole DEF Inv, TypeOK
      <4> QED BY <4>1 DEF Devices, Links, IsWGKind, found
    <3> QED BY <3>1, <3>2, <3>3, ListEnds DEF B!Next
  <2>4. CASE (ListLinks /\ ifis' # <<>>) \/ OneDevice
    <3>1. pc = "idle" /\ pc' # "idle" /\ result' = result /\ result = "none"
      BY <2>4 DEF ListLinks, OneDevice, Begin, Inv, Phases
    <3>2. B!Begun
      BY <2>4, BeginStep
    <3> QED BY <3>1, <3>2 DEF B!Begin, B!Next
  <2>5. CASE DeviceStep
    BY <2>5, DeviceIsBackend
  <2>6. ASSUME NEW n \in Names, NEW k \in Kinds, LinkChanges(n, k) PROVE B!Next
    BY <2>6, LinkChangeStep DEF B!Next
  <2>7. CASE CtxEnds \/ (\E f \in Families : ModuleLoaded(f)) \/ UNCHANGED vars
    <3>1. UNCHANGED <<links, stayed, seen, lookup, tooNew, op, name, result, ds, pc>>
      BY <2>7 DEF CtxEnds, ModuleLoaded, vars, linkVars, callVars
    <3> QED BY <3>1 DEF B!vars, Devices, Links, found
  <2> QED BY <2>1, <2>2, <2>3, <2>4, <2>5, <2>6, <2>7 DEF Next, DeviceStep
<1> QED BY <1>1, <1>2, Invariant, PTL DEF Spec, ImplementsBackend, B!Spec
=============================================================================

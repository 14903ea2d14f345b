-------------------------- MODULE WindowsClientProofs --------------------------
(***************************************************************************)
(* Theorems about WindowsClient, for every set of names and paths, every   *)
(* guess of the buffer's length and any number of calls and changes: an    *)
(* adapter of another name is read or set only where it was created, since *)
(* the cache was filled, at a path of the cache; an adapter that is there  *)
(* is denied only where the cache is stale; and Devices leaves out no      *)
(* adapter that stays.                                                     *)
(***************************************************************************)
EXTENDS WindowsClient, TLAPS

Running == pc \notin {"idle", "done"}
Reading == pc \in {"lookup", "open", "ioctl"}

-----------------------------------------------------------------------------
(* The inductive invariant.                                                *)

\* What belongs to a call exists only while it runs; a path is opened because
\* the cache has it for the call's name.
Phases ==
  /\ Running => result = "none"
  /\ Running /\ op # "devices" => ds = {} /\ pc # "pick"
  /\ pc = "idle" => ds = {} /\ result = "none"
  /\ pc \in {"open", "ioctl"} => name \in DOMAIN cached /\ file = cached[name]

\* The cache was true when it was filled: the adapter at a path of it has the
\* path's name, or was created since.
CacheWasTrue ==
  \A n \in DOMAIN cached :
    \/ adapters[cached[n]] \in {n, NoName}
    \/ <<adapters[cached[n]], cached[n]>> \in since

\* An adapter that has been there since the call began is there.
StayedThere == stayed \subseteq Adapters

\* Devices goes through the cache it has filled itself, and misses no name:
\* the cache is not filled again before the end.
Listing ==
  (op = "devices" /\ Running) =>
    /\ todo \subseteq DOMAIN cached
    /\ Reading => name \in DOMAIN cached

Listed(x) == <<x[1], x[1], x[2]>> \in ds

\* An adapter that stays is in the cache, and is listed, to come, or just
\* being read.
Covered ==
  (op = "devices" /\ Running /\ ~ failed) =>
    \A x \in stayed :
      /\ x[1] \in DOMAIN cached /\ cached[x[1]] = x[2]
      /\ Listed(x) \/ x[1] \in todo \/ (Reading /\ name = x[1])

\* All but the types.
Promises ==
  /\ Unique(adapters)
  /\ Phases /\ CacheWasTrue /\ StayedThere /\ Listing /\ Covered
  /\ HadTheName /\ OnlyStaleHides /\ ListsWhatStayed

Inv == TypeOK /\ Promises

-----------------------------------------------------------------------------
(* Adapters and the cache.                                                 *)

LEMMA AdaptersAre ==
  ASSUME adapters \in [Paths -> Names \union {NoName}]
  PROVE  \A x : x \in Adapters <=> \E p \in Paths : adapters[p] \in Names /\ x = <<adapters[p], p>>
BY NoNameAssumption DEF Adapters

\* A name has one path.
LEMMA PathIs ==
  ASSUME TypeOK, Unique(adapters), NEW n \in Names, NEW p \in Paths, adapters[p] = n
  PROVE  (CHOOSE q \in Paths : adapters[q] = n) = p
BY NoNameAssumption DEF Unique, TypeOK

\* refreshInterfaceCache: the cache is true, and whole unless a query failed.
LEMMA Refreshed ==
  ASSUME TypeOK, Unique(adapters), NEW before \in BOOLEAN, Refresh(before)
  PROVE  /\ DOMAIN cached' \subseteq Names
         /\ \A n \in DOMAIN cached' : cached'[n] \in Paths /\ adapters[cached'[n]] = n
         /\ since' = {}
         /\ failed' \in BOOLEAN
         /\ ~ failed' => /\ ~ before
                         /\ \A x \in Adapters : x[1] \in DOMAIN cached' /\ cached'[x[1]] = x[2]
<1>1. PICK found \in SUBSET Adapters :
        /\ cached' = [n \in {a[1] : a \in found} |-> CHOOSE p \in Paths : adapters[p] = n]
        /\ since' = {}
        /\ failed' = (before \/ found # Adapters)
  BY DEF Refresh
<1>2. ASSUME NEW x \in found
      PROVE  /\ x[1] \in Names /\ x[2] \in Paths /\ x = <<x[1], x[2]>>
             /\ cached'[x[1]] = x[2] /\ adapters[x[2]] = x[1]
  <2>1. PICK p \in Paths : adapters[p] \in Names /\ x = <<adapters[p], p>>
    BY AdaptersAre DEF TypeOK
  <2>2. (CHOOSE q \in Paths : adapters[q] = adapters[p]) = p
    BY <2>1, PathIs
  <2>3. x[1] \in {a[1] : a \in found}
    OBVIOUS
  <2> QED BY <1>1, <2>1, <2>2, <2>3
<1>3. DOMAIN cached' = {a[1] : a \in found}
  BY <1>1
<1>4. DOMAIN cached' \subseteq Names
  BY <1>2, <1>3
<1>5. \A n \in DOMAIN cached' : cached'[n] \in Paths /\ adapters[cached'[n]] = n
  BY <1>1, <1>2, <1>3
<1>6. ~ failed' => /\ ~ before
                   /\ \A x \in Adapters : x[1] \in DOMAIN cached' /\ cached'[x[1]] = x[2]
  BY <1>1, <1>2, <1>3
<1> QED BY <1>1, <1>4, <1>5, <1>6

LEMMA AdaptersTyped ==
  ASSUME TypeOK
  PROVE  Adapters \subseteq Names \X Paths
BY AdaptersAre DEF TypeOK

LEMMA InitInv == Init => Inv
<1> SUFFICES ASSUME Init PROVE Inv
  OBVIOUS
<1>1. TypeOK
  <2>1. 0 \in 0 .. (IF MaxLength > Default THEN MaxLength ELSE Default)
    BY LengthAssumption
  <2>2. 0 \in 0 .. MaxLength /\ 0 \in 0 .. MaxCalls
    BY LengthAssumption, CallsAssumption
  <2>3. DOMAIN cached = {}
    BY DEF Init
  <2> QED BY <2>1, <2>2, <2>3 DEF Init, TypeOK
<1> QED BY <1>1 DEF Init, Inv, Promises, Phases, CacheWasTrue, StayedThere, Listing, Covered,
                    HadTheName, OnlyStaleHides, ListsWhatStayed, Running

-----------------------------------------------------------------------------
(* Type correctness, by action.                                            *)

LEMMA TypeStep ==
  ASSUME TypeOK, Phases, Unique(adapters), [Next]_vars
  PROVE  TypeOK'
<1> USE DEF cacheVars, callVars, envVars
<1>1. Adapters \subseteq Names \X Paths
  BY AdaptersTyped
<1>2. ASSUME NEW o \in {"devices", "device", "configure"}, NEW n \in Names,
             Begin(o, n), DOMAIN cached' \subseteq Names,
             \A m \in DOMAIN cached' : cached'[m] \in Paths,
             todo' \subseteq Names, since' \subseteq Names \X Paths,
             ctxDone' \in BOOLEAN, failed' \in BOOLEAN,
             pc' \in {"pick", "lookup", "done"},
             result' \in {"none", "ok", "notexist", "ctx", "error"}
      PROVE  TypeOK'
  <2>1. size' \in 0 .. (IF MaxLength > Default THEN MaxLength ELSE Default)
        /\ read' \in 0 .. MaxLength
    BY <1>2, LengthAssumption DEF Begin
  <2>2. calls' \in 0 .. MaxCalls
    BY <1>2, CallsAssumption DEF Begin, TypeOK
  <2> QED BY <1>1, <1>2, <2>1, <2>2 DEF Begin, TypeOK
<1>3. ASSUME NEW o \in {"devices", "device", "configure"}, NEW n \in Names,
             Cancelled(o, n) \/ BeginByName(o, n)
      PROVE  TypeOK'
  <2>1. Begin(o, n) /\ UNCHANGED <<cached, since, todo>>
    BY <1>3 DEF Cancelled, BeginByName
  <2>2. /\ ctxDone' \in BOOLEAN /\ failed' \in BOOLEAN
        /\ pc' \in {"pick", "lookup", "done"}
        /\ result' \in {"none", "ok", "notexist", "ctx", "error"}
    BY <1>3 DEF Cancelled, BeginByName, Return
  <2>3. /\ DOMAIN cached' \subseteq Names
        /\ \A m \in DOMAIN cached' : cached'[m] \in Paths
        /\ todo' \subseteq Names /\ since' \subseteq Names \X Paths
    BY <2>1 DEF TypeOK
  <2> QED BY <1>2, <2>1, <2>2, <2>3
<1>4. ASSUME NEW n \in Names, BeginDevices(n) PROVE TypeOK'
  <2>1. Refresh(FALSE) /\ Begin("devices", n) /\ todo' = DOMAIN cached'
    BY <1>4 DEF BeginDevices
  <2>2. /\ DOMAIN cached' \subseteq Names
        /\ \A m \in DOMAIN cached' : cached'[m] \in Paths
        /\ since' \subseteq Names \X Paths /\ failed' \in BOOLEAN
    BY <1>1, <2>1, Refreshed
  <2> QED BY <1>2, <1>4, <2>1, <2>2 DEF BeginDevices
<1>5. ASSUME NEW n \in Names, RefreshFails(n) PROVE TypeOK'
  <2>1. Begin("devices", n) /\ UNCHANGED <<cached, since, todo>>
        /\ ctxDone' = FALSE /\ failed' = TRUE /\ pc' = "done" /\ result' = "error"
    BY <1>5 DEF RefreshFails, Return
  <2>2. /\ DOMAIN cached' \subseteq Names
        /\ \A m \in DOMAIN cached' : cached'[m] \in Paths
        /\ todo' \subseteq Names /\ since' \subseteq Names \X Paths
    BY <2>1 DEF TypeOK
  <2> QED BY <1>2, <2>1, <2>2
<1>6. ASSUME NEW n \in todo, Pick(n) PROVE TypeOK'
  BY <1>6 DEF Pick, Return, TypeOK
<1>7. CASE DevicesDone
  BY <1>7 DEF DevicesDone, Return, TypeOK
<1>8. CASE Hit
  BY <1>8 DEF Hit, TypeOK
<1>9. CASE Miss
  <2>1. Refresh(failed) /\ failed \in BOOLEAN
    BY <1>9 DEF Miss, TypeOK
  <2>2. /\ DOMAIN cached' \subseteq Names
        /\ \A m \in DOMAIN cached' : cached'[m] \in Paths
        /\ since' \subseteq Names \X Paths /\ failed' \in BOOLEAN
    BY <1>1, <2>1, Refreshed
  <2>3. /\ file' \in Paths /\ pc' \in {"open", "done"}
        /\ result' \in {"none", "ok", "notexist", "ctx", "error"}
    BY <1>9, <2>2 DEF Miss, Return, TypeOK
  <2> QED BY <1>9, <2>2, <2>3 DEF Miss, TypeOK
<1>10. CASE Opens
  <2>1. size' \in 0 .. (IF MaxLength > Default THEN MaxLength ELSE Default) /\ size' > 0
    BY <1>10, LengthAssumption DEF Opens, TypeOK
  <2> QED BY <1>10, <2>1 DEF Opens, TypeOK
<1>11. CASE NotFound
  BY <1>11 DEF NotFound, Return, TypeOK
<1>12. CASE MoreData
  <2>1. size' \in 0 .. (IF MaxLength > Default THEN MaxLength ELSE Default) /\ size' > 0
    BY <1>12, LengthAssumption DEF MoreData, TypeOK
  <2> QED BY <1>12, <2>1 DEF MoreData, TypeOK
<1>13. CASE Gets
  <2>1. length[file] \in 1 .. MaxLength
    BY DEF TypeOK
  <2>2. /\ size' \in 0 .. (IF MaxLength > Default THEN MaxLength ELSE Default)
        /\ lastLenGuess' \in 0 .. MaxLength /\ read' \in 0 .. MaxLength
    BY <1>13, <2>1, LengthAssumption DEF Gets, Got
  <2>3. ds' \subseteq Names \X Names \X Paths
    <3>1. ds' = ds \union {<<name, adapters[file], file>>} /\ adapters[file] \in Names
      BY <1>13 DEF Gets, Got, TypeOK
    <3> QED BY <3>1 DEF TypeOK
  <2>4. pc' \in {"pick", "done"} /\ result' \in {"none", "ok", "notexist", "ctx", "error"}
    BY <1>13 DEF Gets, Got, Return, TypeOK
  <2> QED BY <1>13, <2>2, <2>3, <2>4 DEF Gets, Got, TypeOK
<1>14. ASSUME NEW l \in 1 .. MaxLength, Sets(l) PROVE TypeOK'
  <2>1. length' \in [Paths -> 1 .. MaxLength]
    BY <1>14 DEF Sets, TypeOK
  <2>2. ds' \subseteq Names \X Names \X Paths
    <3>1. ds' = {<<name, adapters[file], file>>} /\ adapters[file] \in Names
      BY <1>14 DEF Sets, TypeOK
    <3> QED BY <3>1 DEF TypeOK
  <2> QED BY <1>14, <2>1, <2>2 DEF Sets, Return, TypeOK
<1>15. CASE MissFails \/ OpenFails \/ IoctlFails
  BY <1>15 DEF MissFails, OpenFails, IoctlFails, Return, TypeOK
<1>16. CASE CtxEnds
  BY <1>16 DEF CtxEnds, TypeOK
<1>17. ASSUME NEW p \in Paths, NEW n \in Names, NEW l \in 1 .. MaxLength, Created(p, n, l)
       PROVE  TypeOK'
  <2>1. /\ adapters' \in [Paths -> Names \union {NoName}]
        /\ length' \in [Paths -> 1 .. MaxLength]
        /\ stayed' \subseteq Names \X Paths
        /\ since' \subseteq Names \X Paths
    BY <1>17 DEF Created, Changes, TypeOK
  <2> QED BY <1>17, <2>1 DEF Created, Changes, TypeOK
<1>18. ASSUME NEW p \in Paths, Removed(p) PROVE TypeOK'
  <2>1. /\ adapters' \in [Paths -> Names \union {NoName}]
        /\ length' = length
        /\ stayed' \subseteq Names \X Paths
    BY <1>18 DEF Removed, Changes, TypeOK
  <2> QED BY <1>18, <2>1 DEF Removed, Changes, TypeOK
<1>19. ASSUME NEW p \in Paths, NEW l \in 1 .. MaxLength, Reconfigured(p, l) PROVE TypeOK'
  <2>1. /\ adapters' = adapters
        /\ length' \in [Paths -> 1 .. MaxLength]
        /\ stayed' \subseteq Names \X Paths
    BY <1>19 DEF Reconfigured, Changes, TypeOK
  <2> QED BY <1>19, <2>1 DEF Reconfigured, Changes, TypeOK
<1>20. CASE UNCHANGED vars
  BY <1>20 DEF vars, TypeOK
<1> QED BY <1>3, <1>4, <1>5, <1>6, <1>7, <1>8, <1>9, <1>10, <1>11, <1>12, <1>13, <1>14,
           <1>15, <1>16, <1>17, <1>18, <1>19, <1>20 DEF Next, Step, Failure

-----------------------------------------------------------------------------
(* The other conjuncts, action by action.                                  *)

\* A call that begins, whatever it finds first.
LEMMA BeginStep ==
  ASSUME Inv, NEW o \in {"devices", "device", "configure"}, NEW n \in Names,
         Cancelled(o, n) \/ BeginByName(o, n)
  PROVE  Promises'
<1>1. /\ UNCHANGED <<adapters, cached, since>>
      /\ ds' = {} /\ op' = o /\ name' = n /\ stayed' = Adapters
      /\ \/ pc' = "done" /\ result' = "ctx"
         \/ pc' = "lookup" /\ result' = "none" /\ o # "devices"
  BY DEF Cancelled, BeginByName, Begin, Return, envVars
<1>2. Unique(adapters)' /\ CacheWasTrue' /\ HadTheName'
  BY <1>1 DEF Inv, Promises, CacheWasTrue, HadTheName, Unique
<1>3. StayedThere'
  BY <1>1 DEF StayedThere, Adapters
<1> QED BY <1>1, <1>2, <1>3 DEF Promises, Phases, Listing, Covered, OnlyStaleHides,
                               ListsWhatStayed, Running

LEMMA BeginDevicesStep ==
  ASSUME Inv, NEW n \in Names, BeginDevices(n) \/ RefreshFails(n)
  PROVE  Promises'
<1>1. /\ adapters' = adapters
      /\ ds' = {} /\ op' = "devices" /\ stayed' = Adapters
  BY DEF BeginDevices, RefreshFails, Begin, envVars
<1>2. Unique(adapters)' /\ HadTheName' /\ StayedThere'
  BY <1>1 DEF Inv, Promises, HadTheName, Unique, StayedThere, Adapters
<1>3. CASE BeginDevices(n)
  <2>1. /\ Refresh(FALSE) /\ todo' = DOMAIN cached'
        /\ pc' = "pick" /\ result' = "none"
    BY <1>3 DEF BeginDevices
  <2>2. /\ \A m \in DOMAIN cached' : adapters[cached'[m]] = m
        /\ ~ failed' => \A x \in Adapters : x[1] \in DOMAIN cached' /\ cached'[x[1]] = x[2]
    BY <2>1, Refreshed DEF Inv, Promises
  <2> QED BY <1>1, <1>2, <2>1, <2>2
        DEF Promises, Phases, CacheWasTrue, Listing, Covered, OnlyStaleHides,
            ListsWhatStayed, Running, Reading
<1>4. CASE RefreshFails(n)
  <2>1. UNCHANGED <<cached, since>> /\ pc' = "done" /\ result' = "error"
    BY <1>4 DEF RefreshFails, Return
  <2> QED BY <1>1, <1>2, <2>1
        DEF Inv, Promises, Phases, CacheWasTrue, Listing, Covered, OnlyStaleHides,
            ListsWhatStayed, Running, Reading
<1> QED BY <1>3, <1>4

\* The turns of Devices' loop.
LEMMA LoopStep ==
  ASSUME Inv, DevicesDone \/ \E n \in todo : Pick(n)
  PROVE  Promises'
<1> USE DEF cacheVars, callVars, envVars
<1>1. /\ UNCHANGED <<adapters, cached, since, stayed, ds, op>> /\ pc = "pick"
  BY DEF DevicesDone, Pick
<1>2. Unique(adapters)' /\ CacheWasTrue' /\ StayedThere' /\ HadTheName' /\ op = "devices"
  BY <1>1 DEF Inv, Promises, Unique, CacheWasTrue, StayedThere, HadTheName, Adapters, Phases, Running
<1>3. CASE DevicesDone
  <2>1. todo = {} /\ pc' = "done" /\ result' = "ok" /\ failed' = failed
    BY <1>3 DEF DevicesDone, Return
  <2>2. ~ failed => \A x \in stayed : Listed(x)
    BY <1>1, <1>2, <2>1 DEF Inv, Promises, Covered, Running, Reading
  <2> QED BY <1>1, <1>2, <2>1, <2>2
        DEF Promises, Phases, Listing, Covered, Listed, OnlyStaleHides, ListsWhatStayed, Running,
            Reading
<1>4. ASSUME NEW n \in todo, Pick(n) PROVE Promises'
  <2>1. todo' = todo \ {n} /\ name' = n
    BY <1>4 DEF Pick
  <2>2. \/ pc' = "done" /\ result' = "ctx"
        \/ pc' = "lookup" /\ UNCHANGED <<result, failed>>
    BY <1>4 DEF Pick, Return
  <2>3. todo \subseteq DOMAIN cached /\ result = "none"
    BY <1>1, <1>2 DEF Inv, Promises, Listing, Phases, Running
  <2>4. ~ failed => \A x \in stayed :
                      /\ x[1] \in DOMAIN cached /\ cached[x[1]] = x[2]
                      /\ Listed(x) \/ x[1] \in todo
    BY <1>1, <1>2 DEF Inv, Promises, Covered, Running, Reading
  <2> QED BY <1>1, <1>2, <2>1, <2>2, <2>3, <2>4
        DEF Promises, Phases, Listing, Covered, Listed, OnlyStaleHides, ListsWhatStayed, Running,
            Reading
<1> QED BY <1>3, <1>4

\* interfaceHandle: the path that is opened is the cache's.
LEMMA LookupStep ==
  ASSUME Inv, Hit \/ Miss \/ MissFails
  PROVE  Promises'
<1> USE DEF cacheVars, callVars, envVars
<1>1. /\ UNCHANGED <<adapters, stayed, ds, op, name, todo>> /\ pc = "lookup"
  BY DEF Hit, Miss, MissFails
<1>2. Unique(adapters)' /\ StayedThere' /\ result = "none"
  BY <1>1 DEF Inv, Promises, Unique, StayedThere, Adapters, Phases, Running
<1>3. CASE Hit
  BY <1>1, <1>2, <1>3
  DEF Hit, Inv, Promises, Phases, CacheWasTrue, Listing, Covered, Listed, HadTheName,
      OnlyStaleHides, ListsWhatStayed, Running, Reading
<1>4. CASE MissFails
  BY <1>1, <1>2, <1>4
  DEF MissFails, Return, Inv, Promises, Phases, CacheWasTrue, Listing, Covered, HadTheName,
      OnlyStaleHides, ListsWhatStayed, Running, Reading
<1>5. CASE Miss
  <2>1. name \notin DOMAIN cached /\ Refresh(failed) /\ op # "devices" /\ ds = {}
    BY <1>1, <1>5 DEF Miss, Inv, Promises, Listing, Phases, Running, Reading
  <2>2. /\ \A m \in DOMAIN cached' : adapters[cached'[m]] = m
        /\ ~ failed' => \A x \in Adapters : x[1] \in DOMAIN cached' /\ cached'[x[1]] = x[2]
    BY <2>1, Refreshed DEF Inv, Promises, TypeOK
  <2>3. \/ name \in DOMAIN cached' /\ file' = cached'[name] /\ pc' = "open" /\ result' = result
        \/ name \notin DOMAIN cached' /\ pc' = "done" /\ result' = "notexist"
    BY <1>5 DEF Miss, Return
  <2>4. OnlyStaleHides'
    <3> SUFFICES ASSUME result' = "notexist", ~ failed', NEW p \in Paths, <<name, p>> \in stayed
                 PROVE  FALSE
      BY <1>1 DEF OnlyStaleHides
    <3>1. <<name, p>> \in Adapters
      BY DEF Inv, Promises, StayedThere
    <3>2. name \in DOMAIN cached'
      BY <2>2, <3>1
    <3> QED BY <1>2, <2>3, <3>2
  <2> QED BY <1>1, <1>2, <2>1, <2>2, <2>3, <2>4
        DEF Promises, Phases, CacheWasTrue, Listing, Covered, HadTheName,
            ListsWhatStayed, Running, Reading
<1> QED BY <1>3, <1>4, <1>5

\* Opening it.
LEMMA OpenStep ==
  ASSUME Inv, Opens \/ NotFound \/ OpenFails
  PROVE  Promises'
<1> USE DEF cacheVars, callVars, envVars
<1>1. /\ UNCHANGED <<adapters, cached, since, stayed, ds, op, name, todo, file>> /\ pc = "open"
  BY DEF Opens, NotFound, OpenFails
<1>2. /\ Unique(adapters)' /\ StayedThere' /\ CacheWasTrue' /\ HadTheName'
      /\ result = "none" /\ name \in DOMAIN cached /\ file = cached[name]
  BY <1>1 DEF Inv, Promises, Unique, StayedThere, CacheWasTrue, HadTheName, Adapters, Phases, Running
<1>3. CASE Opens \/ OpenFails
  BY <1>1, <1>2, <1>3
  DEF Opens, OpenFails, Return, Inv, Promises, Phases, Listing, Covered, Listed,
      OnlyStaleHides, ListsWhatStayed, Running, Reading
<1>4. CASE NotFound
  <2>1. adapters[file] = NoName /\ pc' = "done" /\ result' = "notexist"
    BY <1>4 DEF NotFound, Return
  <2>2. \A p \in Paths : <<name, p>> \in stayed => cached[name] # p
    <3>1. \A x \in stayed : \E p \in Paths : adapters[p] \in Names /\ x = <<adapters[p], p>>
      BY AdaptersAre DEF Inv, Promises, TypeOK, StayedThere
    <3> QED BY <1>2, <2>1, <3>1, NoNameAssumption
  <2> QED BY <1>1, <1>2, <2>1, <2>2
        DEF Promises, Phases, Listing, Covered, OnlyStaleHides, ListsWhatStayed, Running, Reading
<1> QED BY <1>3, <1>4

\* DeviceIoControl.
LEMMA IoctlStep ==
  ASSUME Inv, MoreData \/ Gets \/ IoctlFails \/ \E l \in 1 .. MaxLength : Sets(l)
  PROVE  Promises'
<1> USE DEF cacheVars, callVars, envVars
<1>1. /\ UNCHANGED <<adapters, cached, since, stayed, op, name, todo, file>> /\ pc = "ioctl"
  BY DEF MoreData, Gets, Got, IoctlFails, Sets
<1>2. /\ Unique(adapters)' /\ StayedThere' /\ CacheWasTrue'
      /\ result = "none" /\ name \in DOMAIN cached /\ file = cached[name]
      /\ adapters[file] \in {name, NoName} \/ <<adapters[file], file>> \in since
  BY <1>1 DEF Inv, Promises, Unique, StayedThere, CacheWasTrue, Adapters, Phases, Running
<1>3. CASE MoreData \/ IoctlFails
  BY <1>1, <1>2, <1>3
  DEF MoreData, IoctlFails, Return, Inv, Promises, Phases, Listing, Covered, Listed, HadTheName,
      OnlyStaleHides, ListsWhatStayed, Running, Reading
<1>4. CASE Gets
  <2>1. /\ ds' = ds \union {<<name, adapters[file], file>>} /\ failed' = failed
        /\ adapters[file] # NoName
        /\ IF op = "devices" THEN pc' = "pick" /\ result' = result
           ELSE pc' = "done" /\ result' = "ok"
    BY <1>4 DEF Gets, Got, Return
  <2>2. HadTheName'
    <3>1. adapters[file] = name \/ <<adapters[file], file>> \in since
      BY <1>2, <2>1
    <3>2. \A d \in ds' : d \in ds \/ (d[1] = name /\ d[2] = adapters[file] /\ d[3] = file)
      BY <2>1
    <3> QED BY <1>1, <3>1, <3>2 DEF Inv, Promises, HadTheName
  <2>3. Covered'
    <3> SUFFICES ASSUME op = "devices", ~ failed, NEW x \in stayed
                 PROVE  /\ x[1] \in DOMAIN cached /\ cached[x[1]] = x[2]
                        /\ <<x[1], x[1], x[2]>> \in ds' \/ x[1] \in todo
      BY <1>1, <2>1 DEF Covered, Listed, Reading
    <3>1. /\ x[1] \in DOMAIN cached /\ cached[x[1]] = x[2]
          /\ <<x[1], x[1], x[2]>> \in ds \/ x[1] \in todo \/ name = x[1]
      BY <1>1 DEF Inv, Promises, Covered, Listed, Running
    <3>2. adapters[x[2]] = x[1]
      BY AdaptersAre DEF Inv, Promises, TypeOK, StayedThere
    <3> QED BY <1>2, <2>1, <3>1, <3>2
  <2> QED BY <1>1, <1>2, <2>1, <2>2, <2>3
        DEF Inv, Promises, Phases, Listing, OnlyStaleHides, ListsWhatStayed, Running, Reading
<1>5. ASSUME NEW l \in 1 .. MaxLength, Sets(l) PROVE Promises'
  <2>1. op = "configure" /\ ds' = {<<name, adapters[file], file>>} /\ adapters[file] # NoName
        /\ pc' = "done" /\ result' = "ok"
    BY <1>5 DEF Sets, Return
  <2> QED BY <1>1, <1>2, <2>1
        DEF Promises, Phases, Listing, Covered, HadTheName, OnlyStaleHides,
            ListsWhatStayed, Running, Reading
<1> QED BY <1>3, <1>4, <1>5

\* Adapters come, go and change: stayed shrinks with them.
LEMMA ChangesStep ==
  ASSUME Inv, NEW p \in Paths, NEW a \in [Paths -> Names \union {NoName}], NEW l,
         Changes(p, a, l), since \subseteq since',
         a[p] \in {adapters[p], NoName} \/ <<a[p], p>> \in since',
         Unique(a), \A q \in Paths \ {p} : a[q] = adapters[q]
  PROVE  Promises'
<1> USE DEF cacheVars, callVars
<1>1. /\ adapters' = a
      /\ stayed' = {x \in stayed : x[2] # p \/ a[p] = x[1]}
      /\ UNCHANGED <<cached, op, name, todo, ds, file, pc, result, failed>>
  BY DEF Changes
<1>2. StayedThere'
  <2> SUFFICES ASSUME NEW x \in stayed' PROVE x \in Adapters'
    BY DEF StayedThere
  <2>1. x \in stayed /\ (x[2] # p \/ a[p] = x[1])
    BY <1>1
  <2>2. PICK q \in Paths : adapters[q] \in Names /\ x = <<adapters[q], q>>
    BY <2>1, AdaptersAre DEF Inv, Promises, TypeOK, StayedThere
  <2>3. a[q] = adapters[q]
    BY <2>1, <2>2
  <2> QED BY <1>1, <2>2, <2>3, NoNameAssumption DEF Adapters
<1>3. stayed' \subseteq stayed
  BY <1>1
<1>4. OnlyStaleHides' /\ ListsWhatStayed' /\ Covered'
  BY <1>1, <1>3 DEF Inv, Promises, OnlyStaleHides, ListsWhatStayed, Covered, Listed, Running,
                    Reading
<1>5. HadTheName' /\ CacheWasTrue'
  <2>1. HadTheName'
    BY <1>1 DEF Inv, Promises, HadTheName
  <2>2. ASSUME NEW n \in DOMAIN cached
        PROVE  a[cached[n]] \in {n, NoName} \/ <<a[cached[n]], cached[n]>> \in since'
    <3>1. cached[n] \in Paths
      BY DEF Inv, TypeOK
    <3>2. adapters[cached[n]] \in {n, NoName} \/ <<adapters[cached[n]], cached[n]>> \in since
      BY DEF Inv, Promises, CacheWasTrue
    <3>3. CASE cached[n] = p
      BY <3>2, <3>3
    <3>4. CASE cached[n] # p
      BY <3>1, <3>2, <3>4
    <3> QED BY <3>3, <3>4
  <2> QED BY <1>1, <2>1, <2>2 DEF CacheWasTrue
<1>6. Phases' /\ Listing' /\ Unique(adapters)'
  BY <1>1 DEF Inv, Promises, Phases, Listing, Running, Reading, Unique
<1> QED BY <1>2, <1>4, <1>5, <1>6 DEF Promises

LEMMA EnvStep ==
  ASSUME Inv,
         \/ \E p \in Paths, n \in Names, l \in 1 .. MaxLength : Created(p, n, l)
         \/ \E p \in Paths : Removed(p)
         \/ \E p \in Paths, l \in 1 .. MaxLength : Reconfigured(p, l)
  PROVE  Promises'
<1>1. adapters \in [Paths -> Names \union {NoName}] /\ Unique(adapters)
  BY DEF Inv, Promises, TypeOK
<1>2. ASSUME NEW p \in Paths, NEW n \in Names, NEW l \in 1 .. MaxLength, Created(p, n, l)
      PROVE  Promises'
  <2> DEFINE a == [adapters EXCEPT ![p] = n]
  <2>1. /\ a \in [Paths -> Names \union {NoName}]
        /\ \A q \in Paths \ {p} : a[q] = adapters[q]
    BY <1>1
  <2>2. Unique(a)
    BY <1>1, <1>2 DEF Created, Unique
  <2>3. /\ Changes(p, a, [length EXCEPT ![p] = l])
        /\ since \subseteq since' /\ <<a[p], p>> \in since'
    BY <1>1, <1>2 DEF Created
  <2> HIDE DEF a
  <2> QED BY <2>1, <2>2, <2>3, ChangesStep
<1>3. ASSUME NEW p \in Paths, Removed(p) PROVE Promises'
  <2> DEFINE a == [adapters EXCEPT ![p] = NoName]
  <2>1. /\ a \in [Paths -> Names \union {NoName}]
        /\ \A q \in Paths \ {p} : a[q] = adapters[q]
    BY <1>1
  <2>2. Unique(a)
    BY <1>1 DEF Unique
  <2>3. Changes(p, a, length) /\ since \subseteq since' /\ a[p] = NoName
    BY <1>1, <1>3 DEF Removed
  <2> HIDE DEF a
  <2> QED BY <2>1, <2>2, <2>3, ChangesStep
<1>4. ASSUME NEW p \in Paths, NEW l \in 1 .. MaxLength, Reconfigured(p, l) PROVE Promises'
  <2>1. Changes(p, adapters, [length EXCEPT ![p] = l]) /\ since \subseteq since'
    BY <1>4 DEF Reconfigured
  <2> QED BY <1>1, <2>1, ChangesStep
<1> QED BY <1>2, <1>3, <1>4

LEMMA InvStep == Inv /\ [Next]_vars => Inv'
<1> SUFFICES ASSUME Inv, [Next]_vars PROVE Inv'
  OBVIOUS
<1>1. TypeOK'
  BY TypeStep DEF Inv, Promises
<1>2. ASSUME CtxEnds PROVE Promises'
  BY <1>2 DEF CtxEnds, cacheVars, envVars, Inv, Promises, Phases, CacheWasTrue, StayedThere,
              Listing, Covered, Listed, HadTheName, OnlyStaleHides, ListsWhatStayed, Unique,
              Adapters, Running, Reading
<1>3. ASSUME UNCHANGED vars PROVE Promises'
  BY <1>3 DEF vars, cacheVars, callVars, envVars, Inv, Promises, Phases, CacheWasTrue,
              StayedThere, Listing, Covered, Listed, HadTheName, OnlyStaleHides, ListsWhatStayed,
              Unique, Adapters, Running, Reading
<1>4. Promises'
  BY <1>2, <1>3, BeginStep, BeginDevicesStep, LoopStep, LookupStep, OpenStep, IoctlStep,
     EnvStep DEF Inv, Promises, Next, Step, Failure
<1> QED BY <1>1, <1>4 DEF Inv

LEMMA Invariant == Spec => []Inv
BY InitInv, InvStep, PTL DEF Spec

-----------------------------------------------------------------------------
(* The theorems.                                                           *)

\* Every variable keeps its type; in particular the buffer is never empty when
\* its first byte's address is taken.
THEOREM TypeCorrect == Spec => []TypeOK
BY Invariant, PTL DEF Inv, Promises

\* os.ErrNotExist for an adapter that is there is said only where the cache
\* has another path for its name, or a query failed.
THEOREM StaleOnly == Spec => []OnlyStaleHides
BY Invariant, PTL DEF Inv, Promises

\* The adapter that is read or set under a name is that name's, though the
\* cache outlives the calls and adapters come and go; the one exception is an
\* adapter created since at a path that the cache gives another name.
THEOREM NamedRight == Spec => []HadTheName
BY Invariant, PTL DEF Inv, Promises

\* Devices returns every adapter that stays, or an error.
THEOREM ListsAll == Spec => []ListsWhatStayed
BY Invariant, PTL DEF Inv, Promises
===============================================================================

----------------------------- MODULE UserspaceProofs -----------------------------
(***************************************************************************)
(* Proofs about Userspace, for any finite set of names and any number of   *)
(* changes: stale sockets hide nothing, the first daemon of a name is the  *)
(* one that is spoken to, and the Client is a Backend.                     *)
(*                                                                         *)
(* What makes this right is Covered: a daemon that is there all along,     *)
(* in a directory that has been read, is still to be asked or has answered.*)
(***************************************************************************)
EXTENDS Userspace, FiniteSetTheorems, TLAPS

\* A daemon that listened all along does so now, one that listens has been
\* seen, and what has been seen has a file.
SocketsRemembered ==
  /\ stayed \subseteq seen /\ seen \subseteq file /\ file \subseteq Sockets
  /\ \A s \in Sockets : /\ s \in stayed => sock[s] = "live"
                        /\ sock[s] = "live" => s \in seen
                        /\ sock[s] # "none" => s \in file

\* The phases of a call; Device and ConfigureDevice find nothing before the end.
Phases ==
  /\ pc = "start" => dir = 1
  /\ pc = "find" => dir <= Len(Directories)
  /\ pc \in {"next", "wait"} => dir = Len(Directories) + 1
  /\ (op # "devices" /\ pc # "done") => found = <<>>
  /\ pc \in {"start", "find"} => found = <<>>
  /\ result = "notexist" => op # "devices"
  /\ op # "devices" /\ result = "ok" => Len(found) = 1 /\ found[1] \in seen

\* What is to be asked was found in a directory that has been read, the first
\* directory's sockets before the second's.
InOrder ==
  /\ \A i \in DOMAIN todo : todo[i] \in file /\ todo[i][1] < dir /\ Asked(todo[i])
  /\ \A i, j \in DOMAIN todo : i < j => todo[i][1] <= todo[j][1]

\* Only daemons that were there have answered, or may yet.
AnsweredWasThere ==
  /\ \A i \in DOMAIN found : found[i] \in seen
  /\ pc = "wait" => Head(todo) \in seen

\* The daemons that were there all along, of a directory that has been read.
Covered ==
  pc \in {"start", "find", "next", "wait"} =>
    \A s \in stayed : (s[1] < dir /\ Asked(s)) => s \in ToSet(todo) \union ToSet(found)

Inv == TypeOK /\ SocketsRemembered /\ Phases /\ InOrder /\ AnsweredWasThere /\ Covered

-----------------------------------------------------------------------------
(* The operators.                                                          *)

\* SetToSeq lists all of a finite set.
LEMMA SetToSeqIsWhole ==
  ASSUME NEW S, IsFiniteSet(S)
  PROVE  /\ SetToSeq(S) \in Seq(S)
         /\ \A x \in S : \E i \in DOMAIN SetToSeq(S) : SetToSeq(S)[i] = x
<1> DEFINE C == Cardinality(S)
<1>1. C \in Nat /\ ExistsBijection(1 .. C, S)
  BY FS_CardinalityType
<1>2. \E f \in [1 .. C -> S] : IsInjective(f)
  BY <1>1 DEF ExistsBijection, Bijection, Injection
<1>3. SetToSeq(S) \in [1 .. C -> S] /\ IsInjective(SetToSeq(S))
  BY <1>2 DEF SetToSeq
<1>4. Cardinality(1 .. C) = C
  BY <1>1, FS_Interval
<1>5. SetToSeq(S) \in Surjection(1 .. C, S)
  BY <1>3, <1>4, FS_Injection DEF Injection
<1> QED BY <1>1, <1>3, <1>5 DEF Surjection

\* Where the elements of a concatenation are.
LEMMA Concatenation ==
  ASSUME NEW S, NEW s \in Seq(S), NEW t \in Seq(S)
  PROVE  /\ s \o t \in Seq(S)
         /\ \A i \in DOMAIN (s \o t) :
              \/ i \in DOMAIN s /\ (s \o t)[i] = s[i]
              \/ i > Len(s) /\ i - Len(s) \in DOMAIN t /\ (s \o t)[i] = t[i - Len(s)]
         /\ \A i \in DOMAIN s : i \in DOMAIN (s \o t) /\ (s \o t)[i] = s[i]
         /\ \A i \in DOMAIN t : i + Len(s) \in DOMAIN (s \o t) /\ (s \o t)[i + Len(s)] = t[i]
OBVIOUS

\* The head of a sequence and its tail are all that is in it, in its order.
LEMMA HeadOrTail ==
  ASSUME NEW S, NEW s \in Seq(S), s # <<>>
  PROVE  /\ Head(s) = s[1] /\ 1 \in DOMAIN s /\ Head(s) \in S /\ Tail(s) \in Seq(S)
         /\ \A i \in DOMAIN Tail(s) : i + 1 \in DOMAIN s /\ Tail(s)[i] = s[i + 1]
         /\ \A i \in DOMAIN s : i # 1 => i - 1 \in DOMAIN Tail(s) /\ Tail(s)[i - 1] = s[i]
OBVIOUS

LEMMA RestIsLeft ==
  ASSUME NEW S, NEW s \in Seq(S), s # <<>>, NEW x \in ToSet(s), x # Head(s)
  PROVE  x \in ToSet(Tail(s))
<1>1. PICK i \in DOMAIN s : s[i] = x
  BY DEF ToSet
<1>2. i # 1
  BY <1>1, HeadOrTail
<1>3. i - 1 \in DOMAIN Tail(s) /\ Tail(s)[i - 1] = x
  BY <1>1, <1>2, HeadOrTail
<1> QED BY <1>3 DEF ToSet

LEMMA JoinedHasBoth ==
  ASSUME NEW S, NEW s \in Seq(S), NEW t \in Seq(S)
  PROVE  ToSet(s) \subseteq ToSet(s \o t) /\ ToSet(t) \subseteq ToSet(s \o t)
<1>1. ASSUME NEW i \in DOMAIN s PROVE s[i] \in ToSet(s \o t)
  BY Concatenation DEF ToSet
<1>2. ASSUME NEW i \in DOMAIN t PROVE t[i] \in ToSet(s \o t)
  <2>1. i + Len(s) \in DOMAIN (s \o t) /\ (s \o t)[i + Len(s)] = t[i]
    BY Concatenation
  <2>2. (s \o t)[i + Len(s)] \in ToSet(s \o t)
    BY <2>1 DEF ToSet
  <2> QED BY <2>1, <2>2
<1> QED BY <1>1, <1>2 DEF ToSet

\* The sockets of a directory that are to be asked.
Ours(d) == {s \in Sockets : s[1] = d /\ sock[s] # "none" /\ Asked(s)}

LEMMA OursAreListed ==
  ASSUME NEW d
  PROVE  /\ SetToSeq(Ours(d)) \in Seq(Sockets)
         /\ \A i \in DOMAIN SetToSeq(Ours(d)) : SetToSeq(Ours(d))[i] \in Ours(d)
         /\ \A s \in Ours(d) : \E i \in DOMAIN SetToSeq(Ours(d)) : SetToSeq(Ours(d))[i] = s
<1>1. IsFiniteSet(Sockets)
  <2>1. IsFiniteSet(DOMAIN Directories)
    <3>1. Directories \in Seq({"wireguard", "amneziawg"})
      BY DEF Directories
    <3>2. Len(Directories) \in Int /\ DOMAIN Directories = 1 .. Len(Directories)
      BY <3>1
    <3> QED BY <3>2, FS_Interval
  <2> QED BY <2>1, NamesAssumption, FS_Product DEF Sockets
<1>2. Ours(d) \subseteq Sockets /\ IsFiniteSet(Ours(d))
  BY <1>1, FS_Subset DEF Ours
<1> HIDE DEF Ours
<1>3. SetToSeq(Ours(d)) \in Seq(Ours(d))
      /\ \A s \in Ours(d) : \E i \in DOMAIN SetToSeq(Ours(d)) : SetToSeq(Ours(d))[i] = s
  BY <1>2, SetToSeqIsWhole
<1> QED BY <1>2, <1>3

-----------------------------------------------------------------------------
(* The steps of a call: it starts, reads a directory, fails, ends with no  *)
(* socket left, passes one over that nobody listens on, dials one, or the  *)
(* daemon answers.                                                         *)

Starts == pc = "start" /\ pc' = "find" /\ UNCHANGED <<dir, todo, found, result, cause>>
Reads ==
  /\ pc = "find" /\ dir <= Len(Directories) /\ dir' = dir + 1
  /\ todo' = todo \o SetToSeq(Ours(dir))
  /\ pc' = IF dir = Len(Directories) THEN "next" ELSE "find"
  /\ UNCHANGED <<found, result, cause>>
Errs ==
  /\ pc' = "done" /\ result' \in {"error", "ctx", "timeout", "panic"}
  /\ result' # "panic" => cause' # {} /\ cause' \subseteq cause \union {"unreadable", "dial", "died", "errno", "ctx"}
  /\ result' = "panic" => cause' = cause
  /\ UNCHANGED <<dir, todo, found>>
Passes ==
  /\ pc = "next" /\ op = "devices" /\ todo # <<>> /\ sock[Head(todo)] # "live"
  /\ todo' = Tail(todo)
  /\ UNCHANGED <<pc, dir, found, result, cause>>
Stale ==
  /\ pc = "next" /\ op # "devices" /\ todo # <<>> /\ sock[Head(todo)] # "live"
  /\ pc' = "done" /\ result' \in {"notexist", "refused"}
  /\ UNCHANGED <<dir, todo, found, cause>>
Dials ==
  /\ pc = "next" /\ todo # <<>> /\ sock[Head(todo)] = "live" /\ pc' = "wait"
  /\ UNCHANGED <<dir, todo, found, result, cause>>
Succeeds == pc = "wait" /\ Succeed /\ UNCHANGED <<dir, cause>>

CallStep ==
  \/ Start \/ FindSockets \/ FindFails \/ Finish \/ DialFails \/ DialErrs \/ DialCancelled
  \/ DialNil \/ Dial \/ Answers \/ Refuses \/ HangUp \/ Timeout

LEMMA CallSteps ==
  ASSUME TypeOK, CallStep
  PROVE  /\ UNCHANGED <<platform, op, name, ctx, ctxDone, timeUp, sock, changes, stayed, seen, file>>
         /\ pc # "done" /\ hungUp' \in BOOLEAN
         /\ Starts \/ Reads \/ Errs \/ Finish \/ Passes \/ Stale \/ Dials \/ Succeeds
<1>1. /\ UNCHANGED <<platform, op, name, ctx, ctxDone, timeUp, sock, changes, stayed, seen, file>>
      /\ pc # "done" /\ hungUp' \in BOOLEAN
  BY DEF CallStep, TypeOK, Start, FindSockets, FindFails, Finish, DialFails, DialErrs,
         DialCancelled, DialNil, Dial, Answers, Refuses, HangUp, Timeout, sockVars
<1>2. CASE Start
  BY <1>1, <1>2 DEF Start, Error, Return, Starts, Errs
<1>3. CASE FindSockets
  BY <1>1, <1>3 DEF FindSockets, Reads, Ours
<1>4. CASE FindFails \/ DialErrs \/ DialCancelled \/ DialNil \/ Refuses \/ Timeout
  BY <1>1, <1>4 DEF FindFails, DialErrs, DialCancelled, DialNil, Refuses, Timeout, Error, Return,
                    Errs
<1>5. CASE DialFails
  BY <1>1, <1>5 DEF DialFails, Return, Skipped, Passes, Stale
<1>6. CASE Dial
  BY <1>1, <1>6 DEF Dial, Dials
<1>7. CASE Answers
  BY <1>1, <1>7 DEF Answers, Succeeds
<1>8. CASE HangUp
  BY <1>1, <1>8 DEF HangUp, Error, Return, Errs, Succeeds
<1> QED BY <1>1, <1>2, <1>3, <1>4, <1>5, <1>6, <1>7, <1>8 DEF CallStep

-----------------------------------------------------------------------------
(* Types.                                                                  *)

LEMMA TypeInit == Init => TypeOK
<1> SUFFICES ASSUME Init PROVE TypeOK
  OBVIOUS
<1>1. todo \in Seq(Sockets) /\ found \in Seq(Sockets)
  BY DEF Init
<1>2. dir \in 1 .. Len(Directories) + 1
  BY DEF Init, Directories
<1> QED BY <1>1, <1>2 DEF Init, TypeOK

LEMMA TypeStep == TypeOK /\ [Next]_vars => TypeOK'
<1> SUFFICES ASSUME TypeOK, [Next]_vars PROVE TypeOK'
  OBVIOUS
<1>1. CASE CallStep
  <2>1. /\ UNCHANGED <<platform, op, name, ctx, ctxDone, timeUp, sock, changes, stayed, seen, file>>
        /\ pc # "done" /\ hungUp' \in BOOLEAN
        /\ Starts \/ Reads \/ Errs \/ Finish \/ Passes \/ Stale \/ Dials \/ Succeeds
    BY <1>1, CallSteps
  <2>2. CASE Starts
    BY <2>1, <2>2 DEF Starts, TypeOK
  <2>3. CASE Reads
    <3>1. todo' \in Seq(Sockets)
      BY <2>3, OursAreListed, Concatenation DEF Reads, TypeOK
    <3>2. dir' \in 1 .. Len(Directories) + 1
      BY <2>3 DEF Reads, TypeOK, Directories
    <3> QED BY <2>1, <2>3, <3>1, <3>2 DEF Reads, TypeOK
  <2>4. CASE Errs
    BY <2>1, <2>4 DEF Errs, TypeOK
  <2>5. CASE Finish
    BY <2>1, <2>5 DEF Finish, Return, TypeOK
  <2>6. CASE Passes
    BY <2>1, <2>6, HeadOrTail DEF Passes, TypeOK
  <2>7. CASE Stale \/ Dials
    BY <2>1, <2>7 DEF Stale, Dials, TypeOK
  <2>8. CASE Succeeds
    <3>1. todo # <<>> /\ todo \in Seq(Sockets)
      BY <2>8 DEF Succeeds, TypeOK
    <3>2. Head(todo) \in Sockets /\ Tail(todo) \in Seq(Sockets)
      BY <3>1, HeadOrTail
    <3>3. <<Head(todo)>> \in Seq(Sockets) /\ Append(found, Head(todo)) \in Seq(Sockets)
      BY <3>2 DEF TypeOK
    <3> QED BY <2>1, <2>8, <3>2, <3>3 DEF Succeeds, Succeed, Return, TypeOK
  <2> QED BY <2>1, <2>2, <2>3, <2>4, <2>5, <2>6, <2>7, <2>8
<1>2. CASE CtxEnds \/ TimePasses
  BY <1>2 DEF CtxEnds, TimePasses, callVars, sockVars, TypeOK
<1>3. ASSUME NEW s \in Sockets, NEW to \in {"none", "stale", "live"}, SocketChanges(s, to)
      PROVE  TypeOK'
  <2>1. sock' \in [Sockets -> {"none", "stale", "live"}] /\ hungUp' \in BOOLEAN
    BY <1>3 DEF SocketChanges, TypeOK
  <2> QED BY <1>3, <2>1 DEF SocketChanges, callVars, TypeOK
<1>4. CASE UNCHANGED vars
  BY <1>4 DEF vars, callVars, sockVars, TypeOK
<1> QED BY <1>1, <1>2, <1>3, <1>4 DEF Next, Caller, CallStep

-----------------------------------------------------------------------------
(* The invariant.                                                          *)

\* A socket that changes keeps what is remembered true.
LEMMA RememberedStep ==
  TypeOK /\ SocketsRemembered /\ [Next]_vars => SocketsRemembered'
<1> SUFFICES ASSUME TypeOK, SocketsRemembered, [Next]_vars PROVE SocketsRemembered'
  OBVIOUS
<1>1. CASE CallStep \/ CtxEnds \/ TimePasses \/ UNCHANGED vars
  <2>1. UNCHANGED <<sock, stayed, seen, file>>
    BY <1>1, CallSteps DEF CtxEnds, TimePasses, vars, sockVars
  <2> QED BY <2>1 DEF SocketsRemembered
<1>2. ASSUME NEW s \in Sockets, NEW to \in {"none", "stale", "live"}, SocketChanges(s, to)
      PROVE  SocketsRemembered'
  BY <1>2 DEF SocketChanges, TypeOK, SocketsRemembered
<1> QED BY <1>1, <1>2 DEF Next, Caller, CallStep

LEMMA PhaseStep ==
  TypeOK /\ SocketsRemembered /\ Phases /\ AnsweredWasThere /\ [Next]_vars => Phases'
<1> SUFFICES ASSUME TypeOK, SocketsRemembered, Phases, AnsweredWasThere, [Next]_vars
             PROVE  Phases'
  OBVIOUS
<1>1. CASE CallStep
  <2>1. UNCHANGED <<op, seen>> /\ pc # "done" /\ result = "none"
        /\ (Starts \/ Reads \/ Errs \/ Finish \/ Passes \/ Stale \/ Dials \/ Succeeds)
    BY <1>1, CallSteps DEF TypeOK
  <2>2. CASE Starts
    <3>1. 1 <= Len(Directories) BY DEF Directories
    <3> QED BY <2>1, <2>2, <3>1 DEF Starts, Phases
  <2>3. CASE Reads
    BY <2>1, <2>3 DEF Reads, Phases, TypeOK, Directories
  <2>4. CASE Errs \/ Passes \/ Stale \/ Dials
    BY <2>1, <2>4 DEF Errs, Passes, Stale, Dials, Phases
  <2>5. CASE Finish
    BY <2>1, <2>5 DEF Finish, Return, Phases
  <2>6. CASE Succeeds
    BY <2>1, <2>6 DEF Succeeds, Succeed, Return, Phases, AnsweredWasThere
  <2> QED BY <2>1, <2>2, <2>3, <2>4, <2>5, <2>6
<1>2. CASE CtxEnds \/ TimePasses \/ UNCHANGED vars
  BY <1>2 DEF CtxEnds, TimePasses, vars, callVars, sockVars, Phases
<1>3. ASSUME NEW s \in Sockets, NEW to \in {"none", "stale", "live"}, SocketChanges(s, to)
      PROVE  Phases'
  <2>1. UNCHANGED callVars /\ seen \subseteq seen'
    BY <1>3 DEF SocketChanges
  <2> QED BY <2>1 DEF callVars, Phases
<1> QED BY <1>1, <1>2, <1>3 DEF Next, Caller, CallStep

LEMMA OrderStep ==
  TypeOK /\ SocketsRemembered /\ Phases /\ InOrder /\ [Next]_vars => InOrder'
<1> SUFFICES ASSUME TypeOK, SocketsRemembered, Phases, InOrder, [Next]_vars
             PROVE  InOrder'
  OBVIOUS
<1>1. CASE CallStep
  <2>1. UNCHANGED <<op, name, file>>
        /\ (Starts \/ Reads \/ Errs \/ Finish \/ Passes \/ Stale \/ Dials \/ Succeeds)
    BY <1>1, CallSteps
  <2>2. CASE UNCHANGED <<dir, todo>>
    BY <2>1, <2>2 DEF InOrder, Asked
  <2>3. CASE Reads
    <3> DEFINE new == SetToSeq(Ours(dir))
    <3>1. /\ new \in Seq(Sockets) /\ todo \in Seq(Sockets) /\ todo' = todo \o new
          /\ \A i \in DOMAIN new : new[i] \in Ours(dir)
          /\ dir' = dir + 1 /\ dir \in Nat
      BY <2>3, OursAreListed DEF Reads, TypeOK
    <3> HIDE DEF new
    <3>2. \A i \in DOMAIN new : new[i][1] = dir /\ new[i] \in file /\ Asked(new[i])
      BY <3>1 DEF Ours, SocketsRemembered
    <3>3. \A i \in DOMAIN todo' : \/ i \in DOMAIN todo /\ todo'[i] = todo[i]
                                  \/ /\ i > Len(todo) /\ i - Len(todo) \in DOMAIN new
                                     /\ todo'[i] = new[i - Len(todo)]
      BY <3>1, Concatenation
    <3>4. \A i \in DOMAIN todo : todo[i][1] \in Nat /\ i <= Len(todo)
      BY <3>1 DEF Sockets, Directories
    <3>5. ASSUME NEW i \in DOMAIN todo'
          PROVE  /\ todo'[i] \in file' /\ todo'[i][1] < dir'
                 /\ op' = "devices" \/ todo'[i][2] = name'
      <4>1. CASE i \in DOMAIN todo /\ todo'[i] = todo[i]
        BY <2>1, <3>1, <3>4, <4>1 DEF InOrder, Asked
      <4>2. CASE i - Len(todo) \in DOMAIN new /\ todo'[i] = new[i - Len(todo)]
        BY <2>1, <3>1, <3>2, <4>2 DEF Asked
      <4> QED BY <3>3, <4>1, <4>2
    <3>6. ASSUME NEW i \in DOMAIN todo', NEW j \in DOMAIN todo', i < j
          PROVE  todo'[i][1] <= todo'[j][1]
      <4>1. i \in Nat /\ j \in Nat /\ Len(todo) \in Nat
        BY <3>1, Concatenation
      <4>2. CASE j \in DOMAIN todo /\ todo'[j] = todo[j]
        <5>1. i \in DOMAIN todo /\ todo'[i] = todo[i]
          BY <3>3, <3>4, <3>6, <4>1, <4>2
        <5> QED BY <3>6, <4>2, <5>1 DEF InOrder
      <4>3. CASE j - Len(todo) \in DOMAIN new /\ todo'[j] = new[j - Len(todo)]
        <5>1. todo'[j][1] = dir BY <3>2, <4>3
        <5>2. todo'[i][1] = dir \/ (todo'[i][1] \in Nat /\ todo'[i][1] < dir)
          BY <3>2, <3>3, <3>4 DEF InOrder
        <5> QED BY <3>1, <5>1, <5>2
      <4> QED BY <3>3, <4>2, <4>3
    <3> QED BY <3>5, <3>6 DEF InOrder, Asked
  <2>4. CASE todo # <<>> /\ todo' = Tail(todo) /\ UNCHANGED dir
    <3>1. /\ todo \in Seq(Sockets)
          /\ \A i \in DOMAIN todo' : i + 1 \in DOMAIN todo /\ todo'[i] = todo[i + 1] /\ i \in Nat
      BY <2>4, HeadOrTail DEF TypeOK
    <3> QED BY <2>1, <2>4, <3>1 DEF InOrder, Asked
  <2> QED BY <2>1, <2>2, <2>3, <2>4
          DEF TypeOK, Starts, Errs, Finish, Passes, Stale, Dials, Succeeds, Succeed
<1>2. CASE CtxEnds \/ TimePasses \/ UNCHANGED vars
  BY <1>2 DEF CtxEnds, TimePasses, vars, callVars, sockVars, InOrder, Asked
<1>3. ASSUME NEW s \in Sockets, NEW to \in {"none", "stale", "live"}, SocketChanges(s, to)
      PROVE  InOrder'
  <2>1. UNCHANGED callVars /\ file \subseteq file'
    BY <1>3 DEF SocketChanges
  <2> QED BY <2>1 DEF callVars, InOrder, Asked
<1> QED BY <1>1, <1>2, <1>3 DEF Next, Caller, CallStep

LEMMA AnsweredStep ==
  TypeOK /\ SocketsRemembered /\ AnsweredWasThere /\ [Next]_vars => AnsweredWasThere'
<1> SUFFICES ASSUME TypeOK, SocketsRemembered, AnsweredWasThere, [Next]_vars
             PROVE  AnsweredWasThere'
  OBVIOUS
<1>1. CASE CallStep
  <2>1. UNCHANGED seen
        /\ (Starts \/ Reads \/ Errs \/ Finish \/ Passes \/ Stale \/ Dials \/ Succeeds)
    BY <1>1, CallSteps
  <2>2. CASE UNCHANGED found /\ pc' # "wait"
    BY <2>1, <2>2 DEF AnsweredWasThere
  <2>3. CASE Dials
    <3>1. Head(todo) \in Sockets
      BY <2>3, HeadOrTail DEF Dials, TypeOK
    <3> QED BY <2>1, <2>3, <3>1 DEF Dials, AnsweredWasThere, SocketsRemembered
  <2>4. CASE Succeeds
    <3>1. Head(todo) \in seen /\ pc' # "wait"
          /\ (found' = Append(found, Head(todo)) \/ found' = <<Head(todo)>>)
      BY <2>4 DEF Succeeds, Succeed, Return, AnsweredWasThere
    <3>2. \A i \in DOMAIN found' : \/ i \in DOMAIN found /\ found'[i] = found[i]
                                   \/ found'[i] = Head(todo)
      <4>1. CASE found' = Append(found, Head(todo))
        BY <4>1 DEF TypeOK
      <4>2. CASE found' = <<Head(todo)>>
        BY <4>2
      <4> QED BY <3>1, <4>1, <4>2
    <3> QED BY <2>1, <3>1, <3>2 DEF AnsweredWasThere
  <2> QED BY <2>1, <2>2, <2>3, <2>4
          DEF Starts, Reads, Errs, Finish, Return, Passes, Stale
<1>2. CASE CtxEnds \/ TimePasses \/ UNCHANGED vars
  BY <1>2 DEF CtxEnds, TimePasses, vars, callVars, sockVars, AnsweredWasThere
<1>3. ASSUME NEW s \in Sockets, NEW to \in {"none", "stale", "live"}, SocketChanges(s, to)
      PROVE  AnsweredWasThere'
  <2>1. UNCHANGED callVars /\ seen \subseteq seen'
    BY <1>3 DEF SocketChanges
  <2> QED BY <2>1 DEF callVars, AnsweredWasThere
<1> QED BY <1>1, <1>2, <1>3 DEF Next, Caller, CallStep

LEMMA CoveredStep ==
  TypeOK /\ SocketsRemembered /\ Phases /\ Covered /\ [Next]_vars => Covered'
<1> SUFFICES ASSUME TypeOK, SocketsRemembered, Phases, Covered, [Next]_vars
             PROVE  Covered'
  OBVIOUS
<1>1. CASE CallStep
  <2>1. UNCHANGED <<op, name, sock, stayed>> /\ pc # "done" /\ todo \in Seq(Sockets)
        /\ found \in Seq(Sockets)
        /\ (Starts \/ Reads \/ Errs \/ Finish \/ Passes \/ Stale \/ Dials \/ Succeeds)
    BY <1>1, CallSteps DEF TypeOK
  <2>2. CASE UNCHANGED <<dir, todo, found>>
    BY <2>1, <2>2 DEF Covered, Asked, TypeOK
  <2>3. CASE Reads
    <3> DEFINE new == SetToSeq(Ours(dir))
    <3>1. /\ new \in Seq(Sockets) /\ todo' = todo \o new /\ dir' = dir + 1 /\ dir \in Nat
          /\ found' = found
          /\ \A s \in Ours(dir) : \E i \in DOMAIN new : new[i] = s
      BY <2>3, OursAreListed DEF Reads, TypeOK
    <3> HIDE DEF new
    <3>2. ASSUME NEW s \in stayed, s[1] < dir', op = "devices" \/ s[2] = name
          PROVE  s \in ToSet(todo') \/ s \in ToSet(found)
      <4>1. s \in Sockets /\ sock[s] # "none" /\ s[1] \in Nat
        BY DEF SocketsRemembered, Sockets, Directories
      <4>2. CASE s[1] = dir
        <5>1. s \in Ours(dir)
          BY <3>2, <4>1, <4>2 DEF Ours, Asked
        <5>2. s \in ToSet(new)
          BY <3>1, <5>1 DEF ToSet
        <5> QED BY <2>1, <3>1, <5>2, JoinedHasBoth
      <4>3. CASE s[1] < dir
        <5>1. s \in ToSet(todo) \union ToSet(found)
          BY <2>3, <3>2, <4>3 DEF Reads, Covered, Asked
        <5> QED BY <2>1, <3>1, <5>1, JoinedHasBoth
      <4> QED BY <3>1, <3>2, <4>1, <4>2, <4>3
    <3> QED BY <2>1, <3>1, <3>2 DEF Covered, Asked
  <2>4. CASE Passes
    <3>1. ASSUME NEW s \in stayed, s \in ToSet(todo) PROVE s \in ToSet(todo')
      <4>1. s # Head(todo)
        BY <2>4 DEF SocketsRemembered, Passes
      <4> QED BY <2>1, <2>4, <3>1, <4>1, RestIsLeft DEF Passes
    <3> QED BY <2>1, <2>4, <3>1 DEF Passes, Covered, Asked
  <2>5. CASE Succeeds /\ op = "devices"
    <3>1. /\ todo # <<>> /\ todo' = Tail(todo) /\ found' = Append(found, Head(todo))
          /\ pc = "wait" /\ UNCHANGED dir
      BY <2>5 DEF Succeeds, Succeed, TypeOK
    <3>2. ASSUME NEW s \in ToSet(todo) PROVE s \in ToSet(todo') \/ s \in ToSet(found')
      <4>1. CASE s = Head(todo)
        <5>1. Head(todo) \in Sockets
          BY <2>1, <3>1, HeadOrTail
        <5>2. found'[Len(found) + 1] = s /\ Len(found) + 1 \in DOMAIN found'
          BY <2>1, <3>1, <4>1, <5>1
        <5> QED BY <5>2 DEF ToSet
      <4> QED BY <2>1, <3>1, <4>1, RestIsLeft
    <3>3. \A i \in DOMAIN found : i \in DOMAIN found' /\ found'[i] = found[i]
      BY <2>1, <3>1
    <3>4. \A s \in ToSet(found) : s \in ToSet(found')
      BY <3>3 DEF ToSet
    <3> QED BY <2>1, <3>1, <3>2, <3>4 DEF Covered, Asked
  <2>6. CASE pc' = "done"
    BY <2>6 DEF Covered
  <2> QED BY <2>1, <2>2, <2>3, <2>4, <2>5, <2>6
          DEF Starts, Errs, Finish, Return, Stale, Dials, Succeeds, Succeed
<1>2. CASE CtxEnds \/ TimePasses \/ UNCHANGED vars
  BY <1>2 DEF CtxEnds, TimePasses, vars, callVars, sockVars, Covered, Asked
<1>3. ASSUME NEW s \in Sockets, NEW to \in {"none", "stale", "live"}, SocketChanges(s, to)
      PROVE  Covered'
  <2>1. UNCHANGED callVars /\ stayed' \subseteq stayed
    BY <1>3 DEF SocketChanges
  <2> QED BY <2>1 DEF callVars, Covered, Asked
<1> QED BY <1>1, <1>2, <1>3 DEF Next, Caller, CallStep

LEMMA Invariant == Spec => []Inv
<1>1. Init => Inv
  <2> SUFFICES ASSUME Init PROVE Inv
    OBVIOUS
  <2>1. /\ TypeOK /\ pc = "start" /\ dir = 1 /\ todo = <<>> /\ found = <<>> /\ result = "none"
        /\ stayed = {s \in Sockets : sock[s] = "live"} /\ seen = stayed
        /\ file = {s \in Sockets : sock[s] # "none"}
    BY TypeInit DEF Init
  <2>2. \A s \in Sockets : s[1] \in Nat /\ ~ (s[1] < 1)
    BY DEF Sockets, Directories
  <2>3. Covered
    BY <2>1, <2>2 DEF Covered
  <2> QED BY <2>1, <2>3
          DEF Inv, SocketsRemembered, Phases, InOrder, AnsweredWasThere
<1>2. Inv /\ [Next]_vars => Inv'
  BY TypeStep, RememberedStep, PhaseStep, OrderStep, AnsweredStep, CoveredStep DEF Inv
<1> QED BY <1>1, <1>2, PTL DEF Spec

-----------------------------------------------------------------------------
(* The theorems.                                                           *)

\* Every variable keeps its type.
THEOREM TypeCorrect == Spec => []TypeOK
BY Invariant, PTL DEF Inv

\* What has been answered stays: nothing but the context changes then.
LEMMA DoneStays ==
  ASSUME TypeOK, [Next]_vars, pc = "done"
  PROVE  UNCHANGED <<callVars, sockVars>>
<1>1. CASE CallStep
  BY <1>1, CallSteps
<1>2. CASE CtxEnds \/ TimePasses \/ UNCHANGED vars
  BY <1>2 DEF CtxEnds, TimePasses, vars
<1>3. ASSUME NEW s \in Sockets, NEW to \in {"none", "stale", "live"}, SocketChanges(s, to)
      PROVE  UNCHANGED <<callVars, sockVars>>
  BY <1>3 DEF SocketChanges
<1> QED BY <1>1, <1>2, <1>3 DEF Next, Caller, CallStep

\* A call is answered by a step of the caller.
LEMMA AnswerIsCallStep ==
  ASSUME TypeOK, [Next]_vars, pc # "done", pc' = "done"
  PROVE  CallStep
BY DEF Next, Caller, CallStep, CtxEnds, TimePasses, SocketChanges, vars, callVars

\* A socket file nobody listens on never makes Devices fail.
THEOREM StaleHarmless == Spec => []StaleHidesNothing
<1>1. Init => StaleHidesNothing
  BY DEF Init, StaleHidesNothing
<1>2. Inv /\ StaleHidesNothing /\ [Next]_vars => StaleHidesNothing'
  <2> SUFFICES ASSUME Inv, StaleHidesNothing, [Next]_vars PROVE StaleHidesNothing'
    OBVIOUS
  <2>1. CASE pc = "done"
    BY <2>1, DoneStays DEF Inv, callVars, StaleHidesNothing
  <2>2. CASE pc # "done" /\ pc' = "done"
    <3>1. UNCHANGED op
          /\ (Starts \/ Reads \/ Errs \/ Finish \/ Passes \/ Stale \/ Dials \/ Succeeds)
      BY <2>2, AnswerIsCallStep, CallSteps DEF Inv
    <3> QED BY <2>2, <3>1 DEF Starts, Reads, Errs, Finish, Return, Passes, Stale, Dials,
                             Succeeds, Succeed, StaleHidesNothing
  <2>3. CASE pc' # "done"
    <3>1. result' = "none"
      BY <2>3, TypeStep DEF Inv, TypeOK
    <3> QED BY <3>1 DEF StaleHidesNothing
  <2> QED BY <2>1, <2>2, <2>3
<1> QED BY <1>1, <1>2, Invariant, PTL DEF Spec

\* Of the daemons with the name asked for that were there all along, none comes
\* before the first socket to be asked, which is of that name.
LEMMA FirstToBeAsked ==
  ASSUME Inv, op # "devices", pc \in {"next", "wait"},
         NEW d \in DOMAIN Directories, <<d, name>> \in stayed
  PROVE  /\ todo # <<>> /\ Head(todo) \in file
         /\ Head(todo) = <<Head(todo)[1], name>> /\ Head(todo)[1] \in DOMAIN Directories
         /\ Head(todo)[1] <= d
<1>1. /\ todo \in Seq(Sockets) /\ found = <<>> /\ dir = Len(Directories) + 1
      /\ <<d, name>> \in Sockets /\ d < dir
  BY DEF Inv, TypeOK, Phases, Sockets, Directories
<1>2. <<d, name>> \in ToSet(todo)
  BY <1>1 DEF Inv, Covered, Asked, ToSet
<1>3. PICK i \in DOMAIN todo : todo[i] = <<d, name>>
  BY <1>2 DEF ToSet
<1>4. todo # <<>> /\ Head(todo) = todo[1] /\ 1 \in DOMAIN todo
  BY <1>1, <1>3
<1>5. Head(todo)[2] = name /\ Head(todo) \in file /\ Head(todo) \in Sockets
  BY <1>1, <1>4 DEF Inv, InOrder, Asked
<1>6. Head(todo)[1] <= d
  <2>1. CASE i = 1
    BY <1>1, <1>3, <1>4, <2>1 DEF Directories
  <2>2. CASE i # 1
    <3>1. 1 < i BY <1>1, <2>2
    <3> QED BY <1>3, <1>4, <3>1 DEF Inv, InOrder
  <2> QED BY <2>1, <2>2
<1> QED BY <1>4, <1>5, <1>6 DEF Sockets

\* Device and ConfigureDevice miss no daemon that is there all along, but for
\* another file of its name in an earlier directory.
THEOREM FoundOrShadowed == Spec => []FoundUnlessShadowed
<1>1. Init => FoundUnlessShadowed
  BY DEF Init, FoundUnlessShadowed
<1>2. Inv /\ Inv' /\ FoundUnlessShadowed /\ [Next]_vars => FoundUnlessShadowed'
  <2> SUFFICES ASSUME Inv, Inv', FoundUnlessShadowed, [Next]_vars PROVE FoundUnlessShadowed'
    OBVIOUS
  <2>1. CASE pc = "done"
    BY <2>1, DoneStays DEF Inv, callVars, sockVars, FoundUnlessShadowed
  <2>2. CASE pc # "done" /\ pc' = "done"
    <3>1. /\ UNCHANGED <<op, name, sock, stayed, file>>
          /\ (Starts \/ Reads \/ Errs \/ Finish \/ Passes \/ Stale \/ Dials \/ Succeeds)
      BY <2>2, AnswerIsCallStep, CallSteps DEF Inv
    <3>2. CASE result' \notin {"notexist", "refused"} \/ op = "devices"
      BY <3>1, <3>2 DEF FoundUnlessShadowed
    <3>3. CASE result' \in {"notexist", "refused"} /\ op # "devices"
      <4>1. (Finish /\ todo = <<>>) \/ (Stale /\ sock[Head(todo)] # "live")
        BY <2>2, <3>1, <3>3 DEF Starts, Reads, Errs, Finish, Return, Passes, Stale, Dials,
                                Succeeds, Succeed
      <4>2. ASSUME NEW d \in DOMAIN Directories, <<d, name>> \in stayed
            PROVE  \E e \in 1 .. d - 1 : <<e, name>> \in file
        <5>1. /\ todo # <<>> /\ Head(todo) \in file
              /\ Head(todo) = <<Head(todo)[1], name>> /\ Head(todo)[1] \in DOMAIN Directories
              /\ Head(todo)[1] <= d
          BY <3>3, <4>1, <4>2, FirstToBeAsked DEF Finish, Stale
        <5>2. Head(todo) # <<d, name>>
          <6>1. <<d, name>> \in Sockets /\ sock[<<d, name>>] = "live"
            BY <4>2 DEF Inv, SocketsRemembered
          <6> QED BY <4>1, <5>1, <6>1
        <5>3. Head(todo)[1] # d
          BY <5>1, <5>2
        <5>4. Head(todo)[1] \in 1 .. d - 1
          BY <5>1, <5>3 DEF Directories
        <5> QED BY <5>1, <5>4
      <4> QED BY <3>1, <4>2 DEF FoundUnlessShadowed
    <3> QED BY <3>2, <3>3
  <2>3. CASE pc' # "done"
    <3>1. result' = "none"
      BY <2>3 DEF Inv, TypeOK
    <3> QED BY <3>1 DEF FoundUnlessShadowed
  <2> QED BY <2>1, <2>2, <2>3
<1> QED BY <1>1, <1>2, Invariant, PTL DEF Spec

\* The daemon that Device or ConfigureDevice speaks to is the first of its name.
THEOREM FirstIsMeant == Spec => []FirstOfItsName
<1>1. Init => FirstOfItsName
  BY DEF Init, FirstOfItsName
<1>2. Inv /\ Inv' /\ FirstOfItsName /\ [Next]_vars => FirstOfItsName'
  <2> SUFFICES ASSUME Inv, Inv', FirstOfItsName, [Next]_vars PROVE FirstOfItsName'
    OBVIOUS
  <2>1. CASE pc = "done"
    BY <2>1, DoneStays DEF Inv, callVars, sockVars, FirstOfItsName
  <2>2. CASE pc # "done" /\ pc' = "done"
    <3>1. /\ UNCHANGED <<op, name, stayed>>
          /\ (Starts \/ Reads \/ Errs \/ Finish \/ Passes \/ Stale \/ Dials \/ Succeeds)
      BY <2>2, AnswerIsCallStep, CallSteps DEF Inv
    <3>2. CASE result' # "ok" \/ op = "devices"
      BY <3>1, <3>2 DEF FirstOfItsName
    <3>3. CASE result' = "ok" /\ op # "devices"
      <4>1. Succeeds /\ pc = "wait" /\ todo # <<>> /\ found' = <<Head(todo)>>
        BY <2>2, <3>1, <3>3 DEF Starts, Reads, Errs, Finish, Return, Passes, Stale, Dials,
                                Succeeds, Succeed, Inv, TypeOK
      <4>2. found'[1] = Head(todo)
        BY <4>1
      <4>3. Head(todo)[2] = name /\ Head(todo)[1] \in DOMAIN Directories
        <5>1. todo \in Seq(Sockets) BY DEF Inv, TypeOK
        <5>2. Head(todo) = todo[1] /\ 1 \in DOMAIN todo /\ Head(todo) \in Sockets
          BY <4>1, <5>1
        <5> QED BY <3>3, <5>2 DEF Inv, InOrder, Asked, Sockets
      <4>4. ASSUME NEW e \in 1 .. Head(todo)[1] - 1, <<e, name>> \in stayed
            PROVE  FALSE
        <5>1. e \in DOMAIN Directories /\ ~ (Head(todo)[1] <= e)
          BY <4>3, <4>4 DEF Directories
        <5> QED BY <3>3, <4>1, <4>4, <5>1, FirstToBeAsked
      <4> QED BY <3>1, <4>2, <4>3, <4>4 DEF FirstOfItsName
    <3> QED BY <3>2, <3>3
  <2>3. CASE pc' # "done"
    <3>1. result' = "none"
      BY <2>3 DEF Inv, TypeOK
    <3> QED BY <3>1 DEF FirstOfItsName
  <2> QED BY <2>1, <2>2, <2>3
<1> QED BY <1>1, <1>2, Invariant, PTL DEF Spec

-----------------------------------------------------------------------------
(* The refinement.                                                         *)

There     == {Device(s) : s \in {t \in Sockets : sock[t] = "live"}}
Stayed    == {Device(s) : s \in stayed}
Seen      == {Device(s) : s \in seen}
Answered  == CASE result \in {"none", "ok", "notexist"} -> result
               [] result = "panic" -> "none"
               [] OTHER -> "error"
Returned  == IF result = "ok" THEN {Device(s) : s \in ToSet(found)} ELSE {}

\* A device is one socket, and a socket one device.
LEMMA DeviceIsSocket ==
  ASSUME NEW s \in Sockets, NEW t \in Sockets, Device(s) = Device(t)
  PROVE  s = t
BY DEF Device, Sockets

\* What a user of the interface does not see.
LEMMA Silent ==
  ASSUME UNCHANGED <<op, name, sock, stayed, seen, file>>, Answered' = Answered,
         result # "ok", result' # "ok"
  PROVE  UNCHANGED B!vars
<1>1. There' = There /\ Stayed' = Stayed /\ Seen' = Seen /\ Shadowed' = Shadowed
  BY DEF There, Stayed, Seen, Shadowed
<1>2. Returned' = Returned
  BY DEF Returned
<1> QED BY <1>1, <1>2 DEF B!vars, There, Stayed, Seen, Answered, Returned

\* Daemons come and go.
LEMMA ChangeStep ==
  ASSUME Inv, NEW s \in Sockets, NEW to \in {"none", "stale", "live"}, SocketChanges(s, to)
  PROVE  B!Change
<1>1. /\ UNCHANGED callVars /\ sock' = [sock EXCEPT ![s] = to] /\ sock[s] # to
      /\ stayed' = IF to = "live" THEN stayed ELSE stayed \ {s}
      /\ seen' = IF to = "live" THEN seen \union {s} ELSE seen
  BY DEF SocketChanges
<1>2. /\ sock \in [Sockets -> {"none", "stale", "live"}]
      /\ stayed \subseteq Sockets /\ seen \subseteq Sockets
      /\ \A t \in Sockets : /\ t \in stayed => sock[t] = "live"
                            /\ sock[t] = "live" => t \in seen
  BY DEF Inv, TypeOK, SocketsRemembered
<1>3. stayed' = {t \in stayed : sock'[t] = "live"}
      /\ seen' = seen \union {t \in Sockets : sock'[t] = "live"}
  BY <1>1, <1>2
<1>4. Stayed' = Stayed \intersect There'
  BY <1>2, <1>3, DeviceIsSocket DEF Stayed, There
<1>5. Seen' = Seen \union There'
  BY <1>2, <1>3 DEF Seen, There
<1>6. B!Named(There') \subseteq Names /\ Shadowed' \subseteq Names
  BY DEF B!Named, There, Device, Sockets, Shadowed
<1>7. UNCHANGED <<op, name, Answered, Returned>>
  BY <1>1 DEF callVars, Answered, Returned
<1> QED BY <1>4, <1>5, <1>6, <1>7 DEF B!Change, There, Stayed, Seen, Answered, Returned

\* An answer leaves the devices alone.
LEMMA AnswerStep ==
  ASSUME UNCHANGED <<op, name, sock, stayed, seen, file>>, result = "none"
  PROVE  B!Answer(Answered') /\ Stayed' = Stayed /\ Seen' = Seen
<1>1. There' = There /\ Stayed' = Stayed /\ Seen' = Seen /\ Shadowed' = Shadowed
  BY DEF There, Stayed, Seen, Shadowed
<1> QED BY <1>1 DEF B!Answer, B!Begun, There, Stayed, Seen, Answered

\* A step of a call is unseen, or its answer.
LEMMA CallIsBackend ==
  ASSUME Inv, Inv', FoundUnlessShadowed', FirstOfItsName', CallStep
  PROVE  B!Next \/ UNCHANGED B!vars
<1>1. /\ UNCHANGED <<op, name, sock, stayed, seen, file>>
      /\ pc # "done" /\ result = "none" /\ name \in Names /\ found' \in Seq(Sockets)
      /\ op \in {"devices", "device", "configure"}
      /\ Starts \/ Reads \/ Errs \/ Finish \/ Passes \/ Stale \/ Dials \/ Succeeds
  BY CallSteps, OpsAssumption DEF Inv, TypeOK
<1>2. B!Answer(Answered') /\ Stayed' = Stayed /\ Seen' = Seen
  BY <1>1, AnswerStep
<1>3. CASE result' \in {"none", "panic"}
  <2>1. Answered' = Answered
    BY <1>1, <1>3 DEF Answered
  <2> QED BY <1>1, <1>3, <2>1, Silent
<1>4. CASE result' \in {"error", "ctx", "timeout", "refused"}
  <2>1. Answered' = "error" /\ Returned' = {}
    BY <1>4 DEF Answered, Returned
  <2> QED BY <1>2, <2>1 DEF B!Fails, B!Next, Answered, Returned
<1>5. CASE result' = "notexist"
  <2>1. op \in {"device", "configure"}
    BY <1>1, <1>5 DEF Inv, Phases
  <2>2. name \in Shadowed
    BY <1>1, <1>5, <2>1 DEF FoundUnlessShadowed, Shadowed
  <2>3. Answered' = "notexist" /\ Returned' = {}
    BY <1>5 DEF Answered, Returned
  <2> QED BY <1>1, <1>2, <2>1, <2>2, <2>3 DEF B!NotExist, B!Next, Answered, Returned
<1>6. CASE result' = "ok"
  <2>1. Answered' = "ok" /\ Returned' = {Device(s) : s \in ToSet(found')}
    BY <1>6 DEF Answered, Returned
  <2>2. Returned' \subseteq Seen'
    <3>1. \A s \in ToSet(found') : s \in seen'
      BY DEF Inv, AnsweredWasThere, ToSet
    <3> QED BY <2>1, <3>1 DEF Seen
  <2>3. CASE op = "devices"
    <3>1. Finish /\ todo = <<>> /\ found' = found /\ dir = Len(Directories) + 1 /\ pc = "next"
      BY <1>1, <1>6, <2>3 DEF Starts, Reads, Errs, Finish, Passes, Stale, Dials, Succeeds,
                              Succeed, Inv, Phases
    <3>2. \A s \in stayed : s \in ToSet(found)
      <4>1. \A s \in stayed : s[1] < dir /\ Asked(s)
        BY <2>3, <3>1 DEF Inv, SocketsRemembered, Sockets, Directories, Asked
      <4>2. ToSet(todo) = {}
        BY <3>1 DEF ToSet
      <4> QED BY <3>1, <4>1, <4>2 DEF Inv, Covered
    <3>3. Stayed' \subseteq Returned'
      BY <1>2, <2>1, <3>1, <3>2 DEF Stayed
    <3>4. B!Named(Stayed') \subseteq B!Named(Returned')
      BY <3>3 DEF B!Named
    <3> QED BY <1>2, <2>1, <2>2, <2>3, <3>4
            DEF B!Lists, B!Next, Answered, Returned, Stayed, Seen
  <2>4. CASE op \in {"device", "configure"}
    <3>1. Len(found') = 1 /\ found'[1] \in seen' /\ found'[1][2] = name /\ found'[1] \in Sockets
      BY <1>1, <1>6, <2>4 DEF Inv, Phases, FirstOfItsName, SocketsRemembered
    <3>2. Returned' = {Device(found'[1])}
      <4>1. ToSet(found') = {found'[1]}
        BY <1>1, <3>1 DEF ToSet
      <4> QED BY <2>1, <4>1
    <3>3. Device(found'[1])[1] = name
      BY <3>1 DEF Device
    <3>4. Device(found'[1]) \in Seen'
      BY <3>1 DEF Seen
    <3> QED BY <1>2, <2>1, <2>4, <3>2, <3>3, <3>4
            DEF B!Finds, B!Next, Answered, Returned, Seen
  <2> QED BY <1>1, <2>3, <2>4
<1>7. result' \in {"none", "ok", "notexist", "refused", "timeout", "ctx", "error", "panic"}
  BY DEF Inv, TypeOK
<1> QED BY <1>3, <1>4, <1>5, <1>6, <1>7

\* The Client of wguser is a backend, whatever daemons start, exit and leave
\* their files behind during a call.
THEOREM UserspaceIsBackend == Spec => ImplementsBackend
<1>1. Init => B!Init
  BY OpsAssumption DEF Init, B!Init
<1>2. /\ Inv /\ Inv' /\ FoundUnlessShadowed' /\ FirstOfItsName' /\ [Next]_vars
      => [B!Next]_(B!vars)
  <2> SUFFICES ASSUME Inv, Inv', FoundUnlessShadowed', FirstOfItsName', [Next]_vars
               PROVE  B!Next \/ UNCHANGED B!vars
    OBVIOUS
  <2>1. CASE CallStep
    BY <2>1, CallIsBackend
  <2>2. CASE CtxEnds \/ TimePasses \/ UNCHANGED vars
    <3>1. UNCHANGED <<op, name, sock, stayed, seen, file, result, found>>
      BY <2>2 DEF CtxEnds, TimePasses, vars, callVars, sockVars
    <3> QED BY <3>1 DEF B!vars, Shadowed
  <2>3. ASSUME NEW s \in Sockets, NEW to \in {"none", "stale", "live"}, SocketChanges(s, to)
        PROVE  B!Next
    BY <2>3, ChangeStep DEF B!Next
  <2> QED BY <2>1, <2>2, <2>3 DEF Next, Caller, CallStep
<1> QED BY <1>1, <1>2, Invariant, FoundOrShadowed, FirstIsMeant, PTL
        DEF Spec, ImplementsBackend, B!Spec
=============================================================================

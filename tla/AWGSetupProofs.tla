---------------------------- MODULE AWGSetupProofs ----------------------------
(***************************************************************************)
(* Theorems about AWGSetup and the two modules it is composed of: what     *)
(* ConfigureDevice of the composite client promises of the values it       *)
(* sends, for any callers, configurations and devices; what                *)
(* GenerateAmneziaParams generates, for all draws within what rand.IntN    *)
(* promises; and that the former applies whatever the latter generates.    *)
(***************************************************************************)
EXTENDS AWGSetup, SequenceTheorems, TLAPS

-----------------------------------------------------------------------------
(* ConfigureDevice, as long as the configurations do not change.           *)

\* Unless a partial update was not checked, or checked against a device that
\* has changed since, what a caller is about to send is acceptable.
SafeToSet(c) ==
  /\ pc[c] = "set"
  /\ device.isAmnezia \/ ~ HasAWGFields(cfg[c])
  /\ ~ (PartialAWG(cfg[c]) /\ (unread[c] \/ raced[c]))
  => KernelAccepts(Applied(device, cfg[c]))

IInv ==
  /\ TypeOK
  /\ KernelAccepts(device)
  /\ \A c \in Callers : SafeToSet(c)
  /\ EinvalOnlyAfterRace

-----------------------------------------------------------------------------
(* What Validate protects: the encodings lose nothing.                     *)

\* No limit exceeds 16 bits.
LEMMA LimitsFit ==
  U16 \in Nat /\ \A f \in Numbers : Limit[f] \in Nat /\ Limit[f] < U16
BY DEF Numbers, Limit, U16, maxMessageSize

\* A number that is within the limits survives its 16-bit attribute.
LEMMA NumbersSurvive ==
  ASSUME NEW x \in Config, Validates(x), NEW f \in Numbers, x.n[f] # Nil
  PROVE  Uint16(x.n[f]) = x.n[f] /\ x.n[f] \in 0 .. Limit[f]
<1>1. x.n[f] \in Int /\ 0 <= x.n[f] /\ x.n[f] <= Limit[f]
  BY DEF Config, Validates, InLimits
<1>2. x.n[f] \in 0 .. U16 - 1 BY <1>1, LimitsFit
<1> QED BY <1>1, <1>2, LimitsFit DEF Uint16

\* And the firewall mark its 32-bit one.
LEMMA MarkSurvives ==
  ASSUME NEW x \in Config, Validates(x), x.mark # Nil
  PROVE  Uint32(x.mark) = x.mark /\ x.mark \in 0 .. U32 - 1
<1>1. x.mark \in Int /\ 0 <= x.mark /\ x.mark < U32 BY DEF Config, Validates
<1> QED BY <1>1, U32Assumption DEF Uint32

\* What Validate accepts is encoded without loss, keepalives included.
THEOREM EncodingLossless ==
  ASSUME NEW x \in Config, Validates(x)
  PROVE  /\ \A f \in Numbers : x.n[f] # Nil => Uint16(x.n[f]) = x.n[f]
         /\ x.mark # Nil => Uint32(x.mark) = x.mark
         /\ \A i \in DOMAIN x.peers :
              x.peers[i].ka # Nil
              => KeepaliveSeconds(x.peers[i].ka) = x.peers[i].ka \div 1000
<1>1. ASSUME NEW i \in DOMAIN x.peers, x.peers[i].ka # Nil
      PROVE  KeepaliveSeconds(x.peers[i].ka) = x.peers[i].ka \div 1000
  <2>0. x.peers[i].ka \in Int
    <3>1. x.peers \in Seq(PeerValues)
      BY DEF Config
    <3>2. x.peers[i] \in PeerValues
      BY <3>1
    <3>3. x.peers[i].ka \in Int \union {Nil}
      BY <3>2 DEF PeerValues
    <3> QED BY <1>1, <3>3
  <2>1. x.peers[i].ka \in Int /\ 0 <= x.peers[i].ka /\ x.peers[i].ka <= 65535 * 1000
    BY SMT, <1>1, <2>0 DEF Validates, PeerValid
  <2>2. x.peers[i].ka \div 1000 \in Nat /\ x.peers[i].ka \div 1000 < U16
    BY <2>1 DEF U16
  <2> QED BY <2>2, LimitsFit DEF KeepaliveSeconds, Uint16
<1> QED BY <1>1, NumbersSurvive, MarkSurvives

-----------------------------------------------------------------------------
(* What the device would become.                                           *)

\* Applying a validated configuration leaves a device well typed, with every
\* field either as it was or as it was asked for.
LEMMA AppliedTyped ==
  ASSUME NEW d \in Device, NEW x \in Config, Validates(x)
  PROVE  /\ Applied(d, x) \in Device
         /\ Applied(d, x).isAmnezia = d.isAmnezia
         /\ \A f \in Numbers :
              Applied(d, x).n[f] = IF x.n[f] = Nil THEN d.n[f] ELSE x.n[f]
         /\ Applied(d, x).mark = IF x.mark = Nil THEN d.mark ELSE x.mark
         /\ \A i \in Headers :
              Applied(d, x).H[i] = IF x.H[i] = Nil THEN d.H[i] ELSE x.H[i]
<1> DEFINE num == [f \in Numbers |-> IF x.n[f] = Nil THEN d.n[f] ELSE Uint16(x.n[f])]
           mrk == IF x.mark = Nil THEN d.mark ELSE Uint32(x.mark)
           hdr == [i \in Headers |-> IF x.H[i] = Nil THEN d.H[i] ELSE x.H[i]]
<1>1. \A f \in Numbers :
        num[f] = (IF x.n[f] = Nil THEN d.n[f] ELSE x.n[f]) /\ num[f] \in 0 .. U16 - 1
  <2> TAKE f \in Numbers
  <2>1. d.n[f] \in 0 .. U16 - 1 BY DEF Device
  <2> QED BY <2>1, NumbersSurvive, LimitsFit
<1>2. mrk = (IF x.mark = Nil THEN d.mark ELSE x.mark) /\ mrk \in 0 .. U32 - 1
  BY MarkSurvives DEF Device
<1>3. \A i \in Headers : hdr[i] \in HeaderRange \union {Nil} BY DEF Device, Config
<1>4. num \in [Numbers -> 0 .. U16 - 1] BY <1>1
<1>5. hdr \in [Headers -> HeaderRange \union {Nil}] BY <1>3
<1>6. Applied(d, x) = [d EXCEPT !.n = num, !.mark = mrk, !.H = hdr] BY DEF Applied
<1>7. \A i \in Headers : hdr[i] = IF x.H[i] = Nil THEN d.H[i] ELSE x.H[i]
  OBVIOUS
<1> HIDE DEF num, mrk, hdr
<1>8. /\ Applied(d, x) \in Device /\ Applied(d, x).isAmnezia = d.isAmnezia
      /\ Applied(d, x).n = num /\ Applied(d, x).mark = mrk /\ Applied(d, x).H = hdr
  <2> DEFINE u == [d EXCEPT !.n = num, !.mark = mrk, !.H = hdr]
  <2>1. /\ u \in Device /\ u.isAmnezia = d.isAmnezia
        /\ u.n = num /\ u.mark = mrk /\ u.H = hdr
    BY <1>2, <1>4, <1>5 DEF Device
  <2> HIDE DEF u
  <2> QED BY <2>1, <1>6 DEF u
<1> QED BY <1>1, <1>2, <1>7, <1>8

\* The numbers stay within the limits, whatever is set.
LEMMA LimitsKept ==
  ASSUME NEW d \in Device, KernelAccepts(d), NEW x \in Config, Validates(x)
  PROVE  \A f \in Numbers : Applied(d, x).n[f] <= Limit[f]
<1> TAKE f \in Numbers
<1>1. d.n[f] <= Limit[f] BY DEF KernelAccepts
<1>2. x.n[f] # Nil => x.n[f] <= Limit[f] BY DEF Validates, InLimits
<1> QED BY <1>1, <1>2, AppliedTyped

\* A device in which the junk lengths are in order and headers that parse do
\* not overlap is one the kernel accepts.
LEMMA GroupsAccepted ==
  ASSUME NEW d \in Device,
         \A f \in Numbers : d.n[f] <= Limit[f],
         d.n["Jmax"] # 0 => d.n["Jmin"] <= d.n["Jmax"],
         \A i, j \in Headers :
           i < j /\ d.H[i] # Nil /\ d.H[j] # Nil => ~ Overlap(d.H[i], d.H[j])
  PROVE  KernelAccepts(d)
<1> SUFFICES ASSUME NEW i \in Headers, NEW j \in Headers,
                    i < j, d.H[i] # Nil, d.H[j] # Nil
             PROVE  d.H[i][2] < d.H[j][1] \/ d.H[j][2] < d.H[i][1]
    BY DEF KernelAccepts
<1>1. d.H[i] \in HeaderRange /\ d.H[j] \in HeaderRange BY DEF Device
<1> QED BY <1>1 DEF Overlap, HeaderRange

\* The check of a partial update: if what the device would have passes, so
\* does what it is going to have.
LEMMA MergeAccepted ==
  ASSUME NEW d \in Device, KernelAccepts(d), NEW x \in Config, Validates(x),
         Validates(MergeAWG(d, x))
  PROVE  KernelAccepts(Applied(d, x))
<1> DEFINE m == MergeAWG(d, x)
           e == Applied(d, x)
<1>1. e \in Device /\ \A f \in Numbers : e.n[f] <= Limit[f]
  BY AppliedTyped, LimitsKept
<1>2. /\ m.n["Jmin"] = e.n["Jmin"] /\ m.n["Jmax"] = e.n["Jmax"]
      /\ m.n["Jmin"] # Nil /\ m.n["Jmax"] # Nil
  <2>1. e.n["Jmin"] \in Int /\ e.n["Jmax"] \in Int BY <1>1, LimitsFit DEF Device, Numbers
  <2>2. m.n["Jmin"] = e.n["Jmin"] /\ m.n["Jmax"] = e.n["Jmax"]
    BY AppliedTyped DEF MergeAWG, Numbers
  <2> QED BY <2>1, <2>2, NilAssumption
<1>3. e.n["Jmax"] # 0 => e.n["Jmin"] <= e.n["Jmax"]
  BY <1>2 DEF Validates, JunkInOrder
<1>4. \A i \in Headers : m.H[i] = e.H[i] BY AppliedTyped DEF MergeAWG
<1>5. \A i, j \in Headers :
        i < j /\ e.H[i] # Nil /\ e.H[j] # Nil => ~ Overlap(e.H[i], e.H[j])
  BY <1>4 DEF Validates, HeadersApart
<1> HIDE DEF m, e
<1>6. KernelAccepts(e) BY <1>1, <1>3, <1>5, GroupsAccepted
<1> QED BY <1>6 DEF e

\* No check is needed when each group is set as a whole or not at all.
LEMMA WholeAccepted ==
  ASSUME NEW d \in Device, KernelAccepts(d), NEW x \in Config, Validates(x),
         ~ PartialAWG(x)
  PROVE  KernelAccepts(Applied(d, x))
<1> DEFINE e == Applied(d, x)
<1>1. e \in Device /\ \A f \in Numbers : e.n[f] <= Limit[f]
  BY AppliedTyped, LimitsKept
<1>2. e.n["Jmax"] # 0 => e.n["Jmin"] <= e.n["Jmax"]
  <2>1. (x.n["Jmin"] # Nil /\ x.n["Jmax"] # Nil) \/ (x.n["Jmin"] = Nil /\ x.n["Jmax"] = Nil)
    BY DEF PartialAWG, Partial, Numbers
  <2>2. /\ e.n["Jmin"] = IF x.n["Jmin"] = Nil THEN d.n["Jmin"] ELSE x.n["Jmin"]
        /\ e.n["Jmax"] = IF x.n["Jmax"] = Nil THEN d.n["Jmax"] ELSE x.n["Jmax"]
    BY AppliedTyped DEF Numbers
  <2> QED BY <2>1, <2>2 DEF KernelAccepts, Validates, JunkInOrder
<1>3. \A i, j \in Headers :
        i < j /\ e.H[i] # Nil /\ e.H[j] # Nil => ~ Overlap(e.H[i], e.H[j])
  <2> SUFFICES ASSUME NEW i \in Headers, NEW j \in Headers,
                      i < j, e.H[i] # Nil, e.H[j] # Nil
               PROVE  ~ Overlap(e.H[i], e.H[j])
      OBVIOUS
  <2>1. e.H[i] = (IF x.H[i] = Nil THEN d.H[i] ELSE x.H[i])
        /\ e.H[j] = (IF x.H[j] = Nil THEN d.H[j] ELSE x.H[j])
    BY AppliedTyped
  <2>2. CASE x.H[i] # Nil /\ x.H[j] # Nil
    <3>1. ~ Overlap(x.H[i], x.H[j]) BY <2>2 DEF Validates, HeadersApart
    <3> QED BY <2>1, <2>2, <3>1
  <2>3. CASE x.H[i] = Nil /\ x.H[j] = Nil
    <3>1. e.H[i] = d.H[i] /\ e.H[j] = d.H[j] BY <2>1, <2>3
    <3>2. d.H[i] \in HeaderRange /\ d.H[j] \in HeaderRange BY <3>1 DEF Device
    <3>3. d.H[i][2] < d.H[j][1] \/ d.H[j][2] < d.H[i][1]
      BY <3>1 DEF KernelAccepts
    <3> QED BY <3>1, <3>2, <3>3 DEF Overlap, HeaderRange
  <2>4. ~ Partial(Headers, {k \in Headers : x.H[k] # Nil}) BY DEF PartialAWG
  <2> QED BY <2>2, <2>3, <2>4 DEF Partial
<1> HIDE DEF e
<1>4. KernelAccepts(e) BY <1>1, <1>2, <1>3, GroupsAccepted
<1> QED BY <1>4 DEF e
-----------------------------------------------------------------------------
(* Type correctness.                                                       *)

\* A caller starts before the check.
LEMMA TypeInit == Init => TypeOK
BY DevicesAssumption, ConfigsAssumption DEF Init, TypeOK

\* Every step keeps each variable in its type, and sends only what validates.
LEMMA TypeStep == TypeOK /\ [Next]_vars => TypeOK'
<1> SUFFICES ASSUME TypeOK, [Next]_vars PROVE TypeOK'
    OBVIOUS
<1> USE DEF TypeOK
<1>1. ASSUME NEW c \in Callers, ValidateFails(c) PROVE TypeOK'
  BY <1>1 DEF ValidateFails, Return
<1>2. ASSUME NEW c \in Callers, NoRead(c) PROVE TypeOK'
  BY <1>2 DEF NoRead
<1>3. ASSUME NEW c \in Callers, ReadFails(c) PROVE TypeOK'
  BY <1>3 DEF ReadFails
<1>4. ASSUME NEW c \in Callers, Read(c) PROVE TypeOK'
  <2>1. CASE Return(c, "invalid") BY <1>4, <2>1 DEF Read, Return
  <2>2. CASE pc' = [pc EXCEPT ![c] = "set"] /\ UNCHANGED result
    BY <1>4, <2>2 DEF Read
  <2> QED BY <1>4, <2>1, <2>2 DEF Read
<1>5. ASSUME NEW c \in Callers, NotSupported(c) PROVE TypeOK'
  BY <1>5 DEF NotSupported, Return
<1>6. ASSUME NEW c \in Callers, SetOK(c) PROVE TypeOK'
  <2>1. Validates(cfg[c]) BY <1>6 DEF SetOK
  <2>2. device' \in Device
    BY <1>6, <2>1, AppliedTyped DEF SetOK
  <2>3. raced' \in [Callers -> BOOLEAN] BY <1>6 DEF SetOK
  <2> QED BY <1>6, <2>2, <2>3 DEF SetOK, Return
<1>7. ASSUME NEW c \in Callers, SetFails(c) PROVE TypeOK'
  BY <1>7 DEF SetFails, Return
<1>8. CASE UNCHANGED vars BY <1>8 DEF vars
<1> QED BY <1>1, <1>2, <1>3, <1>4, <1>5, <1>6, <1>7, <1>8 DEF Next, ConfigureDevice

\* ConfigureDevice keeps its variables in their types, and only a validated
\* configuration reaches a backend.
THEOREM TypeCorrect == Spec => []TypeOK
BY TypeInit, TypeStep, PTL DEF Spec

-----------------------------------------------------------------------------
(* No value changes on its way to the device.                              *)

\* A step changes a number or the mark only to what a configuration says.
LEMMA StepAsAsked ==
  TypeOK /\ [Next]_vars
  => [/\ \A f \in Numbers :
           device'.n[f] # device.n[f]
           => \E c \in Callers : cfg[c].n[f] = device'.n[f]
      /\ device'.mark # device.mark
         => \E c \in Callers : cfg[c].mark = device'.mark]_vars
<1> SUFFICES ASSUME TypeOK, Next
             PROVE  /\ \A f \in Numbers :
                         device'.n[f] # device.n[f]
                         => \E c \in Callers : cfg[c].n[f] = device'.n[f]
                    /\ device'.mark # device.mark
                       => \E c \in Callers : cfg[c].mark = device'.mark
    OBVIOUS
<1>1. CASE UNCHANGED device BY <1>1
<1>2. ASSUME NEW c \in Callers, SetOK(c)
      PROVE  /\ \A f \in Numbers :
                  device'.n[f] # device.n[f] => cfg[c].n[f] = device'.n[f]
             /\ device'.mark # device.mark => cfg[c].mark = device'.mark
  <2>1. Validates(cfg[c]) /\ cfg[c] \in Config /\ device \in Device
    BY <1>2 DEF SetOK, TypeOK
  <2>2. device' = Applied(device, cfg[c]) BY <1>2 DEF SetOK
  <2> QED BY <2>1, <2>2, AppliedTyped
<1>3. UNCHANGED device \/ \E c \in Callers : SetOK(c)
  BY DEF Next, ConfigureDevice, ValidateFails, NoRead, ReadFails, Read, NotSupported, SetFails
<1> QED BY <1>1, <1>2, <1>3

\* "Jc 70000 would otherwise reach the kernel as 4464": no step gives the
\* device a value that nobody asked for.
THEOREM ValuesAsAsked == Spec => AsAsked
<1>1. TypeOK /\ [Next]_vars
      => [/\ \A f \in Numbers :
               device'.n[f] # device.n[f]
               => \E c \in Callers : cfg[c].n[f] = device'.n[f]
          /\ device'.mark # device.mark
             => \E c \in Callers : cfg[c].mark = device'.mark]_vars
  BY StepAsAsked
<1> QED BY <1>1, TypeCorrect, PTL DEF Spec, AsAsked
-----------------------------------------------------------------------------
(* EINVAL comes back only when the check could not have seen it coming.    *)

\* Nobody is about to send anything yet.
LEMMA InvInit == Init => IInv
<1> SUFFICES ASSUME Init PROVE IInv
    OBVIOUS
<1>1. TypeOK BY TypeInit
<1>2. KernelAccepts(device) BY DevicesAssumption DEF Init
<1>3. \A c \in Callers : SafeToSet(c) BY DEF Init, SafeToSet
<1>4. EinvalOnlyAfterRace BY DEF Init, EinvalOnlyAfterRace
<1> QED BY <1>1, <1>2, <1>3, <1>4 DEF IInv

\* A step that leaves the device alone and moves only the caller c disturbs
\* nobody else.
LEMMA OthersSafe ==
  ASSUME IInv, NEW c \in Callers, UNCHANGED <<device, cfg>>,
         \A d \in Callers \ {c} :
           /\ pc'[d] = pc[d] /\ result'[d] = result[d]
           /\ unread'[d] = unread[d] /\ raced'[d] = raced[d]
  PROVE  \A d \in Callers \ {c} :
           /\ SafeToSet(d)'
           /\ result'[d] = "EINVAL" => PartialAWG(cfg'[d]) /\ (unread'[d] \/ raced'[d])
<1> SUFFICES ASSUME NEW d \in Callers \ {c}
             PROVE  /\ SafeToSet(d)'
                    /\ result'[d] = "EINVAL"
                       => PartialAWG(cfg'[d]) /\ (unread'[d] \/ raced'[d])
    OBVIOUS
<1>1. SafeToSet(d) /\ (result[d] = "EINVAL" => PartialAWG(cfg[d]) /\ (unread[d] \/ raced[d]))
  BY DEF IInv, EinvalOnlyAfterRace
<1> QED BY <1>1 DEF SafeToSet

\* One step: what a check has let pass stays acceptable until the device
\* changes, and then "raced" records that it did.
LEMMA InvStep == IInv /\ [Next]_vars => IInv'
<1> SUFFICES ASSUME IInv, [Next]_vars PROVE IInv'
    OBVIOUS
<1>1. TypeOK /\ TypeOK' BY TypeStep DEF IInv
<1> DEFINE Safe(d) == SafeToSet(d)
           Cause(d) == result[d] = "EINVAL" => PartialAWG(cfg[d]) /\ (unread[d] \/ raced[d])
<1>2. SUFFICES KernelAccepts(device') /\ \A d \in Callers : Safe(d)' /\ Cause(d)'
    BY <1>1 DEF IInv, EinvalOnlyAfterRace, KernelAccepts
<1>3. ASSUME NEW c \in Callers, UNCHANGED <<device, cfg>>, Safe(c)', Cause(c)',
             \A d \in Callers \ {c} :
               /\ pc'[d] = pc[d] /\ result'[d] = result[d]
               /\ unread'[d] = unread[d] /\ raced'[d] = raced[d]
      PROVE  KernelAccepts(device') /\ \A d \in Callers : Safe(d)' /\ Cause(d)'
  <2>1. KernelAccepts(device') BY <1>3 DEF IInv
  <2>2. \A d \in Callers \ {c} : Safe(d)' /\ Cause(d)' BY <1>3, OthersSafe
  <2> QED BY <1>3, <2>1, <2>2
<1>4. ASSUME NEW c \in Callers
      PROVE  Cause(c) /\ Safe(c)
  BY DEF IInv, EinvalOnlyAfterRace
<1>5. ASSUME NEW c \in Callers, ValidateFails(c)
      PROVE  KernelAccepts(device') /\ \A d \in Callers : Safe(d)' /\ Cause(d)'
  <2>1. Safe(c)' /\ Cause(c)'
    BY <1>1, <1>5 DEF ValidateFails, Return, SafeToSet, TypeOK
  <2> QED BY <1>1, <1>3, <1>5, <2>1 DEF ValidateFails, Return, TypeOK
<1>6. ASSUME NEW c \in Callers, NoRead(c)
      PROVE  KernelAccepts(device') /\ \A d \in Callers : Safe(d)' /\ Cause(d)'
  <2>1. KernelAccepts(Applied(device, cfg[c]))
    BY <1>1, <1>6, WholeAccepted DEF NoRead, IInv, TypeOK
  <2>2. Safe(c)' BY <1>6, <2>1 DEF NoRead, SafeToSet
  <2>3. Cause(c)' BY <1>4, <1>6 DEF NoRead
  <2> QED BY <1>1, <1>3, <1>6, <2>2, <2>3 DEF NoRead, TypeOK
<1>7. ASSUME NEW c \in Callers, ReadFails(c)
      PROVE  KernelAccepts(device') /\ \A d \in Callers : Safe(d)' /\ Cause(d)'
  <2>1. unread'[c] /\ PartialAWG(cfg'[c]) BY <1>1, <1>7 DEF ReadFails, TypeOK
  <2>2. Safe(c)' /\ Cause(c)' BY <2>1 DEF SafeToSet
  <2> QED BY <1>1, <1>3, <1>7, <2>2 DEF ReadFails, TypeOK
<1>8. ASSUME NEW c \in Callers, Read(c)
      PROVE  KernelAccepts(device') /\ \A d \in Callers : Safe(d)' /\ Cause(d)'
  <2>1. CASE Return(c, "invalid")
    <3>1. Safe(c)' /\ Cause(c)'
      BY <1>1, <1>8, <2>1 DEF Read, Return, SafeToSet, TypeOK
    <3> QED BY <1>1, <1>3, <1>8, <2>1, <3>1 DEF Read, Return, TypeOK
  <2>2. CASE /\ ~ (device.isAmnezia /\ ~ Validates(MergeAWG(device, cfg[c])))
             /\ pc' = [pc EXCEPT ![c] = "set"] /\ UNCHANGED result
    <3>1. device.isAmnezia => KernelAccepts(Applied(device, cfg[c]))
      BY <1>1, <1>8, <2>2, MergeAccepted DEF Read, IInv, TypeOK
    <3>2. PartialAWG(cfg[c]) => HasAWGFields(cfg[c])
      BY DEF PartialAWG, Partial, HasAWGFields, Numbers
    <3>3. Safe(c)' BY <1>8, <3>1, <3>2 DEF Read, SafeToSet
    <3>4. Cause(c)' BY <1>4, <1>8, <2>2 DEF Read
    <3> QED BY <1>1, <1>3, <1>8, <2>2, <3>3, <3>4 DEF Read, TypeOK
  <2> QED BY <1>8, <2>1, <2>2 DEF Read
<1>9. ASSUME NEW c \in Callers, NotSupported(c)
      PROVE  KernelAccepts(device') /\ \A d \in Callers : Safe(d)' /\ Cause(d)'
  <2>1. Safe(c)' /\ Cause(c)'
    BY <1>1, <1>9 DEF NotSupported, Return, SafeToSet, TypeOK
  <2> QED BY <1>1, <1>3, <1>9, <2>1 DEF NotSupported, Return, TypeOK
<1>10. ASSUME NEW c \in Callers, SetOK(c)
       PROVE  KernelAccepts(device') /\ \A d \in Callers : Safe(d)' /\ Cause(d)'
  <2>1. KernelAccepts(device') BY <1>10 DEF SetOK
  <2>2. pc'[c] = "done" /\ result'[c] = "ok" BY <1>1, <1>10 DEF SetOK, Return, TypeOK
  <2>3. Safe(c)' /\ Cause(c)' BY <2>2 DEF SafeToSet
  <2>4. ASSUME NEW d \in Callers \ {c} PROVE Safe(d)' /\ Cause(d)'
    <3>1. /\ pc'[d] = pc[d] /\ result'[d] = result[d] /\ UNCHANGED <<cfg, unread>>
          /\ raced'[d] = (raced[d] \/ (pc[d] = "set" /\ device' # device))
      BY <1>1, <1>10 DEF SetOK, Return, TypeOK
    <3>2. Cause(d)' BY <1>4, <3>1
    <3>3. CASE device' = device BY <1>4, <3>1, <3>3 DEF SafeToSet
    <3>4. CASE device' # device
      <4>1. device'.isAmnezia = device.isAmnezia
        BY <1>1, <1>10, AppliedTyped DEF SetOK, TypeOK
      <4>2. CASE pc[d] # "set" BY <3>1, <3>2, <4>2 DEF SafeToSet
      <4>3. CASE pc[d] = "set" /\ PartialAWG(cfg[d])
        BY <3>1, <3>4, <4>3 DEF SafeToSet
      <4>4. CASE pc[d] = "set" /\ ~ PartialAWG(cfg[d])
        <5>1. KernelAccepts(Applied(device', cfg[d]))
          BY <1>1, <2>1, <4>4, WholeAccepted DEF TypeOK
        <5> QED BY <3>1, <3>2, <5>1 DEF SafeToSet
      <4> QED BY <3>2, <4>2, <4>3, <4>4
    <3> QED BY <3>2, <3>3, <3>4
  <2> QED BY <2>1, <2>3, <2>4
<1>11. ASSUME NEW c \in Callers, SetFails(c)
       PROVE  KernelAccepts(device') /\ \A d \in Callers : Safe(d)' /\ Cause(d)'
  <2>1. PartialAWG(cfg[c]) /\ (unread[c] \/ raced[c])
    BY <1>4, <1>11 DEF SetFails, SafeToSet
  <2>2. Cause(c)' BY <1>11, <2>1 DEF SetFails
  <2>3. Safe(c)' BY <1>1, <1>11 DEF SetFails, Return, SafeToSet, TypeOK
  <2> QED BY <1>1, <1>3, <1>11, <2>2, <2>3 DEF SetFails, Return, TypeOK
<1>12. CASE UNCHANGED vars
  <2>1. \A d \in Callers : Safe(d)' /\ Cause(d)'
    BY <1>4, <1>12 DEF vars, SafeToSet
  <2> QED BY <1>12, <2>1 DEF vars, IInv
<1> QED BY <1>5, <1>6, <1>7, <1>8, <1>9, <1>10, <1>11, <1>12 DEF Next, ConfigureDevice

\* "Such a conflict is reported clearly instead of as EINVAL", except when the
\* device could not be read or was changed between the read and the set.
THEOREM ConflictsReported == Spec => []EinvalOnlyAfterRace
<1>1. IInv => EinvalOnlyAfterRace BY DEF IInv
<1> QED BY <1>1, InvInit, InvStep, PTL DEF Spec

-----------------------------------------------------------------------------
(* GenerateAmneziaParams.                                                  *)

\* Generate's own names for what Validate and Draws define.
LEMMA SameNames ==
  G!Numbers = Numbers /\ G!Headers = Headers /\ G!Million = Million
BY DEF G!Numbers, Numbers, G!Headers, Headers, G!Million, Million

\* The numbers drawn so far are within the limits of Validate.
NumbersInv ==
  /\ n \in [Numbers -> Int \union {Nil}]
  /\ InLimits(n)
  /\ JunkInOrder(n)

\* The k-th range is in order, ends before currentOffset and is no further
\* than k greatest widths and gaps can take it.
Placed(k) ==
  /\ ranges[k] \in Int \X Int
  /\ 0 <= ranges[k][1] /\ ranges[k][1] <= ranges[k][2]
  /\ ranges[k][2] < offset
  /\ ranges[k][2] <= 170 * Million + k * (180 * Million)

\* The ranges drawn so far lie apart.
RangesInv ==
  /\ ranges \in Seq(Int \X Int)
  /\ offset \in Int
  /\ drawing \in {"junk", "padding"} => ranges = <<>>
  /\ drawing \notin {"junk", "padding"} =>
       /\ 150 * Million <= offset
       /\ offset <= 200 * Million + Len(ranges) * (180 * Million)
  /\ Len(ranges) <= 4
  /\ \A k \in 1 .. Len(ranges) : Placed(k)
  /\ \A j, k \in 1 .. Len(ranges) : j < k => ranges[j][2] < ranges[k][1]

\* The headers are the four ranges in some order.
Permutes(p) ==
  /\ p \in [Headers -> Headers]
  /\ \A i, j \in Headers : i # j => p[i] # p[j]

HeadersInv ==
  drawing \in {"init", "done"} =>
    /\ Len(ranges) = 4
    /\ \E p : Permutes(p) /\ \A i \in Headers : H[i] = ranges[p[i]]

DrawInv == NumbersInv /\ RangesInv /\ HeadersInv

-----------------------------------------------------------------------------
(* One step.                                                               *)

\* Nothing is drawn yet.
LEMMA DrawInit == G!Init => DrawInv
<1> SUFFICES ASSUME G!Init PROVE DrawInv
    OBVIOUS
<1>1. NumbersInv
  <2>1. n = [f \in Numbers |-> Nil] BY SameNames DEF G!Init
  <2>2. \A f \in Numbers : n[f] = Nil BY <2>1
  <2> QED BY <2>1, <2>2 DEF NumbersInv, InLimits, JunkInOrder, Numbers
<1>2. RangesInv BY DEF G!Init, RangesInv
<1>3. HeadersInv BY DEF G!Init, HeadersInv
<1> QED BY <1>1, <1>2, <1>3 DEF DrawInv

\* Jc, Jmin and Jmax.
LEMMA JunkStep == ASSUME DrawInv, G!JunkPackets PROVE DrawInv'
<1>1. PICK r1 \in IntN(4), r2 \in IntN(50), r3 \in IntN(100) :
        n' = [n EXCEPT !["Jc"] = 3 + r1, !["Jmin"] = 64 + r2,
                       !["Jmax"] = 64 + r2 + 50 + r3]
  BY Zenon DEF G!JunkPackets
<1>2. /\ r1 \in Nat /\ r1 < 4 /\ r2 \in Nat /\ r2 < 50
      /\ r3 \in Nat /\ r3 < 100
  BY IntNAssumption
<1>3. n' \in [Numbers -> Int \union {Nil}]
  BY <1>1, <1>2 DEF DrawInv, NumbersInv, Numbers
<1>4. \A f \in Numbers : n'[f] # Nil => 0 <= n'[f] /\ n'[f] <= Limit[f]
  BY <1>1, <1>2 DEF DrawInv, NumbersInv, InLimits, Numbers, Limit
<1>5. n'["Jmin"] <= n'["Jmax"]
  BY <1>1, <1>2 DEF DrawInv, NumbersInv, Numbers
<1>6. NumbersInv' BY <1>3, <1>4, <1>5 DEF NumbersInv, InLimits, JunkInOrder
<1> QED BY <1>6 DEF G!JunkPackets, DrawInv, RangesInv, HeadersInv, Placed

\* The paddings, and the offset the ranges start from.
LEMMA PaddingStep == ASSUME DrawInv, G!Padding PROVE DrawInv'
<1>1. PICK r1 \in IntN(49), r2 \in IntN(49), r3 \in IntN(54), r4 \in IntN(15) :
        n' = [n EXCEPT !["S1"] = 15 + r1, !["S2"] = 15 + r2,
                       !["S3"] = 10 + r3, !["S4"] = 1 + r4]
  BY Zenon DEF G!Padding
<1>2. /\ r1 \in Nat /\ r1 < 49 /\ r2 \in Nat /\ r2 < 49
      /\ r3 \in Nat /\ r3 < 54 /\ r4 \in Nat /\ r4 < 15
  BY IntNAssumption
<1>3. n' \in [Numbers -> Int \union {Nil}]
  BY <1>1, <1>2 DEF DrawInv, NumbersInv, Numbers
<1>4. \A f \in Numbers : n'[f] # Nil => 0 <= n'[f] /\ n'[f] <= Limit[f]
  BY <1>1, <1>2 DEF DrawInv, NumbersInv, InLimits, Numbers, Limit, maxMessageSize
<1>5. n'["Jmin"] = n["Jmin"] /\ n'["Jmax"] = n["Jmax"]
  BY <1>1 DEF DrawInv, NumbersInv, Numbers
<1>6. NumbersInv' BY <1>3, <1>4, <1>5 DEF DrawInv, NumbersInv, InLimits, JunkInOrder
<1>7. PICK r \in IntN(50 * Million) : offset' = 150 * Million + r
  BY Zenon, SameNames DEF G!Padding
<1>8. r \in Nat /\ r < 50 * Million BY IntNAssumption
<1>9. RangesInv'
  <2>1. ranges' = <<>> /\ Len(ranges') = 0
    BY EmptySeq DEF G!Padding, DrawInv, RangesInv
  <2>2. /\ offset' \in Int /\ 150 * Million <= offset'
        /\ offset' <= 200 * Million + Len(ranges') * (180 * Million)
    BY <1>7, <1>8, <2>1 DEF Million
  <2> QED BY <2>1, <2>2, EmptySeq DEF G!Padding, RangesInv
<1> QED BY <1>6, <1>9 DEF G!Padding, DrawInv, HeadersInv

\* One more range, beyond the gap after the last one.
LEMMA RangeStep == ASSUME DrawInv, G!DrawRange PROVE DrawInv'
<1>1. PICK w \in IntN(100 * Million), g \in IntN(20 * Million) :
        /\ ranges' = Append(ranges, <<offset, offset + G!Width(w)>>)
        /\ offset' = offset + G!Width(w) + G!Gap(g)
  BY Zenon, SameNames DEF G!DrawRange
<1>2. w \in Nat /\ w < 100 * Million /\ g \in Nat /\ g < 20 * Million
  BY IntNAssumption
<1> DEFINE N == Len(ranges)
           last == offset + G!Width(w)
<1>3. /\ ranges \in Seq(Int \X Int) /\ N < 4 /\ offset \in Int
      /\ 150 * Million <= offset /\ offset <= 200 * Million + N * (180 * Million)
  BY DEF G!DrawRange, DrawInv, RangesInv
<1>4. N \in Nat BY <1>3, LenProperties
<1>5. /\ last \in Int /\ offset <= last /\ 0 <= offset
      /\ last <= 170 * Million + (N + 1) * (180 * Million)
      /\ last < offset' /\ offset' \in Int /\ offset < offset'
      /\ offset' <= 200 * Million + (N + 1) * (180 * Million)
      /\ 150 * Million <= offset'
  BY SameNames, <1>1, <1>2, <1>3, <1>4 DEF G!Width, G!Gap, Million
<1>6. ranges' = Append(ranges, <<offset, last>>) BY <1>1
<1> HIDE DEF N, last
<1>7. <<offset, last>> \in Int \X Int BY <1>3, <1>5
<1>8. /\ ranges' \in Seq(Int \X Int) /\ Len(ranges') = N + 1
      /\ ranges'[N + 1] = <<offset, last>>
  BY <1>3, <1>6, <1>7, AppendProperties DEF N
<1>9. ASSUME NEW k \in 1 .. N PROVE ranges'[k] = ranges[k] /\ Placed(k)
  <2>1. ranges'[k] = ranges[k] BY <1>3, <1>6, <1>7, AppendProperties DEF N
  <2>2. Placed(k) BY DEF DrawInv, RangesInv, N
  <2> QED BY <2>1, <2>2
<1>10. ASSUME NEW k \in 1 .. (N + 1) PROVE Placed(k)'
  <2>1. CASE k = N + 1
    <3>1. ranges'[k] = <<offset, last>> BY <1>8, <2>1
    <3> QED BY <1>5, <1>7, <2>1, <3>1 DEF Placed
  <2>2. CASE k \in 1 .. N
    <3>1. ranges'[k] = ranges[k] /\ Placed(k) BY <1>9, <2>2
    <3>2. ranges[k][2] < offset' BY <1>3, <1>5, <3>1 DEF Placed
    <3> QED BY <3>1, <3>2, SMTT(20) DEF Placed
  <2> QED BY <1>4, <2>1, <2>2
<1>11. ASSUME NEW j \in 1 .. (N + 1), NEW k \in 1 .. (N + 1), j < k
       PROVE  ranges'[j][2] < ranges'[k][1]
  <2>1. j \in 1 .. N BY <1>4, <1>11
  <2>2. ranges'[j] = ranges[j] /\ Placed(j) BY <1>9, <2>1
  <2>3. CASE k = N + 1
    <3>1. ranges'[k][1] = offset BY <1>8, <2>3
    <3> QED BY <2>2, <3>1 DEF Placed
  <2>4. CASE k \in 1 .. N
    <3>1. ranges'[k] = ranges[k] BY <1>9, <2>4
    <3>2. ranges[j][2] < ranges[k][1]
      BY <1>11, <2>1, <2>4 DEF DrawInv, RangesInv, N
    <3> QED BY <2>2, <3>1, <3>2
  <2> QED BY <1>4, <2>3, <2>4
<1>12. drawing \notin {"junk", "padding", "init", "done"} /\ UNCHANGED <<drawing, n, H, I>>
  BY DEF G!DrawRange
<1>13. N + 1 <= 4 BY <1>3, <1>4
<1>14. RangesInv'
  BY <1>5, <1>8, <1>10, <1>11, <1>12, <1>13 DEF RangesInv
<1> QED BY <1>12, <1>14 DEF DrawInv, NumbersInv, HeadersInv

\* Whatever the order they are shuffled into, and the init packets.
LEMMA DrawStep == DrawInv /\ [G!Next]_G!vars => DrawInv'
<1> SUFFICES ASSUME DrawInv, [G!Next]_G!vars PROVE DrawInv'
    OBVIOUS
<1>1. CASE G!JunkPackets BY <1>1, JunkStep
<1>2. CASE G!Padding BY <1>2, PaddingStep
<1>3. CASE G!DrawRange BY <1>3, RangeStep
<1>4. CASE G!Shuffle
  <2>1. PICK p \in [Headers -> Headers] :
          /\ \A i, j \in Headers : i # j => p[i] # p[j]
          /\ H' = [i \in Headers |-> ranges[p[i]]]
    BY SameNames, <1>4 DEF G!Shuffle
  <2>2. HeadersInv' BY SameNames, <1>4, <2>1 DEF G!Shuffle, HeadersInv, Permutes
  <2>3. drawing = "range" /\ drawing' = "init" /\ UNCHANGED <<n, offset, ranges>>
    BY Zenon, <1>4 DEF G!Shuffle
  <2>4. NumbersInv' /\ RangesInv'
    BY <2>3 DEF DrawInv, NumbersInv, RangesInv, Placed
  <2> QED BY <2>2, <2>4 DEF DrawInv
<1>5. CASE G!InitPackets
  BY <1>5 DEF G!InitPackets, DrawInv, NumbersInv, RangesInv, HeadersInv, Placed
<1>6. CASE UNCHANGED G!vars
  BY <1>6 DEF G!vars, DrawInv, NumbersInv, RangesInv, HeadersInv, Placed
<1> QED BY <1>1, <1>2, <1>3, <1>4, <1>5, <1>6 DEF G!Next

-----------------------------------------------------------------------------
\* "We keep max value below math.MaxInt32": four ranges and the gaps between
\* them never add up to it.
THEOREM NoSignedOverflow == G!Spec => []G!BelowMaxInt32
<1>1. DrawInv => G!BelowMaxInt32
  <2> SUFFICES ASSUME DrawInv, NEW k \in DOMAIN ranges
               PROVE  ranges[k][2] < (U32 \div 2) - 1
      BY DEF G!BelowMaxInt32
  <2>1. Len(ranges) <= 4 /\ k \in 1 .. Len(ranges) /\ Len(ranges) \in Nat
    BY LenProperties DEF DrawInv, RangesInv
  <2>2. k <= 4 /\ k \in Int /\ Placed(k) BY <2>1 DEF DrawInv, RangesInv
  <2> QED BY <2>2, U32Assumption, WideHeaders DEF Placed, Million
<1> QED BY <1>1, DrawInit, DrawStep, PTL DEF G!Spec

\* Once all is drawn, the numbers are within their limits, Jmin is at most Jmax
\* and no two headers overlap.
LEMMA FieldsValid ==
  DrawInv => (drawing = "done" => InLimits(n) /\ JunkInOrder(n) /\ HeadersApart(H))
<1> SUFFICES ASSUME DrawInv, drawing = "done"
             PROVE  InLimits(n) /\ JunkInOrder(n) /\ HeadersApart(H)
    OBVIOUS
<1>1. InLimits(n) /\ JunkInOrder(n) BY DEF DrawInv, NumbersInv
<1>2. PICK p : Permutes(p) /\ \A i \in Headers : H[i] = ranges[p[i]]
  BY DEF DrawInv, HeadersInv
<1>3. Len(ranges) = 4 BY DEF DrawInv, HeadersInv
<1>4. \A k \in Headers : Placed(k) BY <1>3 DEF DrawInv, RangesInv, Headers
<1>5. \A i \in Headers : ParseMagicHeader(H[i])
  <2> TAKE i \in Headers
  <2>1. p[i] \in Headers /\ H[i] = ranges[p[i]] BY <1>2 DEF Permutes
  <2>2. p[i] <= 4 /\ p[i] \in Int BY <2>1 DEF Headers
  <2>3. Placed(p[i]) BY <1>4, <2>1
  <2> QED BY <2>1, <2>2, <2>3, WideHeaders, U32Assumption
          DEF ParseMagicHeader, Placed, Million
<1>6. ASSUME NEW i \in Headers, NEW j \in Headers, i < j
      PROVE  ~ Overlap(H[i], H[j])
  <2>1. /\ p[i] \in Headers /\ H[i] = ranges[p[i]]
        /\ p[j] \in Headers /\ H[j] = ranges[p[j]] /\ p[i] # p[j]
    BY <1>2, <1>6 DEF Permutes, Headers
  <2>2. p[i] < p[j] \/ p[j] < p[i] BY <2>1 DEF Headers
  <2>3. \A a, b \in Headers : a < b => ranges[a][2] < ranges[b][1]
    BY <1>3 DEF DrawInv, RangesInv, Headers
  <2>4. Placed(p[i]) /\ Placed(p[j]) BY <1>4, <2>1
  <2>5. H[i][2] < H[j][1] \/ H[j][2] < H[i][1] BY <2>1, <2>2, <2>3
  <2> QED BY <2>1, <2>4, <2>5 DEF Overlap, Placed
<1> QED BY <1>1, <1>5, <1>6 DEF HeadersApart

\* The numbers and the headers that GenerateAmneziaParams makes pass Validate:
\* all within their limits, Jmin at most Jmax, no two headers overlapping.
THEOREM NumbersAndHeadersValid ==
  G!Spec => [](drawing = "done" => InLimits(n) /\ JunkInOrder(n) /\ HeadersApart(H))
BY FieldsValid, DrawInit, DrawStep, PTL DEF G!Spec

-----------------------------------------------------------------------------
(* What is generated, as a configuration.                                  *)

\* The draws for the init packets are far below what a packet may take.
LEMMA MessageRoom == maxMessageSize \in Nat /\ 64 <= maxMessageSize
BY DEF maxMessageSize

\* A description of one random tag, as each of the five is.
OneTag == {<<[key |-> "r", val |-> v, text |-> 6]>> : v \in 1 .. maxMessageSize}

\* What DrawInv does not say: which fields have been set when, and to what.
DrawnInv ==
  /\ H \in [Headers -> HeaderRange \union {Nil}]
  /\ I \in [1 .. 5 -> OneTag \union {Nil}]
  /\ drawing # "junk" => \A f \in {"Jc", "Jmin", "Jmax"} : n[f] # Nil
  /\ drawing = "done" => \A i \in 1 .. 5 : I[i] \in OneTag

\* Nothing is drawn, then one group of fields after the other.
LEMMA DrawnInit == G!Init => DrawnInv
<1> SUFFICES ASSUME G!Init PROVE DrawnInv
    OBVIOUS
<1>1. /\ drawing = "junk" /\ H = [i \in Headers |-> Nil]
      /\ I = [i \in 1 .. 5 |-> Nil]
  BY SameNames DEF G!Init
<1> QED BY <1>1 DEF DrawnInv

LEMMA DrawnStep == DrawInv /\ DrawnInv /\ [G!Next]_G!vars => DrawnInv'
<1> SUFFICES ASSUME DrawInv, DrawnInv, [G!Next]_G!vars PROVE DrawnInv'
    OBVIOUS
<1>1. CASE G!JunkPackets
  <2>1. PICK r1 \in IntN(4), r2 \in IntN(50), r3 \in IntN(100) :
          n' = [n EXCEPT !["Jc"] = 3 + r1, !["Jmin"] = 64 + r2,
                         !["Jmax"] = 64 + r2 + 50 + r3]
    BY Zenon, <1>1 DEF G!JunkPackets
  <2>2. r1 \in Nat /\ r2 \in Nat /\ r3 \in Nat
    BY IntNAssumption
  <2>3. \A f \in {"Jc", "Jmin", "Jmax"} : n'[f] \in Int
    BY <2>1, <2>2 DEF DrawInv, NumbersInv, Numbers
  <2>4. drawing = "junk" /\ drawing' = "padding" /\ UNCHANGED <<H, I>>
    BY Zenon, <1>1 DEF G!JunkPackets
  <2> QED BY <2>3, <2>4, NilAssumption DEF DrawnInv
<1>2. CASE G!Padding
  <2>1. PICK r1 \in IntN(49), r2 \in IntN(49), r3 \in IntN(54), r4 \in IntN(15) :
          n' = [n EXCEPT !["S1"] = 15 + r1, !["S2"] = 15 + r2,
                         !["S3"] = 10 + r3, !["S4"] = 1 + r4]
    BY Zenon, <1>2 DEF G!Padding
  <2>2. \A f \in {"Jc", "Jmin", "Jmax"} : n'[f] = n[f]
    BY <2>1 DEF DrawInv, NumbersInv, Numbers
  <2>3. drawing = "padding" /\ drawing' = "range" /\ UNCHANGED <<H, I>>
    BY Zenon, <1>2 DEF G!Padding
  <2> QED BY <2>2, <2>3 DEF DrawnInv
<1>3. CASE G!DrawRange
  <2>1. drawing = "range" /\ UNCHANGED <<drawing, n, H, I>>
    BY Zenon, <1>3 DEF G!DrawRange
  <2> QED BY <2>1 DEF DrawnInv
<1>4. CASE G!Shuffle
  <2>1. PICK p \in [Headers -> Headers] :
          /\ \A i, j \in Headers : i # j => p[i] # p[j]
          /\ H' = [i \in Headers |-> ranges[p[i]]]
    BY SameNames, <1>4 DEF G!Shuffle
  <2>2. /\ drawing = "range" /\ drawing' = "init" /\ UNCHANGED <<n, I>>
        /\ Len(ranges) = 4
    BY Zenon, <1>4 DEF G!Shuffle
  <2>3. \A k \in Headers : ranges[k] \in HeaderRange
    BY <2>2 DEF DrawInv, RangesInv, Placed, Headers, HeaderRange
  <2>4. H' \in [Headers -> HeaderRange \union {Nil}]
    BY <2>1, <2>3
  <2> QED BY <2>2, <2>4 DEF DrawnInv
<1>5. CASE G!InitPackets
  <2>1. PICK r1 \in IntN(26), r \in [2 .. 5 -> IntN(20)] :
          I' = [i \in 1 .. 5 |->
                 <<[key |-> "r", val |-> IF i = 1 THEN 15 + r1 ELSE 10 + r[i], text |-> 6]>>]
    BY Zenon, <1>5 DEF G!InitPackets
  <2>2. /\ r1 \in Nat /\ r1 < 26
        /\ \A i \in 2 .. 5 : r[i] \in Nat /\ r[i] < 20
    BY IntNAssumption
  <2>3. ASSUME NEW i \in 1 .. 5
        PROVE  (IF i = 1 THEN 15 + r1 ELSE 10 + r[i]) \in 1 .. maxMessageSize
    <3>1. \A k \in Nat :
            k < 26 => 10 + k \in 1 .. maxMessageSize /\ 15 + k \in 1 .. maxMessageSize
      BY MessageRoom
    <3>2. i # 1 => i \in 2 .. 5
      BY SMT
    <3>3. i # 1 => r[i] \in Nat /\ r[i] < 26
      BY SMT, <2>2, <3>2
    <3> QED BY Zenon, <2>2, <3>1, <3>3
  <2>4. I' \in [1 .. 5 -> OneTag]
    BY <2>1, <2>3 DEF OneTag
  <2>5. drawing = "init" /\ drawing' = "done" /\ UNCHANGED <<n, H>>
    BY Zenon, <1>5 DEF G!InitPackets
  <2> QED BY <2>4, <2>5 DEF DrawnInv
<1>6. CASE UNCHANGED G!vars
  BY <1>6 DEF G!vars, DrawnInv
<1> QED BY <1>1, <1>2, <1>3, <1>4, <1>5, <1>6 DEF G!Next

\* One random tag is a description Validate accepts: it is short, and its size
\* is the tag's.
LEMMA OneTagFits ==
  ASSUME NEW p \in OneTag
  PROVE  /\ p \in Seq(InitTag)
         /\ TextLength(p) = 6
         /\ InitPacketSize(p) \in 1 .. maxMessageSize
<1>1. PICK v \in 1 .. maxMessageSize : p = <<[key |-> "r", val |-> v, text |-> 6]>>
  BY DEF OneTag
<1>2. DOMAIN p = {1} /\ p[1] = [key |-> "r", val |-> v, text |-> 6]
  BY <1>1
<1>3. Max({1}) = 1
  BY DEF Max
<1>4. TagSize(p[1]) = v /\ v # Bad
  <2>1. v # Nil /\ v \in Int /\ v > 0 /\ v <= maxMessageSize
    BY NilAssumption, MessageRoom
  <2> QED BY <1>2, <2>1 DEF TagSize, Bad
<1>5. AddTag(0, p[1]) = v
  BY <1>4, MessageRoom DEF AddTag, Bad
<1>6. InitPacketSize(p) = v
  <2> DEFINE One(f) == f = [t \in SUBSET {1} |->
                              IF t = {} THEN 0 ELSE AddTag(f[t \ {Max(t)}], p[Max(t)])]
             w == [t \in SUBSET {1} |-> IF t = {} THEN 0 ELSE AddTag(0, p[1])]
             h == CHOOSE f : One(f)
  <2>1. One(w)
    <3>1. ASSUME NEW t \in SUBSET {1}
          PROVE  w[t] = IF t = {} THEN 0 ELSE AddTag(w[t \ {Max(t)}], p[Max(t)])
      <4>1. CASE t = {}
        BY <4>1
      <4>2. CASE t # {}
        <5>1. t = {1}
          BY <4>2
        <5>2. Max(t) = 1 /\ t \ {1} = {}
          BY <1>3, <5>1
        <5>3. w[{}] = 0
          OBVIOUS
        <5> QED BY <4>2, <5>2, <5>3
      <4> QED BY <4>1, <4>2
    <3> QED BY <3>1
  <2>2. One(h)
    BY <2>1
  <2>3. InitPacketSize(p) = h[{1}]
    BY <1>2 DEF InitPacketSize, FoldLeft, MapThenFoldSet
  <2> HIDE DEF w, h
  <2>4. h[{}] = 0
    BY <2>2
  <2>5. h[{1}] = AddTag(h[{}], p[1])
    <3>1. {1} \ {1} = {} /\ {1} # {} /\ {1} \in SUBSET {1}
      OBVIOUS
    <3>2. h[{1}] = AddTag(h[{1} \ {Max({1})}], p[Max({1})])
      BY <2>2, <3>1
    <3> QED BY <1>3, <3>1, <3>2
  <2> QED BY <1>5, <2>3, <2>4, <2>5
<1>7. TextLength(p) = 6
  <2> DEFINE One(f) == f = [t \in SUBSET {1} |->
                              IF t = {} THEN 0 ELSE f[t \ {Max(t)}] + p[Max(t)].text]
             w == [t \in SUBSET {1} |-> IF t = {} THEN 0 ELSE 0 + p[1].text]
             h == CHOOSE f : One(f)
  <2>1. One(w)
    <3>1. ASSUME NEW t \in SUBSET {1}
          PROVE  w[t] = IF t = {} THEN 0 ELSE w[t \ {Max(t)}] + p[Max(t)].text
      <4>1. CASE t = {}
        BY <4>1
      <4>2. CASE t # {}
        <5>1. t = {1}
          BY <4>2
        <5>2. Max(t) = 1 /\ t \ {1} = {}
          BY <1>3, <5>1
        <5>3. w[{}] = 0
          OBVIOUS
        <5> QED BY <4>2, <5>2, <5>3
      <4> QED BY <4>1, <4>2
    <3> QED BY <3>1
  <2>2. One(h)
    BY <2>1
  <2>3. TextLength(p) = h[{1}]
    BY <1>2 DEF TextLength, FoldLeft, MapThenFoldSet
  <2> HIDE DEF w, h
  <2>4. h[{}] = 0
    BY <2>2
  <2>5. h[{1}] = h[{}] + p[1].text
    <3>1. {1} \ {1} = {} /\ {1} # {} /\ {1} \in SUBSET {1}
      OBVIOUS
    <3>2. h[{1}] = h[{1} \ {Max({1})}] + p[Max({1})].text
      BY <2>2, <3>1
    <3> QED BY <1>3, <3>1, <3>2
  <2> QED BY <1>2, <2>3, <2>4, <2>5
<1>8. p \in Seq(InitTag)
  <2> DEFINE t == [key |-> "r", val |-> v, text |-> 6]
  <2>1. v \in Int \union {Nil}
    BY MessageRoom
  <2>2. t \in InitTag
    BY <2>1 DEF InitTag, TagKeys
  <2> QED BY <1>1, <2>2
<1> QED BY <1>6, <1>7, <1>8

-----------------------------------------------------------------------------
(* The program that does both.                                             *)

\* A generated configuration is one that the Go types allow; it passes
\* Validate, and sets each group as a whole, so that the device is not read.
LEMMA GeneratedValid ==
  DrawInv /\ DrawnInv /\ drawing = "done"
  => /\ Generated \in Config
     /\ Validates(Generated)
     /\ ~ PartialAWG(Generated)
     /\ HasAWGFields(Generated)
     /\ Generated.n = n /\ Generated.H = H /\ Generated.mark = Nil
<1> SUFFICES ASSUME DrawInv, DrawnInv, drawing = "done"
             PROVE  /\ Generated \in Config
                    /\ Validates(Generated)
                    /\ ~ PartialAWG(Generated)
                    /\ HasAWGFields(Generated)
                    /\ Generated.n = n /\ Generated.H = H /\ Generated.mark = Nil
    OBVIOUS
<1> DEFINE x == [n |-> n, mark |-> Nil, H |-> H, I |-> I, peers |-> <<>>]
<1>1. Generated = x
  <2> DEFINE d == [f \in Numbers |-> Nil]
             e == [i \in Headers |-> Nil]
             g == [i \in 1 .. 5 |-> Nil]
  <2>1. Generated = [[n |-> d, mark |-> Nil, H |-> e, I |-> g, peers |-> <<>>]
                       EXCEPT !.n = n, !.H = H, !.I = I]
    BY DEF Generated, NewConfig
  <2> HIDE DEF d, e, g
  <2> QED BY <2>1
<1>2. x.n = n /\ x.mark = Nil /\ x.H = H /\ x.I = I /\ x.peers = <<>>
  OBVIOUS
<1>3. \A i \in 1 .. 5 :
        /\ I[i] \in Seq(InitTag)
        /\ TextLength(I[i]) = 6
        /\ InitPacketSize(I[i]) \in 1 .. maxMessageSize
  BY OneTagFits DEF DrawnInv
<1>4. x \in Config
  <2>1. n \in [Numbers -> Int \union {Nil}] /\ H \in [Headers -> HeaderRange \union {Nil}]
    BY DEF DrawInv, NumbersInv, DrawnInv
  <2>2. I \in [1 .. 5 -> Seq(InitTag) \union {Nil}]
    BY <1>3 DEF DrawnInv
  <2>3. <<>> \in Seq(PeerValues)
    OBVIOUS
  <2> QED BY <2>1, <2>2, <2>3 DEF Config
<1>5. \A i \in Headers : H[i] # Nil
  <2> TAKE i \in Headers
  <2>1. PICK p : Permutes(p) /\ \A j \in Headers : H[j] = ranges[p[j]]
    BY DEF DrawInv, HeadersInv
  <2>2. p[i] \in Headers /\ Len(ranges) = 4
    BY <2>1 DEF Permutes, DrawInv, HeadersInv
  <2>3. ranges[p[i]] \in HeaderRange
    BY <2>2 DEF DrawInv, RangesInv, Placed, Headers, HeaderRange
  <2> QED BY <2>1, <2>3, NilAssumption
<1>6. \A f \in {"Jc", "Jmin", "Jmax"} : n[f] # Nil
  BY DEF DrawnInv
<1> HIDE DEF x
<1>7. Validates(x)
  <2>1. InLimits(n) /\ JunkInOrder(n) /\ HeadersApart(H)
    BY FieldsValid
  <2>2. ASSUME NEW i \in 1 .. 5
        PROVE  TextLength(I[i]) <= maxInitSpecLen /\ InitPacketSize(I[i]) # Bad
    <3>1. Bad \notin 1 .. maxMessageSize
      BY MessageRoom DEF Bad
    <3>2. 6 <= maxInitSpecLen
      BY DEF maxInitSpecLen
    <3> QED BY <1>3, <3>1, <3>2
  <2>3. DOMAIN x.peers = {}
    BY <1>2
  <2> QED BY <1>2, <2>1, <2>2, <2>3 DEF Validates
<1>8. ~ PartialAWG(x)
  BY <1>2, <1>5, <1>6 DEF PartialAWG, Partial, Numbers
<1>9. HasAWGFields(x)
  BY <1>2, <1>6 DEF HasAWGFields, Numbers
<1> QED BY <1>1, <1>2, <1>4, <1>7, <1>8, <1>9

\* The call of the caller that generates its configuration: it waits until all
\* is drawn, passes what is drawn, and ends with that on the device.
GeneratorInv ==
  generator # Nil =>
    /\ generator \in Callers
    /\ drawing # "done" => pc[generator] = "start"
    /\ drawing = "done" => cfg[generator] = Generated
    /\ pc[generator] # "done" => result[generator] = "none"

SetupInv == IInv /\ DrawInv /\ DrawnInv /\ GeneratorInv /\ GeneratedIsApplied

\* Nothing is drawn, and nobody has called.
LEMMA SetupInvInit == SetupInit => SetupInv
<1> SUFFICES ASSUME SetupInit PROVE SetupInv
    OBVIOUS
<1>1. IInv /\ DrawInv /\ DrawnInv
  BY InvInit, DrawInit, DrawnInit DEF SetupInit
<1>2. drawing = "junk"
  BY DEF SetupInit, G!Init
<1>3. GeneratorInv /\ GeneratedIsApplied
  BY <1>2, GeneratorsAssumption DEF SetupInit, Init, GeneratorInv, GeneratedIsApplied
<1> QED BY <1>1, <1>3 DEF SetupInv

\* A draw touches nobody's call.
LEMMA GeneratesStep == SetupInv /\ Generates => SetupInv' /\ UNCHANGED device
<1> SUFFICES ASSUME SetupInv, Generates PROVE SetupInv' /\ UNCHANGED device
    OBVIOUS
<1>1. /\ generator # Nil /\ generator \in Callers
      /\ UNCHANGED <<device, pc, result, unread, raced, generator>>
      /\ cfg' = IF drawing' = "done" THEN [cfg EXCEPT ![generator] = Generated'] ELSE cfg
      /\ G!Next
  BY DEF Generates, SetupInv, GeneratorInv
<1>2. DrawInv' /\ DrawnInv'
  BY <1>1, DrawStep, DrawnStep DEF SetupInv
<1>3. drawing # "done"
  BY <1>1 DEF G!Next, G!JunkPackets, G!Padding, G!DrawRange, G!Shuffle, G!InitPackets
<1>4. pc[generator] = "start" /\ result[generator] = "none"
  BY <1>1, <1>3 DEF SetupInv, GeneratorInv
<1>5. drawing' = "done" => Generated' \in Config
  <2>1. (DrawInv /\ DrawnInv /\ drawing = "done" => Generated \in Config)'
    <3>1. DrawInv /\ DrawnInv /\ drawing = "done" => Generated \in Config
      BY GeneratedValid
    <3> QED BY GeneratedValid, PTL
  <2> QED BY <1>2, <2>1
<1>6. TypeOK /\ TypeOK'
  <2>1. TypeOK
    BY DEF SetupInv, IInv
  <2>2. cfg' \in [Callers -> Config]
    BY <1>1, <1>5, <2>1 DEF TypeOK
  <2>3. \A c \in Callers \ {generator} : cfg'[c] = cfg[c]
    BY <1>1, <2>1 DEF TypeOK
  <2> QED BY <1>1, <1>4, <2>1, <2>2, <2>3 DEF TypeOK
<1>7. \A c \in Callers \ {generator} : cfg'[c] = cfg[c]
  BY <1>1, <1>6 DEF TypeOK
<1>8. drawing' = "done" => cfg'[generator] = Generated'
  BY <1>1, <1>6 DEF TypeOK
<1>9. \A c \in Callers : SafeToSet(c)'
  BY <1>1, <1>4, <1>7 DEF SetupInv, IInv, SafeToSet
<1>10. EinvalOnlyAfterRace'
  BY <1>1, <1>4, <1>7 DEF SetupInv, IInv, EinvalOnlyAfterRace
<1>11. IInv'
  BY <1>1, <1>6, <1>9, <1>10 DEF SetupInv, IInv, KernelAccepts
<1>12. GeneratorInv' /\ GeneratedIsApplied'
  BY <1>1, <1>4, <1>8 DEF GeneratorInv, GeneratedIsApplied
<1> QED BY <1>1, <1>2, <1>11, <1>12 DEF SetupInv

\* A step of ConfigureDevice: of whoever it may be, if nobody generates;
\* otherwise of the one who has generated, whose configuration is valid, needs
\* no look at the device, and is accepted.
LEMMA ConfiguresStep == SetupInv /\ Configures => SetupInv'
<1> SUFFICES ASSUME SetupInv, Configures PROVE SetupInv'
    OBVIOUS
<1>1. PICK c \in Callers : /\ generator = Nil \/ (c = generator /\ drawing = "done")
                           /\ ConfigureDevice(c)
  BY DEF Configures
<1>2. UNCHANGED genVars
  BY DEF Configures
<1>3. IInv'
  BY <1>1, InvStep DEF Next, SetupInv
<1>4. DrawInv' /\ DrawnInv'
  BY <1>2, DrawStep, DrawnStep DEF genVars, G!vars, SetupInv
<1>5. CASE generator = Nil
  BY <1>2, <1>3, <1>4, <1>5 DEF genVars, SetupInv, GeneratorInv, GeneratedIsApplied
<1>6. CASE generator # Nil
  <2>1. /\ c = generator /\ drawing = "done" /\ cfg[c] = Generated
        /\ pc[c] # "done" => result[c] = "none"
    BY <1>1, <1>6 DEF SetupInv, GeneratorInv
  <2>2. /\ Generated \in Config /\ Validates(Generated) /\ ~ PartialAWG(Generated)
        /\ HasAWGFields(Generated) /\ Generated.n = n /\ Generated.H = H
    BY <2>1, GeneratedValid DEF SetupInv
  <2>3. ~ ValidateFails(c) /\ ~ ReadFails(c) /\ ~ Read(c)
    BY <2>1, <2>2 DEF ValidateFails, ReadFails, Read
  <2>4. ~ SetFails(c)
    BY <1>1, <2>1, <2>2 DEF SetFails, SafeToSet, SetupInv, IInv
  <2>5. TypeOK /\ cfg' = cfg /\ UNCHANGED <<generator, drawing, n, H>> /\ Generated' = Generated
    BY <1>1, <1>2 DEF SetupInv, IInv, genVars, Generated, ConfigureDevice, ValidateFails,
                      NoRead, ReadFails, Read, NotSupported, SetOK, SetFails
  <2>6. CASE NoRead(c)
    <3>1. pc'[c] = "set" /\ result'[c] = "none"
      BY <2>1, <2>5, <2>6 DEF NoRead, TypeOK
    <3> QED BY <1>3, <1>4, <2>1, <2>5, <3>1 DEF SetupInv, GeneratorInv, GeneratedIsApplied
  <2>7. CASE NotSupported(c)
    <3>1. /\ ~ device.isAmnezia /\ UNCHANGED device
          /\ pc'[c] = "done" /\ result'[c] = "notsupported"
      BY <2>5, <2>7 DEF NotSupported, Return, TypeOK
    <3> QED BY <1>3, <1>4, <2>1, <2>5, <3>1 DEF SetupInv, GeneratorInv, GeneratedIsApplied
  <2>8. CASE SetOK(c)
    <3>1. /\ device' = Applied(device, Generated) /\ device.isAmnezia
          /\ pc'[c] = "done" /\ result'[c] = "ok"
      BY <2>1, <2>2, <2>5, <2>8 DEF SetOK, Return, TypeOK
    <3>2. device \in Device
      BY <2>5 DEF TypeOK
    <3>3. /\ device' \in Device
          /\ device'.isAmnezia = TRUE
          /\ \A f \in Numbers : n[f] # Nil => device'.n[f] = n[f]
          /\ \A i \in Headers : device'.H[i] = IF H[i] = Nil THEN device.H[i] ELSE H[i]
      BY <2>2, <3>1, <3>2, AppliedTyped DEF Device
    <3>4. device'.H = H
      <4>1. H \in [Headers -> HeaderRange \union {Nil}]
        BY DEF SetupInv, DrawnInv
      <4>2. device'.H \in [Headers -> HeaderRange \union {Nil}]
        BY <3>3 DEF Device
      <4>3. \A i \in Headers : H[i] # Nil
        <5> TAKE i \in Headers
        <5>1. PICK p : Permutes(p) /\ \A j \in Headers : H[j] = ranges[p[j]]
          BY <2>1 DEF SetupInv, DrawInv, HeadersInv
        <5>2. p[i] \in Headers /\ Len(ranges) = 4
          BY <2>1, <5>1 DEF Permutes, SetupInv, DrawInv, HeadersInv
        <5>3. ranges[p[i]] \in HeaderRange
          BY <5>2 DEF SetupInv, DrawInv, RangesInv, Placed, Headers, HeaderRange
        <5> QED BY <5>1, <5>3, NilAssumption
      <4> QED BY <3>3, <4>1, <4>2, <4>3
    <3>5. GeneratedIsApplied'
      BY <2>1, <2>5, <3>1, <3>3, <3>4 DEF GeneratedIsApplied
    <3>6. GeneratorInv'
      BY <2>1, <2>5, <3>1 DEF GeneratorInv
    <3> QED BY <1>3, <1>4, <3>5, <3>6 DEF SetupInv
  <2> QED BY <1>1, <2>3, <2>4, <2>6, <2>7, <2>8 DEF ConfigureDevice
<1> QED BY <1>5, <1>6

\* The invariant is inductive.
LEMMA SetupInvStep == SetupInv /\ [SetupNext]_allVars => SetupInv'
<1> SUFFICES ASSUME SetupInv, [SetupNext]_allVars PROVE SetupInv'
    OBVIOUS
<1>1. CASE Generates BY <1>1, GeneratesStep
<1>2. CASE Configures BY <1>2, ConfiguresStep
<1>3. CASE UNCHANGED allVars
  <2>1. UNCHANGED vars /\ UNCHANGED genVars /\ UNCHANGED G!vars
    BY <1>3 DEF allVars, genVars, G!vars
  <2>2. IInv' /\ DrawInv' /\ DrawnInv'
    BY <2>1, InvStep, DrawStep, DrawnStep DEF SetupInv
  <2>3. GeneratorInv' /\ GeneratedIsApplied'
    BY <2>1 DEF vars, genVars, SetupInv, GeneratorInv, GeneratedIsApplied, Generated
  <2> QED BY <2>2, <2>3 DEF SetupInv
<1> QED BY <1>1, <1>2, <1>3 DEF SetupNext

\* Type correctness of the two together: what is generated is a configuration
\* that the Go types allow, and only what Validate lets pass reaches a backend.
THEOREM SetupTypeCorrect == SetupSpec => []TypeOK
<1>1. SetupInv => TypeOK BY DEF SetupInv, IInv
<1> QED BY <1>1, SetupInvInit, SetupInvStep, PTL DEF SetupSpec

\* What GenerateAmneziaParams makes, whatever it draws and however it shuffles,
\* passes Validate and is accepted by the kernel, whatever the device held
\* before: the device then has what was generated.
THEOREM GeneratedApplied == SetupSpec => []GeneratedIsApplied
<1>1. SetupInv => GeneratedIsApplied BY DEF SetupInv
<1> QED BY <1>1, SetupInvInit, SetupInvStep, PTL DEF SetupSpec

\* As ValuesAsAsked, where one of the callers generates its configuration.
THEOREM SetupValuesAsAsked == SetupSpec => AsAsked
<1>1. SetupInv /\ [SetupNext]_allVars
      => [/\ \A f \in Numbers :
               device'.n[f] # device.n[f]
               => \E c \in Callers : cfg[c].n[f] = device'.n[f]
          /\ device'.mark # device.mark
             => \E c \in Callers : cfg[c].mark = device'.mark]_vars
  <2> SUFFICES ASSUME SetupInv, [SetupNext]_allVars
               PROVE  [/\ \A f \in Numbers :
                            device'.n[f] # device.n[f]
                            => \E c \in Callers : cfg[c].n[f] = device'.n[f]
                       /\ device'.mark # device.mark
                          => \E c \in Callers : cfg[c].mark = device'.mark]_vars
      OBVIOUS
  <2>1. CASE Generates
    BY <2>1, GeneratesStep
  <2>2. CASE Configures
    <3>1. TypeOK /\ Next BY <2>2 DEF SetupInv, IInv, Configures, Next
    <3> QED BY <3>1, StepAsAsked
  <2>3. CASE UNCHANGED allVars
    BY <2>3 DEF allVars
  <2> QED BY <2>1, <2>2, <2>3 DEF SetupNext
<1> QED BY <1>1, SetupInvInit, SetupInvStep, PTL DEF SetupSpec, AsAsked

\* As ConflictsReported, where one of the callers generates its configuration.
THEOREM SetupConflictsReported == SetupSpec => []EinvalOnlyAfterRace
<1>1. SetupInv => EinvalOnlyAfterRace BY DEF SetupInv, IInv
<1> QED BY <1>1, SetupInvInit, SetupInvStep, PTL DEF SetupSpec
===============================================================================

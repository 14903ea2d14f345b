-------------------------------- MODULE LinuxDump --------------------------------
(***************************************************************************)
(* Reading one device: getDeviceInternal of internal/wglinux and the       *)
(* parsing of parse_linux.go.  The kernel answers with a dump, a sequence  *)
(* of messages: the first one has the device's own attributes, and a peer  *)
(* that does not fit into a message is continued in the next one with      *)
(* nothing but its key and further allowed IPs.  execute collects them     *)
(* all, parseDevice then puts them together again.                         *)
(*                                                                         *)
(* The kernel locks the device for one message, not for the dump: another  *)
(* program may change the peers in between.                                *)
(***************************************************************************)
EXTENDS Naturals, Sequences, SequencesExt

CONSTANTS Keys,      \* public keys
          IPs,       \* allowed IPs
          Values,    \* of the device's attributes, and of a peer's
          Nil,       \* an attribute that is absent
          Starts,    \* what the device's peers may be beforehand
          MaxChanges \* bound: changes by other programs

Peer == [key : Keys, attrs : Values, ips : Seq(IPs)]

\* No two of them have the same key.
Distinct(ps) == \A i, j \in DOMAIN ps : ps[i].key = ps[j].key => i = j

ASSUME NilAssumption == Nil \notin Values /\ Nil \notin Keys
\* The kernel looks its peers up by their keys, and an allowed IP leads to one
\* of them.
ASSUME StartsAssumption ==
  \A s \in Starts :
    /\ s \in Seq(Peer) /\ Distinct(s)
    /\ \A i, j \in DOMAIN s : \A m \in DOMAIN s[i].ips, n \in DOMAIN s[j].ips :
         s[i].ips[m] = s[j].ips[n] => i = j /\ m = n

VARIABLES
  dev, peers,  \* the device in the kernel
  last,        \* the last peer sent completely, or Nil
  part, sent,  \* the peer sent in part, or Nil, and how many of its IPs
  coherent,    \* nobody has changed the device since the dump began
  changes,
  stage,       \* "dump", "parse", "done"
  msgs,        \* what execute has collected
  next,        \* the message to parse next
  todo,        \* the peers of a later message that are not merged yet
  first,       \* parseDevice's variables
  knownPeers,
  outcome

kernelVars == <<dev, peers, last, part, sent, coherent, changes>>
dumpVars == <<kernelVars, stage, msgs, next, todo, first, knownPeers, outcome>>

Fragment == [key : Keys, attrs : Values \union {Nil}, ips : Seq(IPs)]
Message  == [dev : Values \union {Nil}, peers : Seq(Fragment)]

DumpTypeOK ==
  /\ dev \in Values
  /\ peers \in Seq(Peer)
  /\ last \in Keys \union {Nil} /\ part \in Keys \union {Nil} /\ sent \in Nat
  /\ coherent \in BOOLEAN /\ changes \in Nat
  /\ stage \in {"dump", "parse", "done"}
  /\ msgs \in Seq(Message)
  /\ next \in Nat \ {0}
  /\ todo \in Seq(Fragment)
  /\ first \in Message
  /\ \E K \in SUBSET Keys : knownPeers \in [K -> DOMAIN first.peers]
  /\ outcome \in {"none", "ok", "error"}

DumpInit ==
  /\ dev \in Values
  /\ peers \in Starts
  /\ last = Nil /\ part = Nil /\ sent = 0
  /\ coherent = TRUE
  /\ changes = 0
  /\ stage = "dump"
  /\ msgs = <<>> /\ next = 1 /\ todo = <<>>
  /\ first = [dev |-> Nil, peers |-> <<>>]
  /\ knownPeers = [k \in {} |-> 0]
  /\ outcome = "none"

-----------------------------------------------------------------------------
(* The kernel's side of the dump, external.                                *)

Position(k) == {i \in DOMAIN peers : peers[i].key = k}

\* A cursor whose peer is gone ends the dump.
Lost == (last # Nil /\ Position(last) = {}) \/ (part # Nil /\ Position(part) = {})

\* The peers from the cursor on; one that is continued has no attributes any
\* more, and no further IPs if the device was changed.
Continued(p) ==
  [p EXCEPT !.attrs = Nil,
            !.ips = IF coherent THEN SubSeq(@, sent + 1, Len(@)) ELSE <<>>]
Rest ==
  IF Lost THEN <<>>
  ELSE LET from == IF last = Nil THEN 1 ELSE 1 + CHOOSE i \in Position(last) : TRUE
           rest == SubSeq(peers, from, Len(peers))
       IN  IF part # Nil /\ rest # <<>> /\ rest[1].key = part
           THEN [rest EXCEPT ![1] = Continued(@)] ELSE rest

SendMessage(frags) ==
  msgs' = Append(msgs, [dev |-> IF msgs = <<>> THEN dev ELSE Nil, peers |-> frags])

\* The message ends behind the n-th peer of the rest, or with j of the IPs of
\* the peer after it.
SendsPeers(n) ==
  /\ stage = "dump" /\ 0 < n /\ n < Len(Rest)
  /\ SendMessage(SubSeq(Rest, 1, n))
  /\ last' = Rest[n].key /\ part' = Nil /\ sent' = 0
  /\ UNCHANGED <<dev, peers, coherent, changes, stage, next, todo, first, knownPeers, outcome>>

SendsPart(n, j) ==
  /\ stage = "dump" /\ n < Len(Rest) /\ j < Len(Rest[n + 1].ips)
  /\ n > 0 \/ j > 0 \/ part = Nil
  /\ SendMessage(Append(SubSeq(Rest, 1, n), [Rest[n + 1] EXCEPT !.ips = SubSeq(@, 1, j)]))
  /\ last' = IF n = 0 THEN last ELSE Rest[n].key
  /\ part' = Rest[n + 1].key
  /\ sent' = IF n = 0 THEN sent + j ELSE j
  /\ UNCHANGED <<dev, peers, coherent, changes, stage, next, todo, first, knownPeers, outcome>>

SendsLast ==
  /\ stage = "dump"
  /\ SendMessage(Rest)
  /\ stage' = "parse"
  /\ UNCHANGED <<kernelVars, next, todo, first, knownPeers, outcome>>

\* Other programs.
Changed ==
  /\ stage = "dump" /\ changes < MaxChanges
  /\ changes' = changes + 1 /\ coherent' = (msgs = <<>>)
Others  == UNCHANGED <<dev, last, part, sent, stage, msgs, next, todo, first, knownPeers, outcome>>

PeerRemoved(i) ==
  /\ Changed
  /\ peers' = RemoveAt(peers, i)
  /\ Others

\* An allowed IP moves to the peer that is added with it.
PeerAdded(k, v, a) ==
  /\ Changed
  /\ Position(k) = {}
  /\ peers' = Append([i \in DOMAIN peers |->
                        [peers[i] EXCEPT !.ips = RemoveFirst(@, a)]],
                     [key |-> k, attrs |-> v, ips |-> <<a>>])
  /\ Others

-----------------------------------------------------------------------------
(* getDeviceInternal and parseDevice.                                      *)

Return(res) == stage' = "done" /\ outcome' = res

\* execute or parseDeviceLoop fails, and the device is not returned.
Fails ==
  /\ stage # "done" /\ todo = <<>>
  /\ Return("error")
  /\ UNCHANGED <<kernelVars, msgs, next, todo, first, knownPeers>>

\* The first message has our target device.
ParseFirst ==
  /\ stage = "parse" /\ next = 1
  /\ first' = msgs[1]
  /\ knownPeers' = [k \in {msgs[1].peers[i].key : i \in DOMAIN msgs[1].peers} |->
                      CHOOSE i \in DOMAIN msgs[1].peers : msgs[1].peers[i].key = k]
  /\ next' = 2
  /\ UNCHANGED <<kernelVars, stage, msgs, todo, outcome>>

\* Mutant: the device is taken from the last message.
ParseNextAsTarget ==
  /\ stage = "parse" /\ todo = <<>> /\ 1 < next /\ next <= Len(msgs)
  /\ todo' = msgs[next].peers
  /\ first' = [first EXCEPT !.dev = msgs[next].dev]
  /\ next' = next + 1
  /\ UNCHANGED <<kernelVars, stage, msgs, knownPeers, outcome>>

ParseNext ==
  /\ stage = "parse" /\ todo = <<>> /\ 1 < next /\ next <= Len(msgs)
  /\ todo' = msgs[next].peers
  /\ next' = next + 1
  /\ UNCHANGED <<kernelVars, stage, msgs, first, knownPeers, outcome>>

\* Mutants: the allowed IPs replace the earlier ones; the peer is not
\* remembered.
MergeKnownReplaces ==
  /\ todo # <<>> /\ todo' = Tail(todo)
  /\ Head(todo).key \in DOMAIN knownPeers
  /\ first' = [first EXCEPT !.peers[knownPeers[Head(todo).key]].ips = Head(todo).ips]
  /\ UNCHANGED <<kernelVars, stage, msgs, next, knownPeers, outcome>>
MergeNewForgotten ==
  /\ todo # <<>> /\ todo' = Tail(todo)
  /\ Head(todo).key \notin DOMAIN knownPeers
  /\ first' = [first EXCEPT !.peers = Append(@, Head(todo))]
  /\ UNCHANGED <<kernelVars, stage, msgs, next, knownPeers, outcome>>

\* One turn of mergeDevices' loop: a peer already known gets the allowed IPs.
MergeKnown ==
  /\ todo # <<>> /\ todo' = Tail(todo)
  /\ Head(todo).key \in DOMAIN knownPeers
  /\ first' = [first EXCEPT !.peers[knownPeers[Head(todo).key]].ips = @ \o Head(todo).ips]
  /\ UNCHANGED <<kernelVars, stage, msgs, next, knownPeers, outcome>>

MergeNew ==
  /\ todo # <<>> /\ todo' = Tail(todo)
  /\ Head(todo).key \notin DOMAIN knownPeers
  /\ first' = [first EXCEPT !.peers = Append(@, Head(todo))]
  /\ knownPeers' = [k \in DOMAIN knownPeers \union {Head(todo).key} |->
                      IF k = Head(todo).key THEN Len(first.peers) + 1 ELSE knownPeers[k]]
  /\ UNCHANGED <<kernelVars, stage, msgs, next, outcome>>

Finish ==
  /\ stage = "parse" /\ todo = <<>> /\ next > Len(msgs)
  /\ Return("ok")
  /\ UNCHANGED <<kernelVars, msgs, next, todo, first, knownPeers>>

DumpNext ==
  \/ \E n \in 0 .. Len(peers) :
       SendsPeers(n) \/ (n < Len(Rest) /\ \E j \in 0 .. Len(Rest[n + 1].ips) : SendsPart(n, j))
  \/ SendsLast
  \/ \E i \in DOMAIN peers : PeerRemoved(i)
  \/ \E k \in Keys, v \in Values, a \in IPs : PeerAdded(k, v, a)
  \/ Fails \/ ParseFirst \/ ParseNext \/ MergeKnown \/ MergeNew \/ Finish

DumpSpec == DumpInit /\ [][DumpNext]_dumpVars

-----------------------------------------------------------------------------
(* Properties.                                                             *)

\* Wherever the kernel cuts the dump, the device that is returned is the
\* kernel's: every peer once and in its place, with its attributes and all its
\* allowed IPs in order; unless it was changed during the dump.
DumpIsDevice ==
  (outcome = "ok" /\ coherent) => first = [dev |-> dev, peers |-> peers]

\* No peer is returned twice, even if it was removed and added again while
\* the dump was under way.
NoPeerTwice == Distinct(first.peers)

\* Nothing that the kernel sent is lost: every allowed IP is returned, with
\* the peer it was sent for.
NothingLost ==
  outcome = "ok" =>
    \A m \in DOMAIN msgs : \A i \in DOMAIN msgs[m].peers : \A j \in DOMAIN msgs[m].peers[i].ips :
      \E p \in DOMAIN first.peers :
        /\ first.peers[p].key = msgs[m].peers[i].key
        /\ \E q \in DOMAIN first.peers[p].ips : first.peers[p].ips[q] = msgs[m].peers[i].ips[j]
=============================================================================

---------------------------------- MODULE UAPI ----------------------------------
(***************************************************************************)
(* One exchange with a userspace daemon over its socket: getDevice and     *)
(* configureDevice of internal/wguser.  Both sides speak in lines          *)
(* "key=value"; an empty line ends a request and an answer.  The daemon    *)
(* may refuse, die at any line, or be too slow for the context's deadline. *)
(*                                                                         *)
(* Keys of lines are the protocol's, "opts" standing for preshared_key,    *)
(* endpoint and persistent_keepalive_interval, "dev" for private_key,      *)
(* listen_port and fwmark, "awg" for jc .. i5.                             *)
(***************************************************************************)
EXTENDS DeviceConfig

CONSTANTS Verbs,           \* of {"get", "set"}
          Configurations,  \* the configurations that are set
          HeldDevices,     \* what the daemon holds beforehand
          Handshakes,      \* pairs of seconds and nanoseconds; <<0, 0>>: none yet
          AfterBreak(_),   \* the lines that a value's text adds after its first line break
          Garbled          \* a text that hex, strconv or net cannot parse

ASSUME VerbsAssumption == Verbs \subseteq {"get", "set"}
ASSUME HeldAssumption ==
  /\ HeldDevices \subseteq DeviceState
  /\ Configurations \subseteq Config
  /\ Handshakes \subseteq Nat \X Nat
\* No key stands for a peer that is ignored.
ASSUME NilKeyAssumption == Nil \notin Keys
\* What the daemon writes can be parsed.
ASSUME GarbledAssumption == Garbled \notin Keys \union IPs \union Opts \union Values \union Nat

NoTime == <<0, 0>>

VARIABLES
  verb, config,
  bounded,  \* the context carries a deadline
  timeUp,   \* which has passed
  stage,       \* "dial", "check", "write", "read", "done"
  dp,       \* deviceParser
  outcome,
  alive,    \* the daemon runs
  device,   \* what it holds
  shake,    \* its peers' last handshakes
  peer,     \* the peer its parser is at, Nil for one to be ignored
  made,     \* that peer was created by its public_key line
  req,      \* lines on their way to the daemon
  ans,      \* lines on their way to the client
  origin    \* history: the device beforehand

clientVars == <<verb, config, bounded, stage, dp, outcome>>
daemonVars == <<alive, device, shake, peer, made>>
exchangeVars == <<clientVars, timeUp, daemonVars, req, ans, origin>>

Line(k, v) == [key |-> k, val |-> v]
EmptyLine == Line("empty", Nil)
Optional(given, line) == IF given THEN <<line>> ELSE <<>>

-----------------------------------------------------------------------------
(* configure.go: the request.                                              *)

\* Mutant: line breaks are not looked for.
NoLineBreakUnchecked(c) == TRUE

\* checkLineValues
NoLineBreak(c) == c.awg = Nil \/ AfterBreak(c.awg) = <<>>

\* Mutant: the allowed IPs come before the flags.
PeerLinesFlagsLast(p) ==
  <<Line("public_key", p.PublicKey)>>
  \o [i \in DOMAIN p.AllowedIPs |-> Line("allowed_ip", p.AllowedIPs[i])]
  \o Optional(p.Remove, Line("remove", "true"))
  \o Optional(p.UpdateOnly, Line("update_only", "true"))
  \o Optional(p.opts # Nil, Line("opts", p.opts))
  \o Optional(p.ReplaceAllowedIPs, Line("replace_allowed_ips", "true"))

PeerLines(p) ==
  <<Line("public_key", p.PublicKey)>>
  \o Optional(p.Remove, Line("remove", "true"))
  \o Optional(p.UpdateOnly, Line("update_only", "true"))
  \o Optional(p.opts # Nil, Line("opts", p.opts))
  \o Optional(p.ReplaceAllowedIPs, Line("replace_allowed_ips", "true"))
  \o [i \in DOMAIN p.AllowedIPs |-> Line("allowed_ip", p.AllowedIPs[i])]

WriteConfig(c) ==
  Optional(c.dev # Nil, Line("dev", c.dev))
  \o (IF c.awg = Nil THEN <<>> ELSE <<Line("awg", c.awg)>> \o AfterBreak(c.awg))
  \o Optional(c.ReplacePeers, Line("replace_peers", "true"))
  \o FlattenSeq([i \in DOMAIN c.Peers |-> PeerLines(c.Peers[i])])

Request == WriteConfig(config) \o <<EmptyLine>>

-----------------------------------------------------------------------------
(* parse.go: the answer.                                                   *)

NewParser ==
  [dev |-> Nil, awg |-> Nil, peers |-> <<>>, sec |-> 0, nsec |-> 0, err |-> FALSE]

Fail(p) == [p EXCEPT !.err = TRUE]

\* setHandshakeTime: both 0 is the zero time.Time.
SetHandshake(p) == [p EXCEPT !.peers[Len(p.peers)].time = <<p.sec, p.nsec>>]

\* Mutant: the times of the peer before are kept.
StartPeerKeepsTimes(p, k) ==
  [p EXCEPT !.peers = Append(@, [key |-> k, opts |-> Nil, ips |-> <<>>, time |-> NoTime])]

\* public_key: the first peer or the next one.
StartPeer(p, k) ==
  [p EXCEPT !.sec = 0, !.nsec = 0,
            !.peers = Append(@, [key |-> k, opts |-> Nil, ips |-> <<>>, time |-> NoTime])]

PeerParse(p, line) ==
  LET n == Len(p.peers)
  IN  CASE line.key = "opts"       -> [p EXCEPT !.peers[n].opts = line.val]
        [] line.key = "sec"        -> SetHandshake([p EXCEPT !.sec = line.val])
        [] line.key = "nsec"       -> SetHandshake([p EXCEPT !.nsec = line.val])
        [] line.key = "allowed_ip" -> [p EXCEPT !.peers[n].ips = Append(@, line.val)]
        [] OTHER                   -> p

\* Mutant: the errno after the peers is taken for a peer's field.
ParseNoErrno(p, line) ==
  IF line.val = Garbled THEN Fail(p)
  ELSE CASE line.key = "public_key"                          -> StartPeer(p, line.val)
         [] line.key # "public_key" /\ p.peers # <<>>        -> PeerParse(p, line)
         [] line.key \in {"dev", "awg"} /\ p.peers = <<>>    -> [p EXCEPT ![line.key] = line.val]
         [] OTHER                                            -> p

\* deviceParser.Parse: the first error stays, and once there is one the
\* values are of no interest.
Parse(p, line) ==
  IF p.err \/ line.val = Garbled \/ (line.key = "errno" /\ line.val # 0) THEN Fail(p)
  ELSE CASE line.key = "public_key"                          -> StartPeer(p, line.val)
         [] line.key # "public_key" /\ p.peers # <<>>        -> PeerParse(p, line)
         [] line.key \in {"dev", "awg"} /\ p.peers = <<>>    -> [p EXCEPT ![line.key] = line.val]
         [] OTHER                                            -> p

-----------------------------------------------------------------------------
(* The daemon (amneziawg-go), external.                                    *)

WithPeer(d, k, new) ==
  [d EXCEPT !.peers = [x \in DOMAIN d.peers \union {k} |-> IF x = k THEN new ELSE d.peers[x]]]
WithoutPeer(d, k) == [d EXCEPT !.peers = [x \in DOMAIN @ \ {k} |-> @[x]]]

\* A line for a peer that is there: an allowed IP belongs to one peer at a time.
SetPeerLine(d, k, line) ==
  CASE line.key = "opts"                -> [d EXCEPT !.peers[k].opts = line.val]
    [] line.key = "replace_allowed_ips" -> [d EXCEPT !.peers[k].ips = {}]
    [] line.key = "allowed_ip" ->
         [d EXCEPT !.peers = [x \in DOMAIN d.peers |->
            [d.peers[x] EXCEPT !.ips = IF x = k THEN @ \union {line.val} ELSE @ \ {line.val}]]]

\* Its answer to get: peers in some order; the fields of a peer in one order
\* with all of them given, or in another with those that are zero left out.
AnswerPeer(k, all) ==
  LET p    == device.peers[k]
      opts == Optional(p.opts # Nil, Line("opts", p.opts))
      sec  == Optional(all \/ shake[k][1] # 0, Line("sec", shake[k][1]))
      nsec == Optional(all \/ shake[k][2] # 0, Line("nsec", shake[k][2]))
      ips  == LET s == SetToSeq(p.ips)
              IN  [i \in DOMAIN s |-> Line("allowed_ip", s[i])]
  IN  <<Line("public_key", k)>> \o (IF all THEN opts \o sec \o nsec \o ips
                                    ELSE ips \o nsec \o sec \o opts)

Answer(ks, all) ==
  Optional(device.dev # Nil, Line("dev", device.dev))
  \o Optional(device.awg # Nil, Line("awg", device.awg))
  \o FlattenSeq([i \in DOMAIN ks |-> AnswerPeer(ks[i], all)])

Answers == {Answer(ks, all) : ks \in SetToSeqs(DOMAIN device.peers), all \in BOOLEAN}

Errno(n) == <<Line("errno", n), EmptyLine>>

-----------------------------------------------------------------------------
ExchangeInit ==
  /\ verb \in Verbs
  /\ config \in IF verb = "set" THEN Configurations ELSE {Nil}
  /\ bounded \in BOOLEAN
  /\ timeUp = FALSE
  /\ stage = "dial"
  /\ dp = NewParser
  /\ outcome = "none"
  /\ alive = TRUE
  /\ device \in HeldDevices
  /\ shake \in IF verb = "get" THEN [DOMAIN device.peers -> Handshakes] ELSE {NoPeers}
  /\ peer = Nil /\ made = FALSE
  /\ req = <<>> /\ ans = <<>>
  /\ origin = device

ExchangeTypeOK ==
  /\ verb \in Verbs
  /\ stage \in {"dial", "check", "write", "read", "done"}
  /\ (stage = "done") = (outcome # "none")
  /\ outcome \in {"none", "ok", "dial", "linebreak", "io", "timeout", "errno", "parse"}
  /\ bounded \in BOOLEAN /\ timeUp \in BOOLEAN /\ alive \in BOOLEAN
  /\ DOMAIN device.peers \subseteq Keys
  /\ peer # Nil => peer \in DOMAIN device.peers
  /\ \A i \in DOMAIN dp.peers : dp.peers[i].key \in Keys

Ends(res) == stage' = "done" /\ outcome' = res

Late == bounded /\ timeUp

\* dial, and after it checkLineValues.
Dial ==
  /\ stage = "dial"
  /\ IF alive
     THEN stage' = (IF verb = "set" THEN "check" ELSE "write") /\ UNCHANGED outcome
     ELSE Ends("dial")
  /\ UNCHANGED <<verb, config, bounded, dp, timeUp, daemonVars, req, ans, origin>>

Check ==
  /\ stage = "check"
  /\ IF NoLineBreak(config) THEN stage' = "write" /\ UNCHANGED outcome ELSE Ends("linebreak")
  /\ UNCHANGED <<verb, config, bounded, dp, timeUp, daemonVars, req, ans, origin>>

\* The request cannot be written, or only its first n lines.
WriteFails ==
  /\ stage = "write"
  /\ \/ ~ alive /\ Ends("io") /\ UNCHANGED req
     \/ /\ alive /\ Late
        /\ Ends("timeout")
        /\ req' \in IF verb = "get" THEN {<<>>}
                    ELSE {SubSeq(Request, 1, n) : n \in 0 .. Len(Request) - 1}
  /\ UNCHANGED <<verb, config, bounded, dp, timeUp, daemonVars, ans, origin>>

\* "get=1": the daemon answers with all it holds, or fails on the way.
WriteGet ==
  /\ stage = "write" /\ verb = "get"
  /\ alive /\ ~ Late
  /\ stage' = "read"
  /\ \E a \in Answers :
       \/ ans' = a \o Errno(0)
       \/ \E n \in 0 .. Len(a) : ans' = SubSeq(a, 1, n) \o Errno(1)
  /\ UNCHANGED <<verb, config, bounded, dp, outcome, timeUp, daemonVars, req, origin>>

WriteSet ==
  /\ stage = "write" /\ verb = "set"
  /\ alive /\ ~ Late
  /\ stage' = "read"
  /\ req' = Request
  /\ UNCHANGED <<verb, config, bounded, dp, outcome, timeUp, daemonVars, ans, origin>>

-----------------------------------------------------------------------------
(* The daemon works through a set request line by line.                    *)

DaemonSets ==
  /\ alive /\ req # <<>> /\ Head(req) # EmptyLine
  /\ req' = Tail(req)
  /\ LET line == Head(req) IN
     CASE line.key \in {"dev", "awg"} ->
            device' = [device EXCEPT ![line.key] = line.val] /\ UNCHANGED <<peer, made>>
       [] line.key = "replace_peers" ->
            device' = [device EXCEPT !.peers = NoPeers] /\ UNCHANGED <<peer, made>>
       [] line.key = "public_key" ->
            /\ peer' = line.val
            /\ made' = (line.val \notin DOMAIN device.peers)
            /\ device' = IF made' THEN WithPeer(device, line.val, NewPeer) ELSE device
       [] line.key = "remove" \/ (line.key = "update_only" /\ made) ->
            /\ device' = IF peer = Nil THEN device ELSE WithoutPeer(device, peer)
            /\ peer' = Nil /\ UNCHANGED made
       [] line.key = "update_only" /\ ~ made -> UNCHANGED <<device, peer, made>>
       [] OTHER ->
            /\ device' = IF peer = Nil THEN device ELSE SetPeerLine(device, peer, line)
            /\ UNCHANGED <<peer, made>>
  /\ UNCHANGED <<clientVars, timeUp, alive, shake, ans, origin>>

\* The empty line ends the request, whatever follows it.
DaemonDone ==
  /\ alive /\ req # <<>> /\ Head(req) = EmptyLine
  /\ req' = <<>>
  /\ ans' = Errno(0)
  /\ UNCHANGED <<clientVars, timeUp, daemonVars, origin>>

DaemonRefuses ==
  /\ alive /\ req # <<>>
  /\ req' = <<>>
  /\ ans' = Errno(1)
  /\ UNCHANGED <<clientVars, timeUp, daemonVars, origin>>

\* What may arrive of a line that is cut: nothing that can be read, or another
\* value; a prefix length or a number that lacks its last digits is one.
Cut(line) ==
  {Line("malformed", Nil), Line(line.key, Garbled)}
  \union {Line(line.key, v) : v \in CASE line.key = "allowed_ip"       -> IPs
                                     [] line.key \in {"sec", "nsec"} -> {0}
                                     [] line.key \in {"dev", "awg"}  -> Values
                                     [] OTHER                        -> {}}

\* It exits: of its answer the first n lines arrive, and part of the next.
DaemonDies ==
  /\ alive
  /\ alive' = FALSE
  /\ req' = <<>>
  /\ \E n \in 0 .. Len(ans) :
       \/ ans' = SubSeq(ans, 1, n)
       \/ /\ n < Len(ans)
          /\ \E part \in Cut(ans[n + 1]) :
               ans' = Append(SubSeq(ans, 1, n), part)
  /\ UNCHANGED <<clientVars, timeUp, device, shake, peer, made, origin>>

TimePasses ==
  /\ bounded /\ ~ timeUp
  /\ timeUp' = TRUE
  /\ UNCHANGED <<clientVars, daemonVars, req, ans, origin>>

-----------------------------------------------------------------------------
(* The client reads.                                                       *)

ReadLine ==
  /\ stage = "read" /\ verb = "get" /\ ~ Late
  /\ ans # <<>> /\ Head(ans) # EmptyLine
  /\ ans' = Tail(ans)
  /\ IF Head(ans).key = "malformed"
     THEN Ends("parse") /\ UNCHANGED dp
     ELSE dp' = Parse(dp, Head(ans)) /\ UNCHANGED <<stage, outcome>>
  /\ UNCHANGED <<verb, config, bounded, timeUp, daemonVars, req, origin>>

\* The empty line, or the end of the stream: either ends the loop.
EndOfAnswer ==
  /\ stage = "read" /\ verb = "get" /\ ~ Late
  /\ IF ans = <<>> THEN ~ alive ELSE Head(ans) = EmptyLine
  /\ Ends(IF dp.err THEN "parse" ELSE "ok")
  /\ UNCHANGED <<verb, config, bounded, dp, timeUp, daemonVars, req, ans, origin>>

Accepts(line) == line = Line("errno", 0)

\* One Read of the answer to set, which may bring only a part of it.
ReadReply ==
  /\ stage = "read" /\ verb = "set" /\ ~ Late
  /\ IF ans = <<>> THEN ~ alive /\ Ends("io")
     ELSE \/ Ends(IF Accepts(Head(ans)) THEN "ok" ELSE "errno")
          \/ Ends("errno")
  /\ UNCHANGED <<verb, config, bounded, dp, timeUp, daemonVars, req, ans, origin>>

Timeout ==
  /\ stage = "read" /\ Late
  /\ Ends("timeout")
  /\ UNCHANGED <<verb, config, bounded, dp, timeUp, daemonVars, req, ans, origin>>

ExchangeNext ==
  \/ Dial \/ Check \/ WriteFails \/ WriteGet \/ WriteSet
  \/ DaemonSets \/ DaemonDone \/ DaemonRefuses \/ DaemonDies \/ TimePasses
  \/ ReadLine \/ EndOfAnswer \/ ReadReply \/ Timeout

ExchangeSpec == ExchangeInit /\ [][ExchangeNext]_exchangeVars

-----------------------------------------------------------------------------
(* Properties.                                                             *)

\* But for a peer's AdvancedSecurity, which the protocol has no line for.
Sayable(c) ==
  [c EXCEPT !.Peers = [i \in DOMAIN @ |->
     [@[i] EXCEPT !.AdvancedSecurity = FALSE, !.DisableAdvancedSecurity = FALSE]]]

\* ConfigureDevice returned nil: the daemon's device is what the
\* configuration means, in whatever lines it was written.
DaemonSetAsAsked ==
  (verb = "set" /\ outcome = "ok") => device = Configured(origin, Sayable(config))

\* Device returned no error and the daemon lived: every peer is there once,
\* with its own fields, handshake and allowed IPs, in whatever order the
\* daemon gave them; so a daemon that fails half-way through its answer is not
\* believed, wherever its errno comes.
GetAsIs ==
  (verb = "get" /\ outcome = "ok" /\ alive)
  => /\ dp.dev = device.dev /\ dp.awg = device.awg
     /\ Len(dp.peers) = Cardinality(DOMAIN device.peers)
     /\ \A k \in DOMAIN device.peers : \E i \in DOMAIN dp.peers :
          LET p == dp.peers[i]
          IN  /\ p.key = k
              /\ p.opts = device.peers[k].opts
              /\ p.time = shake[k]
              /\ ToSet(p.ips) = device.peers[k].ips
              /\ Len(p.ips) = Cardinality(device.peers[k].ips)
=============================================================================

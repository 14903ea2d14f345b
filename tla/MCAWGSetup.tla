---------------------------- MODULE MCAWGSetup -------------------------------
(***************************************************************************)
(* AWGSetup on values around every limit: below, at and above it, and      *)
(* above it by 2^16, where a truncated value would look valid.  Of each    *)
(* kind of draw the least and the greatest, and between them the draws     *)
(* that make paddings or message sizes equal: 15 + 28 as S1 or S2 meets    *)
(* 10 + 33 as S3, and S3 = S2 + 28 makes a cookie reply as long as a       *)
(* response.                                                               *)
(***************************************************************************)
EXTENDS AWGSetup

\* Headers given as a sequence, from H1 on.
Headers4(hs) == [NewConfig EXCEPT !.H = [i \in Headers |-> IF i \in DOMAIN hs THEN hs[i] ELSE Nil]]

Junk(jc, jmin, jmax) ==
  [NewConfig EXCEPT !.n["Jc"] = jc, !.n["Jmin"] = jmin, !.n["Jmax"] = jmax]

Tag(key, val, text) == [key |-> key, val |-> val, text |-> text]

\* The junk parameters, each alone and together.
JunkConfigs ==
  {Junk(jc, jmin, jmax) : jc \in {Nil, -1, 128, 129, U16 + 3},
                          jmin \in {Nil, 0, 50, 1280}, jmax \in {Nil, 0, 40, 1280, 1281}}

HeaderConfigs ==
  {Headers4(<<h1, h2>>) : h1 \in {Nil, <<1, 1>>, <<5, 9>>, <<3, 2>>},
                   h2 \in {Nil, <<2, 2>>, <<1, 6>>, <<9, 12>>, <<1, U32>>}}
  \union {Headers4(<<<<5, 9>>, <<1, 4>>, <<10, 10>>, h4>>) : h4 \in {<<11, 12>>, <<4, 5>>, Nil}}

OtherConfigs ==
  {[NewConfig EXCEPT !.n[f] = v] : f \in {"S1", "S4", "ListenPort"},
                              v \in {0, 65387, 65388, 65535, 65536}}
  \union {[NewConfig EXCEPT !.mark = v] : v \in {-1, 0, U32 - 1, U32}}
  \union {[NewConfig EXCEPT !.peers = <<[ka |-> ka, port |-> port, on |-> on, off |-> TRUE]>>] :
            ka \in {Nil, 65535999, 65535000}, port \in {Nil, 65536}, on \in BOOLEAN}
  \union {[NewConfig EXCEPT !.I[1] = spec] :
            spec \in {<<Tag("r", 65535, 9)>>, <<Tag("r", 65535, 9), Tag("c", Nil, 3)>>,
                      <<Tag("b", 65524, 65530)>>, <<Tag("b", 65526, 65532)>>}}

\* Updates of one or two fields each, some of which conflict with each other.
PartialConfigs ==
  {Junk(Nil, jmin, jmax) : jmin \in {Nil, 0, 50}, jmax \in {Nil, 40, 1280}}
  \union {Headers4(<<h1, h2>>) : h1 \in {Nil, <<2, 2>>, <<5, 9>>}, h2 \in {Nil, <<1, 1>>, <<9, 12>>}}

AllConfigs == JunkConfigs \union HeaderConfigs \union OtherConfigs \union PartialConfigs

\* A new device, with the headers of plain WireGuard; one in use; and one that
\* is not AmneziaWG.
Fresh ==
  [isAmnezia |-> TRUE, n |-> [f \in Numbers |-> 0], mark |-> 0,
   H |-> [i \in Headers |-> <<i, i>>]]
InUse ==
  [Fresh EXCEPT !.n["Jc"] = 4, !.n["Jmin"] = 45, !.n["Jmax"] = 60,
                !.H = [i \in Headers |-> IF i = 3 THEN Nil ELSE <<10 * i, 10 * i + 5>>]]
MCDevices == {Fresh, InUse, [Fresh EXCEPT !.isAmnezia = FALSE]}

MCIntN(k) ==
  CASE k = 49 -> {0, 28, 48}
    [] k = 54 -> {0, 5, 33, 53}
    [] k = 15 -> {14}
    [] k \in {100 * Million, 20 * Million} -> {0, k - 1}
    [] OTHER -> {k - 1}

RandomTag(key, val) == Tag(key, val, 6)

\* Tags of every kind, well formed or not, among them sizes that fill the
\* packet to the last byte together.
MCTags ==
  {RandomTag("b", 2), RandomTag("b", 3), RandomTag("b", Nil), RandomTag("c", Nil),
   RandomTag("c", 1), RandomTag("r", 65535), RandomTag("r", 65536), RandomTag("rc", 65531),
   RandomTag("rd", 0), RandomTag("rd", 65530)}

\* InitPacketSize, with its running sum and its early returns, is the sum of
\* the sizes of the tags of a description that fits, and refuses any other:
\* every description of up to four of these tags (of which the state says
\* nothing, so it is looked at before the first draw only).
SizeIsSum ==
  (generator # Nil /\ drawing = "junk") =>
    \A len \in 0 .. 4 : \A spec \in [1 .. len -> MCTags] : SizeAgrees(spec)
=============================================================================

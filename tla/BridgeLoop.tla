------------------------------ MODULE BridgeLoop -----------------------------
(***************************************************************************)
(* Bridge loop avoidance.  Several nodes of the mesh (backbone gateways)   *)
(* are bridged into the same LAN.  For each client of the mesh one of them *)
(* is responsible: it has claimed the client and tells the others so by    *)
(* claim frames on the LAN.  Gateways announce a checksum of their claims  *)
(* periodically; one whose view differs asks for the claims, and forwards  *)
(* no broadcasts until it agrees.                                          *)
(*                                                                         *)
(* One VLAN is modelled.  The checksum is the exclusive or of the          *)
(* checksums of the claimed addresses, here the symmetric difference of    *)
(* the addresses.  Handlers are atomic.  Loop detection frames, a change   *)
(* of the primary interface's address and table dumps are left out.        *)
(***************************************************************************)
EXTENDS Integers, Sequences, FiniteSets, FiniteSetsExt, SequencesExt

CONSTANTS
  Gateway,            \* backbone gateways of the LAN
  Mac,                \* clients
  Group,              \* the claim group each gateway starts with: a number
  BLA_WAIT_PERIODS,   \* periods a new gateway does not forward broadcasts
  BlaScenarios,       \* bounds: how often clients send, time passes, claims or gateways
                      \* time out, frames are lost, gateways crash, start or are switched
  MaxFrames           \* bound: frames in flight between two gateways when a period ends

ASSUME BridgeLoopAssumption ==
  /\ Group \in [Gateway -> Nat]
  /\ BLA_WAIT_PERIODS \in Nat \ {0}
  /\ IsFiniteSet(Gateway) /\ IsFiniteSet(Mac)

VARIABLES
  gw,       \* struct batadv_priv_bla of each gateway
  lan,      \* lan[g][h]: claim frames on their way from g to h
  met,      \* whether the gateways know each other as originators of the mesh
  ran,      \* gateways whose timer has fired in this period: periods have equal lengths
  quota     \* what is left of the scenario's bounds

blaVars == <<gw, lan, met, ran, quota>>

BLA_CRC_INIT == {}

\* Entries of a claim or backbone table.
NoEntries == [x \in {} |-> {}]
Has(table, x) == x \in DOMAIN table
Put(table, x, e) == [y \in DOMAIN table \cup {x} |-> IF y = x THEN e ELSE table[y]]
Drop(table, X) == [x \in DOMAIN table \ X |-> table[x]]

\* A node whose BLA has just been started; `out' collects the frames of a handler, for each
\* gateway those that it gets.
NoFrames == [h \in Gateway |-> <<>>]
batadv_bla_init(g, up) ==
  [up |-> up, on |-> TRUE, group |-> Group[g], claims |-> NoEntries, backbones |-> NoEntries,
   num_requests |-> 0, out |-> NoFrames]

BlaInit ==
  /\ quota \in BlaScenarios
  /\ gw = [g \in Gateway |-> batadv_bla_init(g, g \in quota.running)]
  /\ lan = [g \in Gateway |-> NoFrames]
  /\ met = quota.met
  /\ ran = {}

Pay(what) ==
  /\ quota[what] > 0
  /\ quota' = [quota EXCEPT ![what] = @ - 1]

\* Exclusive or of checksums.
Xor(crc, k) == SymDiff(crc, {k})

ClaimsOf(s, h) == {k \in DOMAIN s.claims : s.claims[k].gw = h}

-----------------------------------------------------------------------------
(* Claims and backbone gateways.  s is the state of gateway g. *)

\* Frames carry the sender, its claim group and a client, a checksum or a gateway; only
\* requests are addressed to one gateway.
Frame(s, g, type, arg) == [type |-> type, src |-> g, group |-> s.group, arg |-> arg]
batadv_bla_send_claim(s, g, type, arg) ==
  [s EXCEPT !.out = [h \in Gateway |-> IF h # g /\ (type = "REQUEST" => h = arg)
                                      THEN Append(@[h], Frame(s, g, type, arg))
                                      ELSE @[h]]]

\* One frame for each of some clients.
SendEach(s, g, type, K) ==
  LET order == SetToSeq(K)
      frames == [i \in DOMAIN order |-> Frame(s, g, type, order[i])]
  IN [s EXCEPT !.out = [h \in Gateway |-> IF h = g THEN @[h] ELSE @[h] \o frames]]

batadv_bla_send_announce(s, g, h) ==
  batadv_bla_send_claim(s, g, "ANNOUNCE", s.backbones[h].crc)

\* A new own gateway is announced, and waits as if it had sent a request.
batadv_bla_get_backbone_gw(s, g, h, own) ==
  IF Has(s.backbones, h) THEN s
  ELSE LET new == [crc |-> BLA_CRC_INIT, request_sent |-> own,
                   wait_periods |-> IF own THEN BLA_WAIT_PERIODS ELSE 0]
           r == [s EXCEPT !.backbones = Put(@, h, new)]
       IN IF own THEN [batadv_bla_send_announce(r, g, h) EXCEPT !.num_requests = @ + 1] ELSE r

batadv_bla_update_own_backbone_gw(s, g) == batadv_bla_get_backbone_gw(s, g, g, TRUE)

\* Claims leave the table, and their addresses the checksums of their gateways.
batadv_claim_release(s, K) ==
  [s EXCEPT !.backbones = [h \in DOMAIN s.backbones |->
                             [s.backbones[h] EXCEPT !.crc = SymDiff(@, K \cap ClaimsOf(s, h))]],
            !.claims = Drop(@, K)]

batadv_bla_del_claim(s, k) == batadv_claim_release(s, {k} \cap DOMAIN s.claims)

batadv_bla_del_backbone_claims(s, h) ==
  [batadv_claim_release(s, ClaimsOf(s, h)) EXCEPT !.backbones[h].crc = BLA_CRC_INIT]

\* Mutant: the old gateway of the claim keeps the address in its checksum.
batadv_bla_add_claim_NoRemove(s, k, h) ==
  IF Has(s.claims, k) /\ s.claims[k].gw = h THEN [s EXCEPT !.claims[k].recent = TRUE]
  ELSE [s EXCEPT !.claims = Put(@, k, [gw |-> h, recent |-> TRUE]), !.backbones[h].crc = Xor(@, k)]

\* The claim of client k is gateway h's now.
batadv_bla_add_claim(s, k, h) ==
  LET known == Has(s.claims, k)
      moved == IF known THEN [s EXCEPT !.backbones[s.claims[k].gw].crc = Xor(@, k)] ELSE s
  IN IF known /\ s.claims[k].gw = h THEN [s EXCEPT !.claims[k].recent = TRUE]
     ELSE [moved EXCEPT !.claims = Put(@, k, [gw |-> h, recent |-> TRUE]),
                        !.backbones[h].crc = Xor(@, k)]

\* Repeat all own claims and let the other check its view again.
batadv_bla_answer_request(s, g) ==
  LET repeated == SendEach(s, g, "CLAIM", ClaimsOf(s, g))
  IN IF Has(s.backbones, g) THEN batadv_bla_send_announce(repeated, g, g) ELSE s

\* Mutant: the old claims of the gateway are not forgotten before they are asked for.
batadv_bla_send_request_Kept(s, g, h) ==
  LET r == batadv_bla_send_claim(s, g, "REQUEST", h)
  IN IF r.backbones[h].request_sent THEN r
     ELSE [r EXCEPT !.num_requests = @ + 1, !.backbones[h].request_sent = TRUE]

\* Gateway h is out of sync: forget its claims, ask for them, hold broadcasts back.
batadv_bla_send_request(s, g, h) ==
  LET r == batadv_bla_send_claim(batadv_bla_del_backbone_claims(s, h), g, "REQUEST", h)
  IN IF r.backbones[h].request_sent THEN r
     ELSE [r EXCEPT !.num_requests = @ + 1, !.backbones[h].request_sent = TRUE]

-----------------------------------------------------------------------------
(* Handlers. *)

batadv_handle_announce(s, g, h, crc) ==
  LET r == batadv_bla_get_backbone_gw(s, g, h, FALSE)
  IN IF r.backbones[h].crc # crc THEN batadv_bla_send_request(r, g, h)
     ELSE IF r.backbones[h].request_sent
     THEN [r EXCEPT !.num_requests = @ - 1, !.backbones[h].request_sent = FALSE]
     ELSE r

batadv_handle_request(s, g, h) == IF h = g THEN batadv_bla_answer_request(s, g) ELSE s

\* The claim goes whoever owns it; an own one is unclaimed on the LAN.
batadv_handle_unclaim(s, g, h, k, primary) ==
  LET r == IF primary /\ h = g THEN batadv_bla_send_claim(s, g, "UNCLAIM", k) ELSE s
  IN IF Has(r.backbones, h) THEN batadv_bla_del_claim(r, k) ELSE r

batadv_handle_claim(s, g, h, k) ==
  LET r == batadv_bla_add_claim(batadv_bla_get_backbone_gw(s, g, h, FALSE), k, h)
  IN IF h = g THEN batadv_bla_send_claim(r, g, "CLAIM", k) ELSE r

\* Frames of another group are only taken from gateways of the same mesh; the larger
\* group wins.
batadv_check_claim_group(s, f) == f.group = s.group \/ met

batadv_bla_process_claim(s, g, f) ==
  LET t == [s EXCEPT !.group = IF f.group > @ THEN f.group ELSE @]
      r == batadv_bla_update_own_backbone_gw(t, g)
  IN IF ~batadv_check_claim_group(s, f) THEN s
     ELSE CASE f.type = "CLAIM" -> batadv_handle_claim(r, g, f.src, f.arg)
            [] f.type = "UNCLAIM" -> batadv_handle_unclaim(r, g, f.src, f.arg, TRUE)
            [] f.type = "ANNOUNCE" -> batadv_handle_announce(r, g, f.src, f.arg)
            [] f.type = "REQUEST" -> batadv_handle_request(r, g, f.arg)

\* Mutant: a request that was waited for stays counted when its gateway is purged.
batadv_bla_purge_backbone_gw_Counted(s, H) ==
  [batadv_claim_release(s, {k \in DOMAIN s.claims : s.claims[k].gw \in H}) EXCEPT
     !.backbones = Drop(@, H)]

\* Gateways H go with their claims; requests to them are not waited for any more.
batadv_bla_purge_backbone_gw(s, H) ==
  [batadv_claim_release(s, {k \in DOMAIN s.claims : s.claims[k].gw \in H}) EXCEPT
     !.backbones = Drop(@, H),
     !.num_requests = @ - Cardinality({h \in H : s.backbones[h].request_sent})]

\* Claims K go as if each had been unclaimed.
batadv_bla_purge_claims(s, g, K, primary) ==
  batadv_claim_release(IF primary THEN SendEach(s, g, "UNCLAIM", K \cap ClaimsOf(s, g)) ELSE s,
                       {k \in K : Has(s.backbones, s.claims[k].gw)})

-----------------------------------------------------------------------------
(* Actions. *)

\* Gateway g is now in state s; the frames it sent are on their way to the running ones.
Became(g, s, queues) ==
  \E r \in {s} :
    /\ gw' = [gw EXCEPT ![g] = [r EXCEPT !.out = NoFrames]]
    /\ lan' = [queues EXCEPT ![g] = [h \in Gateway |-> IF gw[h].up THEN @[h] \o r.out[h] ELSE <<>>]]

\* The oldest frame from h arrives at g from the LAN (batadv_bla_tx).
ReceiveFrame(g, h) ==
  /\ gw[g].up
  /\ lan[h][g] # <<>>
  /\ UNCHANGED <<met, ran, quota>>
  /\ Became(g, IF gw[g].on THEN batadv_bla_process_claim(gw[g], g, Head(lan[h][g]))
               ELSE batadv_bla_update_own_backbone_gw(gw[g], g),
             [lan EXCEPT ![h][g] = Tail(@)])

\* Whether a data frame passes; multicasts wait for requests.
Held(s, multicast) == multicast /\ s.num_requests > 0
IsMine(s, g, k) == Has(s.claims, k) /\ s.claims[k].gw = g

\* A frame of client k arrives from the mesh and wants to the LAN.
batadv_bla_rx(g, k, multicast) ==
  LET s == gw[g]
      dropped == Held(s, multicast) \/ (multicast /\ Has(s.claims, k) /\ ~IsMine(s, g, k))
      claimed == IF IsMine(s, g, k) THEN [s EXCEPT !.claims[k].recent = TRUE]
                 ELSE batadv_handle_claim(s, g, g, k)
  IN /\ s.up
     /\ s.on => ~dropped
     /\ Became(g, batadv_bla_update_own_backbone_gw(IF s.on THEN claimed ELSE s, g), lan)
     /\ Pay("frames")
     /\ UNCHANGED <<met, ran>>

\* A frame of client k arrives from the LAN and wants into the mesh.
batadv_bla_tx(g, k, multicast) ==
  LET s == gw[g]
      mine == IsMine(s, g, k)
      dropped == \/ Held(s, multicast)
                 \/ mine /\ s.claims[k].recent
                 \/ multicast /\ Has(s.claims, k) /\ ~mine
      roamed == batadv_handle_unclaim(s, g, g, k, TRUE)
  IN /\ s.up
     /\ s.on => ~dropped
     /\ Became(g, batadv_bla_update_own_backbone_gw(IF s.on /\ mine THEN roamed ELSE s, g), lan)
     /\ Pay("frames")
     /\ UNCHANGED <<met, ran>>

\* 100 ms pass: no claim of g is recent any more.
ClaimsAge(g) ==
  /\ \E k \in DOMAIN gw[g].claims : gw[g].claims[k].recent
  /\ gw' = [gw EXCEPT ![g].claims = [k \in DOMAIN gw[g].claims |-> [gw[g].claims[k] EXCEPT !.recent = FALSE]]]
  /\ UNCHANGED <<lan, met, ran, quota>>

\* Gateways that g has not heard of for BLA_BACKBONE_TIMEOUT because they are gone.
Gone(g) == {h \in DOMAIN gw[g].backbones \ {g} : ~(gw[h].up /\ gw[h].on) /\ lan[h][g] = <<>>}

\* Announce the own gateway; it stops waiting after some periods.
Announce(s, g) ==
  IF ~s.on \/ ~Has(s.backbones, g) THEN s
  ELSE LET r == batadv_bla_send_announce(s, g, g)
       IN IF ~s.backbones[g].request_sent THEN r
          ELSE IF s.backbones[g].wait_periods > 1
          THEN [r EXCEPT !.backbones[g].wait_periods = @ - 1]
          ELSE [r EXCEPT !.backbones[g].wait_periods = 0, !.backbones[g].request_sent = FALSE,
                         !.num_requests = @ - 1]

batadv_bla_periodic_work(g, oldClaims, oldGateways) ==
  LET s == gw[g]
      due == {h \in Gateway : gw[h].up /\ h \notin ran}
  IN /\ s.up /\ (due = {} \/ g \in due)
     /\ \A h \in Gateway \ {g} : Len(lan[g][h]) < MaxFrames /\ Len(lan[h][g]) < MaxFrames
     /\ oldClaims \subseteq ClaimsOf(s, g)
     /\ oldGateways \subseteq DOMAIN s.backbones \ {g}
     /\ ran' = (IF due = {} THEN {} ELSE ran) \cup {g}
     /\ UNCHANGED met
     /\ \E r \in {batadv_bla_purge_claims(s, g, oldClaims, TRUE)} :
          \E t \in {batadv_bla_purge_backbone_gw(r, oldGateways)} : Became(g, Announce(t, g), lan)

\* A period in which only what is gone for good times out, or something else does.
Period(g) == UNCHANGED quota /\ batadv_bla_periodic_work(g, {}, Gone(g))
PeriodWithTimeout(g, K, H) == batadv_bla_periodic_work(g, K, H) /\ Pay("timeouts")

\* BLA is switched on or off: what is known is dropped without unclaiming it, or the
\* own gateway is announced.
batadv_bla_status_update(g) ==
  LET s == [gw[g] EXCEPT !.on = ~@, !.group = Group[g]]
      purged == batadv_bla_purge_backbone_gw(
                  batadv_bla_purge_claims(s, g, DOMAIN s.claims, FALSE), DOMAIN s.backbones)
  IN /\ gw[g].up
     /\ Became(g, IF ~s.on THEN purged
                  ELSE IF Has(s.backbones, g) THEN batadv_bla_send_announce(s, g, g) ELSE s, lan)
     /\ Pay("switches")
     /\ UNCHANGED <<met, ran>>

\* Frames on their way to g get lost.
Unheard(g) == [h \in Gateway |-> [lan[h] EXCEPT ![g] = <<>>]]

\* The interface is removed: everything is unclaimed and forgotten.
batadv_bla_free(g) ==
  LET s == batadv_bla_purge_claims(gw[g], g, DOMAIN gw[g].claims, TRUE)
  IN /\ gw[g].up
     /\ Became(g, [batadv_bla_init(g, FALSE) EXCEPT !.out = s.out],
               Unheard(g))
     /\ Pay("stops")
     /\ UNCHANGED <<met, ran>>

\* The node crashes, or is started.
Crash(g) ==
  /\ gw[g].up
  /\ gw' = [gw EXCEPT ![g] = batadv_bla_init(g, FALSE)]
  /\ lan' = Unheard(g)
  /\ Pay("stops")
  /\ UNCHANGED <<met, ran>>

Start(g) ==
  /\ ~gw[g].up
  /\ gw' = [gw EXCEPT ![g] = batadv_bla_init(g, TRUE)]
  /\ lan' = Unheard(g)
  /\ Pay("starts")
  /\ UNCHANGED <<met, ran>>

LoseFrame(g, h) ==
  /\ lan[g][h] # <<>>
  /\ lan' = [lan EXCEPT ![g][h] = Tail(@)]
  /\ Pay("losses")
  /\ UNCHANGED <<gw, met, ran>>

\* The gateways hear each other's OGMs.
Meet ==
  /\ ~met
  /\ met' = TRUE
  /\ UNCHANGED <<gw, lan, ran, quota>>

BlaNext ==
  \/ \E g, h \in Gateway : g # h /\ ReceiveFrame(g, h)
  \/ \E g \in Gateway, k \in Mac, multicast \in BOOLEAN : batadv_bla_rx(g, k, multicast)
  \/ \E g \in Gateway, k \in Mac, multicast \in BOOLEAN : batadv_bla_tx(g, k, multicast)
  \/ \E g \in Gateway : ClaimsAge(g)
  \/ \E g \in Gateway : Period(g)
  \/ \E g \in Gateway, K \in SUBSET Mac, H \in SUBSET Gateway : PeriodWithTimeout(g, K, H)
  \/ \E g \in Gateway : batadv_bla_status_update(g)
  \/ \E g \in Gateway : batadv_bla_free(g)
  \/ \E g \in Gateway : Crash(g)
  \/ \E g \in Gateway : Start(g)
  \/ \E g, h \in Gateway : g # h /\ LoseFrame(g, h)
  \/ Meet

BlaSpec == BlaInit /\ [][BlaNext]_blaVars

\* Frames that are not lost arrive, periods end, gateways of one mesh meet.
BlaFairSpec ==
  /\ BlaSpec
  /\ \A g \in Gateway : WF_blaVars(Period(g))
  /\ \A g, h \in Gateway : g # h => WF_blaVars(ReceiveFrame(g, h))
  /\ WF_blaVars(Meet)

-----------------------------------------------------------------------------
(* Properties. *)

\* num_requests is the number of gateways a request was sent to, whatever order
\* announcements, timeouts and resets come in: one too many holds broadcasts back for
\* good, one too few lets them loop.
RequestsCounted ==
  \A g \in Gateway :
    gw[g].num_requests = Cardinality({h \in DOMAIN gw[g].backbones : gw[g].backbones[h].request_sent})

\* The checksum of a gateway is the one of the claims it has in the table, although it
\* is only ever updated by the address that comes or goes: a wrong one would never agree
\* with an announcement again.  No claim outlives its gateway
\* (batadv_bla_purge_backbone_gw()).
CrcMatches ==
  \A g \in Gateway : LET s == gw[g] IN
    /\ \A h \in DOMAIN s.backbones : s.backbones[h].crc = ClaimsOf(s, h)
    /\ \A k \in DOMAIN s.claims : s.claims[k].gw \in DOMAIN s.backbones

\* Running gateways agree on who claimed what, none of them holds broadcasts back and
\* none remembers a gateway that is gone.
Live == {g \in Gateway : gw[g].up /\ gw[g].on}
Settled ==
  /\ \A g \in Live : gw[g].num_requests = 0 /\ DOMAIN gw[g].backbones \subseteq Live
  /\ \A g, h \in Live : ClaimsOf(gw[g], h) = ClaimsOf(gw[h], h)

\* When no more clients move and nothing more is lost, the gateways agree for good:
\* at most one of them puts a client's broadcasts on the LAN, and none is blocked by a
\* request that nobody answers.
ClaimsConverge == <>[]Settled
=============================================================================

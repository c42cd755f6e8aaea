-------------------------- MODULE BridgeLoopProofs ---------------------------
(***************************************************************************)
(* Proofs about bridge loop avoidance, for any number of gateways and      *)
(* clients and whatever happens to their frames.                           *)
(*                                                                         *)
(* A gateway keeps three things about its claims that must agree: the      *)
(* table of claims, a checksum for each backbone gateway, updated by the   *)
(* address that comes or goes, and num_requests.  The state of a gateway   *)
(* is sound when they do.  Every function of the source that the handlers  *)
(* are made of turns a sound state into a sound one, which is a lemma for  *)
(* each; an action is the composition of a few of them.                    *)
(***************************************************************************)
EXTENDS BridgeLoop, FiniteSetTheorems, TLAPS

(* Types. *)

Claim == [gw : Gateway, recent : BOOLEAN]
Backbone == [crc : SUBSET Mac, request_sent : BOOLEAN, wait_periods : Nat]
Table(K, E) == UNION {[S -> E] : S \in SUBSET K}

ClaimFrame == [type : {"CLAIM", "UNCLAIM"}, src : Gateway, group : Nat, arg : Mac]
AnnounceFrame == [type : {"ANNOUNCE"}, src : Gateway, group : Nat, arg : SUBSET Mac]
RequestFrame == [type : {"REQUEST"}, src : Gateway, group : Nat, arg : Gateway]
Frames == ClaimFrame \cup AnnounceFrame \cup RequestFrame

State == [up : BOOLEAN, on : BOOLEAN, group : Nat, claims : Table(Mac, Claim),
          backbones : Table(Gateway, Backbone), num_requests : Int,
          out : [Gateway -> Seq(Frames)]]

(* What is sound about the state of a gateway. *)

Waiting(s) == {h \in DOMAIN s.backbones : s.backbones[h].request_sent}
Counted(s) == s.num_requests = Cardinality(Waiting(s))
Summed(s) == \A h \in DOMAIN s.backbones : s.backbones[h].crc = ClaimsOf(s, h)
Owned(s) == \A k \in DOMAIN s.claims : s.claims[k].gw \in DOMAIN s.backbones
Sound(s) == s \in State /\ Counted(s) /\ Summed(s) /\ Owned(s)

\* The inductive invariant.
BlaInv == /\ gw \in [Gateway -> State]
          /\ \A g \in Gateway : Sound(gw[g])
          /\ lan \in [Gateway -> [Gateway -> Seq(Frames)]]

-----------------------------------------------------------------------------
(* Tables. *)

LEMMA TableHas ==
  ASSUME NEW K, NEW E, NEW t \in Table(K, E)
  PROVE  /\ DOMAIN t \in SUBSET K /\ t = [x \in DOMAIN t |-> t[x]]
         /\ \A x \in DOMAIN t : x \in K /\ t[x] \in E
BY DEF Table

LEMMA IsTable ==
  ASSUME NEW K, NEW E, NEW S \in SUBSET K, NEW t \in [S -> E]
  PROVE  t \in Table(K, E)
BY DEF Table

LEMMA PutHas ==
  ASSUME NEW K, NEW E, NEW t \in Table(K, E), NEW x \in K, NEW e \in E
  PROVE  Put(t, x, e) \in Table(K, E)
<1>1. DOMAIN t \cup {x} \in SUBSET K /\ \A y \in DOMAIN t : t[y] \in E
  BY TableHas
<1>2. Put(t, x, e) \in [DOMAIN t \cup {x} -> E]
  BY <1>1 DEF Put
<1> QED BY <1>1, <1>2, IsTable

LEMMA DropHas ==
  ASSUME NEW K, NEW E, NEW t \in Table(K, E), NEW X
  PROVE  Drop(t, X) \in Table(K, E)
<1>1. DOMAIN t \ X \in SUBSET K /\ \A y \in DOMAIN t : t[y] \in E
  BY TableHas
<1>2. Drop(t, X) \in [DOMAIN t \ X -> E]
  BY <1>1 DEF Drop
<1> QED BY <1>1, <1>2, IsTable

\* An entry of a table changes.
LEMMA EntryChanges ==
  ASSUME NEW K, NEW E, NEW t \in Table(K, E), NEW x \in DOMAIN t, NEW e \in E
  PROVE  /\ [t EXCEPT ![x] = e] \in Table(K, E)
         /\ DOMAIN [t EXCEPT ![x] = e] = DOMAIN t
         /\ [t EXCEPT ![x] = e][x] = e
         /\ \A y \in DOMAIN t \ {x} : [t EXCEPT ![x] = e][y] = t[y]
<1>1. t \in [DOMAIN t -> E] /\ DOMAIN t \in SUBSET K
  BY TableHas
<1>2. [t EXCEPT ![x] = e] \in [DOMAIN t -> E]
  BY <1>1
<1> QED BY <1>1, <1>2, IsTable

LEMMA NoEntriesTable ==
  ASSUME NEW K, NEW E
  PROVE  NoEntries \in Table(K, E) /\ DOMAIN NoEntries = {}
<1>1. NoEntries \in [{} -> E] /\ {} \in SUBSET K
  BY DEF NoEntries
<1> QED BY <1>1, IsTable DEF NoEntries

\* What is known of a sound state.
LEMMA StateHas ==
  ASSUME NEW s \in State
  PROVE  /\ DOMAIN s.claims \in SUBSET Mac /\ DOMAIN s.backbones \in SUBSET Gateway
         /\ \A k \in DOMAIN s.claims : k \in Mac /\ s.claims[k] \in Claim
         /\ \A h \in DOMAIN s.backbones : h \in Gateway /\ s.backbones[h] \in Backbone
         /\ \A h : ClaimsOf(s, h) \in SUBSET Mac
         /\ IsFiniteSet(DOMAIN s.backbones) /\ IsFiniteSet(Waiting(s))
         /\ Cardinality(Waiting(s)) \in Nat
<1>1. s.claims \in Table(Mac, Claim) /\ s.backbones \in Table(Gateway, Backbone)
  BY DEF State
<1>2. /\ DOMAIN s.claims \in SUBSET Mac /\ DOMAIN s.backbones \in SUBSET Gateway
      /\ \A k \in DOMAIN s.claims : k \in Mac /\ s.claims[k] \in Claim
      /\ \A h \in DOMAIN s.backbones : h \in Gateway /\ s.backbones[h] \in Backbone
  BY <1>1, TableHas
<1>3. \A h : ClaimsOf(s, h) \in SUBSET Mac
  BY <1>2 DEF ClaimsOf
<1>4. IsFiniteSet(DOMAIN s.backbones)
  BY <1>2, BridgeLoopAssumption, FS_Subset
<1>5. Waiting(s) \in SUBSET (DOMAIN s.backbones)
  BY DEF Waiting
<1>6. IsFiniteSet(Waiting(s))
  BY <1>4, <1>5, FS_Subset
<1> QED BY <1>2, <1>3, <1>4, <1>6, FS_CardinalityType

\* Sound is about the tables and num_requests alone.
LEMMA SoundTables ==
  ASSUME NEW s, Sound(s), NEW t \in State, t.claims = s.claims, t.backbones = s.backbones,
         t.num_requests = s.num_requests
  PROVE  Sound(t)
BY DEF Sound, Counted, Summed, Owned, Waiting, ClaimsOf

-----------------------------------------------------------------------------
(* Frames. *)

LEMMA FrameTypes ==
  ASSUME NEW s \in State, NEW g \in Gateway
  PROVE  /\ \A k \in Mac : Frame(s, g, "CLAIM", k) \in Frames /\ Frame(s, g, "UNCLAIM", k) \in Frames
         /\ \A crc \in SUBSET Mac : Frame(s, g, "ANNOUNCE", crc) \in Frames
         /\ \A h \in Gateway : Frame(s, g, "REQUEST", h) \in Frames
<1>1. s.group \in Nat
  BY DEF State
<1>2. \A k \in Mac : Frame(s, g, "CLAIM", k) \in Frames /\ Frame(s, g, "UNCLAIM", k) \in Frames
  BY <1>1 DEF Frame, Frames, ClaimFrame
<1>3. \A crc \in SUBSET Mac : Frame(s, g, "ANNOUNCE", crc) \in Frames
  BY <1>1 DEF Frame, Frames, AnnounceFrame
<1>4. \A h \in Gateway : Frame(s, g, "REQUEST", h) \in Frames
  BY <1>1 DEF Frame, Frames, RequestFrame
<1> QED BY <1>2, <1>3, <1>4

\* Sending frames changes nothing but what has been sent.
SameBut(s, t) ==
  /\ t \in State
  /\ t.up = s.up /\ t.on = s.on /\ t.group = s.group
  /\ t.claims = s.claims /\ t.backbones = s.backbones /\ t.num_requests = s.num_requests

LEMMA OutChanges ==
  ASSUME NEW s \in State, NEW o \in [Gateway -> Seq(Frames)]
  PROVE  SameBut(s, [s EXCEPT !.out = o])
BY DEF SameBut, State

LEMMA SoundSameBut ==
  ASSUME NEW s, Sound(s), NEW t, SameBut(s, t)
  PROVE  Sound(t)
BY SoundTables DEF SameBut

LEMMA SendClaim ==
  ASSUME NEW s \in State, NEW g, NEW type, NEW arg, Frame(s, g, type, arg) \in Frames
  PROVE  SameBut(s, batadv_bla_send_claim(s, g, type, arg))
<1> DEFINE o == [h \in Gateway |-> IF h # g /\ (type = "REQUEST" => h = arg)
                                   THEN Append(s.out[h], Frame(s, g, type, arg)) ELSE s.out[h]]
<1>1. s.out \in [Gateway -> Seq(Frames)]
  BY DEF State
<1>2. \A h \in Gateway : Append(s.out[h], Frame(s, g, type, arg)) \in Seq(Frames) /\ s.out[h] \in Seq(Frames)
  BY <1>1
<1>3. o \in [Gateway -> Seq(Frames)]
  BY <1>2
<1>4. batadv_bla_send_claim(s, g, type, arg) = [s EXCEPT !.out = o]
  BY DEF batadv_bla_send_claim
<1> HIDE DEF o
<1> QED BY <1>3, <1>4, OutChanges

LEMMA SendAnnounce ==
  ASSUME NEW s \in State, NEW g \in Gateway, NEW h \in DOMAIN s.backbones
  PROVE  SameBut(s, batadv_bla_send_announce(s, g, h))
<1>1. s.backbones[h].crc \in SUBSET Mac
  BY StateHas DEF Backbone
<1> QED BY <1>1, FrameTypes, SendClaim DEF batadv_bla_send_announce

LEMMA SequenceOfSet ==
  ASSUME NEW K, IsFiniteSet(K)
  PROVE  SetToSeq(K) \in [1..Cardinality(K) -> K] /\ Cardinality(K) \in Nat
<1>1. Cardinality(K) \in Nat /\ ExistsBijection(1..Cardinality(K), K)
  BY FS_CardinalityType
<1>2. \E f \in [1..Cardinality(K) -> K] : IsInjective(f)
  BY <1>1 DEF ExistsBijection, Bijection, Injection
<1> QED BY <1>1, <1>2 DEF SetToSeq

LEMMA SendAll ==
  ASSUME NEW s \in State, NEW g \in Gateway, NEW type \in {"CLAIM", "UNCLAIM"}, NEW K \in SUBSET Mac
  PROVE  SameBut(s, SendEach(s, g, type, K))
<1> DEFINE order == SetToSeq(K)
           frames == [i \in DOMAIN order |-> Frame(s, g, type, order[i])]
           o == [h \in Gateway |-> IF h = g THEN s.out[h] ELSE s.out[h] \o frames]
<1>1. IsFiniteSet(K)
  BY BridgeLoopAssumption, FS_Subset
<1>2. order \in [1..Cardinality(K) -> K] /\ Cardinality(K) \in Nat
  BY <1>1, SequenceOfSet
<1>3. SendEach(s, g, type, K) = [s EXCEPT !.out = o]
  BY DEF SendEach
<1> HIDE DEF order
<1>4. \A i \in DOMAIN order : Frame(s, g, type, order[i]) \in Frames
  BY <1>2, FrameTypes
<1>5. frames \in [1..Cardinality(K) -> Frames]
  BY <1>2, <1>4
<1> HIDE DEF frames
<1>6. frames \in Seq(Frames)
  BY <1>2, <1>5
<1>7. s.out \in [Gateway -> Seq(Frames)]
  BY DEF State
<1>8. \A h \in Gateway : s.out[h] \o frames \in Seq(Frames) /\ s.out[h] \in Seq(Frames)
  BY <1>6, <1>7
<1>9. o \in [Gateway -> Seq(Frames)]
  BY <1>8
<1> HIDE DEF o
<1> QED BY <1>3, <1>9, OutChanges

-----------------------------------------------------------------------------
(* Claims and backbone gateways. *)

\* Claims that leave the table leave the checksums.
LEMMA ClaimsReleased ==
  ASSUME NEW s, Sound(s), NEW K \in SUBSET (DOMAIN s.claims)
  PROVE  LET t == batadv_claim_release(s, K)
         IN /\ Sound(t)
            /\ t.up = s.up /\ t.on = s.on /\ t.group = s.group
            /\ DOMAIN t.backbones = DOMAIN s.backbones /\ t.num_requests = s.num_requests
            /\ \A h \in DOMAIN s.backbones : t.backbones[h].request_sent = s.backbones[h].request_sent
            /\ \A h : ClaimsOf(t, h) = ClaimsOf(s, h) \ K
            /\ t.claims = Drop(s.claims, K)
<1> DEFINE b == [h \in DOMAIN s.backbones |->
                   [s.backbones[h] EXCEPT !.crc = SymDiff(@, K \cap ClaimsOf(s, h))]]
           t == batadv_claim_release(s, K)
<1>1. s \in State /\ Counted(s) /\ Summed(s) /\ Owned(s)
  BY DEF Sound
<1>2. t = [s EXCEPT !.backbones = b, !.claims = Drop(s.claims, K)]
  BY DEF batadv_claim_release
<1>3. \A h \in DOMAIN s.backbones :
        /\ h \in Gateway /\ s.backbones[h] \in Backbone
        /\ s.backbones[h].crc = ClaimsOf(s, h) /\ ClaimsOf(s, h) \in SUBSET Mac
  BY <1>1, StateHas DEF Summed
<1>4. \A h \in DOMAIN s.backbones : SymDiff(s.backbones[h].crc, K \cap ClaimsOf(s, h)) = ClaimsOf(s, h) \ K
  BY <1>3 DEF SymDiff
<1>5. \A h \in DOMAIN s.backbones : /\ b[h] \in Backbone
                                    /\ b[h].crc = ClaimsOf(s, h) \ K
                                    /\ b[h].request_sent = s.backbones[h].request_sent
  <2> TAKE h \in DOMAIN s.backbones
  <2>1. b[h] = [s.backbones[h] EXCEPT !.crc = ClaimsOf(s, h) \ K]
    BY <1>4
  <2>2. s.backbones[h] \in Backbone /\ ClaimsOf(s, h) \ K \in SUBSET Mac
    BY <1>3
  <2> HIDE DEF b
  <2> QED BY <2>1, <2>2 DEF Backbone
<1>6. DOMAIN b = DOMAIN s.backbones
  OBVIOUS
<1>7. b \in Table(Gateway, Backbone)
  <2>1. b \in [DOMAIN s.backbones -> Backbone]
    BY <1>5
  <2>2. DOMAIN s.backbones \in SUBSET Gateway
    BY <1>1, StateHas
  <2> HIDE DEF b
  <2> QED BY <2>1, <2>2, IsTable
<1> HIDE DEF b, t
<1>8. /\ Drop(s.claims, K) \in Table(Mac, Claim)
      /\ DOMAIN Drop(s.claims, K) = DOMAIN s.claims \ K
      /\ \A k \in DOMAIN s.claims \ K : Drop(s.claims, K)[k] = s.claims[k]
  <2>1. s.claims \in Table(Mac, Claim)
    BY <1>1 DEF State
  <2> QED BY <2>1, DropHas DEF Drop
<1>9. /\ t \in State /\ t.backbones = b /\ t.claims = Drop(s.claims, K)
      /\ t.up = s.up /\ t.on = s.on /\ t.group = s.group /\ t.num_requests = s.num_requests
  BY <1>1, <1>2, <1>7, <1>8 DEF State
<1>10. \A h : ClaimsOf(t, h) = ClaimsOf(s, h) \ K
  BY <1>8, <1>9 DEF ClaimsOf
<1>11. Summed(t)
  BY <1>5, <1>6, <1>9, <1>10 DEF Summed
<1>12. Waiting(t) = Waiting(s)
  BY <1>5, <1>6, <1>9 DEF Waiting
<1>13. Counted(t)
  BY <1>1, <1>9, <1>12 DEF Counted
<1>14. Owned(t)
  BY <1>1, <1>6, <1>8, <1>9 DEF Owned
<1>15. Sound(t)
  BY <1>9, <1>11, <1>13, <1>14 DEF Sound
<1> QED BY <1>5, <1>6, <1>9, <1>10, <1>15 DEF t

\* One backbone gateway changes, but not its checksum.
LEMMA BackboneChanges ==
  ASSUME NEW s \in State, Summed(s), Owned(s), NEW h \in DOMAIN s.backbones, NEW t \in State,
         t.claims = s.claims, DOMAIN t.backbones = DOMAIN s.backbones,
         t.backbones[h].crc = s.backbones[h].crc,
         \A x \in DOMAIN s.backbones \ {h} : t.backbones[x] = s.backbones[x]
  PROVE  Summed(t) /\ Owned(t)
<1>1. Summed(t)
  BY DEF Summed, ClaimsOf
<1>2. Owned(t)
  BY DEF Owned
<1> QED BY <1>1, <1>2

\* A backbone gateway that was not known has no claims.
LEMMA BackboneAdded ==
  ASSUME NEW s, Sound(s), NEW h \in Gateway, h \notin DOMAIN s.backbones,
         NEW e \in Backbone, e.crc = BLA_CRC_INIT
  PROVE  LET t == [s EXCEPT !.backbones = Put(s.backbones, h, e)]
         IN /\ t \in State /\ Summed(t) /\ Owned(t) /\ t.num_requests = Cardinality(Waiting(s))
            /\ t.claims = s.claims /\ DOMAIN t.backbones = DOMAIN s.backbones \cup {h}
            /\ h \notin Waiting(s)
            /\ Waiting(t) = IF e.request_sent THEN Waiting(s) \cup {h} ELSE Waiting(s)
<1> DEFINE b == Put(s.backbones, h, e)
           t == [s EXCEPT !.backbones = b]
<1>1. s \in State /\ Counted(s) /\ Summed(s) /\ Owned(s)
  BY DEF Sound
<1>2. s.backbones \in Table(Gateway, Backbone)
  BY <1>1 DEF State
<1>3. /\ b \in Table(Gateway, Backbone) /\ DOMAIN b = DOMAIN s.backbones \cup {h} /\ b[h] = e
      /\ \A x \in DOMAIN s.backbones \ {h} : b[x] = s.backbones[x]
  <2>1. b \in Table(Gateway, Backbone)
    BY <1>2, PutHas
  <2> QED BY <2>1 DEF Put
<1>4. \A x \in DOMAIN s.backbones : b[x] = s.backbones[x]
  BY <1>3
<1> HIDE DEF b
<1>5. /\ t \in State /\ t.backbones = b /\ t.claims = s.claims /\ t.num_requests = s.num_requests
  BY <1>1, <1>3 DEF State
<1> HIDE DEF t
<1>6. ClaimsOf(s, h) = {} /\ h \notin Waiting(s)
  BY <1>1 DEF ClaimsOf, Owned, Waiting
<1>7. Summed(t)
  <2>1. \A x : ClaimsOf(t, x) = ClaimsOf(s, x)
    BY <1>5 DEF ClaimsOf
  <2>2. \A x \in DOMAIN b : b[x].crc = ClaimsOf(s, x)
    BY <1>1, <1>3, <1>4, <1>6 DEF Summed, BLA_CRC_INIT
  <2> QED BY <1>5, <2>1, <2>2 DEF Summed
<1>8. Owned(t)
  BY <1>1, <1>3, <1>5 DEF Owned
<1>9. t.num_requests = Cardinality(Waiting(s))
  BY <1>1, <1>5 DEF Counted
<1>10. CASE e.request_sent
  <2>1. Waiting(t) = Waiting(s) \cup {h}
    BY <1>3, <1>4, <1>5, <1>10 DEF Waiting
  <2> QED BY <1>3, <1>5, <1>6, <1>7, <1>8, <1>9, <1>10, <2>1 DEF t, b
<1>11. CASE ~e.request_sent
  <2>1. Waiting(t) = Waiting(s)
    BY <1>3, <1>4, <1>5, <1>6, <1>11 DEF Waiting
  <2> QED BY <1>3, <1>5, <1>6, <1>7, <1>8, <1>9, <1>11, <2>1 DEF t, b
<1> QED BY <1>10, <1>11

\* Counting once more after frames have been sent.
LEMMA CountedAgain ==
  ASSUME NEW s \in State, Summed(s), Owned(s), NEW r, SameBut(s, r), NEW n \in Int,
         n = Cardinality(Waiting(s))
  PROVE  LET t == [r EXCEPT !.num_requests = n]
         IN /\ Sound(t) /\ t.claims = s.claims /\ t.backbones = s.backbones
            /\ t.up = s.up /\ t.on = s.on /\ t.group = s.group
<1> DEFINE t == [r EXCEPT !.num_requests = n]
<1>1. /\ t \in State /\ t.claims = s.claims /\ t.backbones = s.backbones /\ t.num_requests = n
      /\ t.up = s.up /\ t.on = s.on /\ t.group = s.group
  BY DEF SameBut, State
<1> HIDE DEF t
<1>2. Sound(t)
  BY <1>1 DEF Sound, Counted, Summed, Owned, Waiting, ClaimsOf
<1> QED BY <1>1, <1>2 DEF t

LEMMA GetBackbone ==
  ASSUME NEW s, Sound(s), NEW g \in Gateway, NEW h \in Gateway, NEW own \in BOOLEAN
  PROVE  LET t == batadv_bla_get_backbone_gw(s, g, h, own)
         IN /\ Sound(t) /\ t.claims = s.claims
            /\ DOMAIN t.backbones = DOMAIN s.backbones \cup {h}
<1>1. CASE Has(s.backbones, h)
  BY <1>1 DEF batadv_bla_get_backbone_gw, Has
<1>2. CASE ~Has(s.backbones, h)
  <2> DEFINE new == [crc |-> BLA_CRC_INIT, request_sent |-> own,
                     wait_periods |-> IF own THEN BLA_WAIT_PERIODS ELSE 0]
             r == [s EXCEPT !.backbones = Put(s.backbones, h, new)]
             t == batadv_bla_get_backbone_gw(s, g, h, own)
  <2>1. new \in Backbone /\ new.crc = BLA_CRC_INIT /\ new.request_sent = own
    BY BridgeLoopAssumption DEF Backbone, BLA_CRC_INIT
  <2>2. t = IF own THEN [batadv_bla_send_announce(r, g, h) EXCEPT !.num_requests = @ + 1] ELSE r
    BY <1>2 DEF batadv_bla_get_backbone_gw
  <2> HIDE DEF new
  <2>3. /\ r \in State /\ Summed(r) /\ Owned(r) /\ r.num_requests = Cardinality(Waiting(s))
        /\ r.claims = s.claims /\ DOMAIN r.backbones = DOMAIN s.backbones \cup {h}
        /\ h \notin Waiting(s)
        /\ Waiting(r) = IF own THEN Waiting(s) \cup {h} ELSE Waiting(s)
    <3>1. h \notin DOMAIN s.backbones
      BY <1>2 DEF Has
    <3>2. /\ r \in State /\ Summed(r) /\ Owned(r) /\ r.num_requests = Cardinality(Waiting(s))
          /\ r.claims = s.claims /\ DOMAIN r.backbones = DOMAIN s.backbones \cup {h}
          /\ h \notin Waiting(s)
          /\ Waiting(r) = IF new.request_sent THEN Waiting(s) \cup {h} ELSE Waiting(s)
      BY <2>1, <3>1, BackboneAdded
    <3> HIDE DEF r
    <3> QED BY <2>1, <3>2
  <2> HIDE DEF r
  <2>4. IsFiniteSet(Waiting(s)) /\ Cardinality(Waiting(s)) \in Nat
    BY StateHas DEF Sound
  <2>5. CASE own
    <3> DEFINE a == batadv_bla_send_announce(r, g, h)
    <3>1. SameBut(r, a)
      BY <2>3, SendAnnounce
    <3> HIDE DEF a
    <3>2. Cardinality(Waiting(r)) = Cardinality(Waiting(s)) + 1
      BY <2>3, <2>4, <2>5, FS_AddElement
    <3>3. a.num_requests + 1 = Cardinality(Waiting(r)) /\ a.num_requests + 1 \in Int
      BY <2>3, <2>4, <3>1, <3>2 DEF SameBut
    <3>4. t = [a EXCEPT !.num_requests = a.num_requests + 1]
      BY <2>2, <2>5 DEF a
    <3> HIDE DEF t
    <3> DEFINE n == a.num_requests + 1
    <3> HIDE DEF n
    <3>5. Sound(t) /\ t.claims = r.claims /\ t.backbones = r.backbones
      <4>1. n = Cardinality(Waiting(r)) /\ n \in Int /\ t = [a EXCEPT !.num_requests = n]
        BY <3>3, <3>4 DEF n
      <4> QED BY <2>3, <3>1, <4>1, CountedAgain
    <3> QED BY <2>3, <3>5 DEF t
  <2>6. CASE ~own
    <3>1. t = r /\ Waiting(r) = Waiting(s)
      BY <2>2, <2>3, <2>6
    <3> QED BY <2>3, <3>1 DEF Sound, Counted
  <2> QED BY <2>5, <2>6
<1> QED BY <1>1, <1>2

LEMMA UpdateOwn ==
  ASSUME NEW s, Sound(s), NEW g \in Gateway
  PROVE  LET t == batadv_bla_update_own_backbone_gw(s, g)
         IN Sound(t) /\ t.claims = s.claims /\ DOMAIN t.backbones = DOMAIN s.backbones \cup {g}
<1> DEFINE own == TRUE
<1>1. batadv_bla_update_own_backbone_gw(s, g) = batadv_bla_get_backbone_gw(s, g, g, own)
  BY DEF batadv_bla_update_own_backbone_gw
<1>2. own \in BOOLEAN
  OBVIOUS
<1> HIDE DEF own
<1> QED BY <1>1, <1>2, GetBackbone

LEMMA DelClaim ==
  ASSUME NEW s, Sound(s), NEW k
  PROVE  Sound(batadv_bla_del_claim(s, k))
<1> DEFINE K == {k} \cap DOMAIN s.claims
<1>1. K \in SUBSET (DOMAIN s.claims)
  OBVIOUS
<1>2. batadv_bla_del_claim(s, k) = batadv_claim_release(s, K)
  BY DEF batadv_bla_del_claim
<1> HIDE DEF K
<1> QED BY <1>1, <1>2, ClaimsReleased

\* Forgetting the claims of a gateway leaves it an empty checksum, so that resetting it
\* changes nothing.
LEMMA DelBackboneClaims ==
  ASSUME NEW s, Sound(s), NEW h \in DOMAIN s.backbones
  PROVE  LET t == batadv_bla_del_backbone_claims(s, h)
         IN /\ Sound(t) /\ DOMAIN t.backbones = DOMAIN s.backbones
            /\ t.group = s.group
<1> DEFINE r == batadv_claim_release(s, ClaimsOf(s, h))
           t == batadv_bla_del_backbone_claims(s, h)
<1>1. ClaimsOf(s, h) \in SUBSET (DOMAIN s.claims)
  BY DEF ClaimsOf
<1>2. t = [r EXCEPT !.backbones[h].crc = {}]
  BY DEF batadv_bla_del_backbone_claims, BLA_CRC_INIT
<1>3. /\ Sound(r) /\ DOMAIN r.backbones = DOMAIN s.backbones /\ r.group = s.group
      /\ ClaimsOf(r, h) = ClaimsOf(s, h) \ ClaimsOf(s, h)
  BY <1>1, ClaimsReleased
<1> HIDE DEF r, t
<1>4. r \in State /\ h \in DOMAIN r.backbones /\ r.backbones[h].crc = {}
  BY <1>3 DEF Sound, Summed
<1>5. r.backbones[h] \in Backbone /\ r.backbones \in Table(Gateway, Backbone)
  BY <1>4, StateHas DEF State
<1>6. [r.backbones[h] EXCEPT !.crc = {}] = r.backbones[h]
  BY <1>4, <1>5 DEF Backbone
<1>7. [r.backbones EXCEPT ![h] = r.backbones[h]] = r.backbones
  BY <1>5, TableHas
<1>8. t = [r EXCEPT !.backbones = [r.backbones EXCEPT ![h] = [r.backbones[h] EXCEPT !.crc = {}]]]
  BY <1>2
<1>9. t = r
  BY <1>4, <1>6, <1>7, <1>8 DEF State
<1> QED BY <1>3, <1>9 DEF t

\* A claim that moves leaves one checksum and comes into another.
LEMMA AddClaim ==
  ASSUME NEW s, Sound(s), NEW k \in Mac, NEW h \in DOMAIN s.backbones
  PROVE  Sound(batadv_bla_add_claim(s, k, h))
<1> DEFINE known == Has(s.claims, k)
           t == batadv_bla_add_claim(s, k, h)
<1>1. /\ s \in State /\ Counted(s) /\ Summed(s) /\ Owned(s)
      /\ s.claims \in Table(Mac, Claim) /\ s.backbones \in Table(Gateway, Backbone) /\ h \in Gateway
  BY StateHas DEF Sound, State
<1>2. CASE known /\ s.claims[k].gw = h
  <2> DEFINE e == [s.claims[k] EXCEPT !.recent = TRUE]
             c == [s.claims EXCEPT ![k] = e]
  <2>1. t = [s EXCEPT !.claims = c]
    BY <1>2 DEF batadv_bla_add_claim
  <2>2. k \in DOMAIN s.claims /\ s.claims[k] \in Claim
    BY <1>1, <1>2, TableHas DEF Has
  <2>3. e \in Claim /\ e.gw = s.claims[k].gw
    BY <2>2 DEF Claim
  <2> HIDE DEF e
  <2>4. /\ c \in Table(Mac, Claim) /\ DOMAIN c = DOMAIN s.claims
        /\ \A x \in DOMAIN c : c[x].gw = s.claims[x].gw
    BY <1>1, <2>2, <2>3, EntryChanges
  <2> HIDE DEF c
  <2>5. /\ t \in State /\ t.claims = c /\ t.backbones = s.backbones
        /\ t.num_requests = s.num_requests
    BY <1>1, <2>1, <2>4 DEF State
  <2> HIDE DEF t
  <2>6. \A x : ClaimsOf(t, x) = ClaimsOf(s, x)
    BY <2>4, <2>5 DEF ClaimsOf
  <2>7. Counted(t) /\ Summed(t) /\ Owned(t)
    BY <1>1, <2>4, <2>5, <2>6 DEF Counted, Waiting, Summed, Owned
  <2> QED BY <2>5, <2>7 DEF Sound, t
<1>3. CASE ~(known /\ s.claims[k].gw = h)
  <2> DEFINE e == [gw |-> h, recent |-> TRUE]
             c == Put(s.claims, k, e)
             old == s.claims[k].gw
             o == [s.backbones[old] EXCEPT !.crc = Xor(s.backbones[old].crc, k)]
             m == IF known THEN [s.backbones EXCEPT ![old] = o] ELSE s.backbones
             n == [m[h] EXCEPT !.crc = Xor(m[h].crc, k)]
             b == [m EXCEPT ![h] = n]
  <2>1. t = [s EXCEPT !.claims = c, !.backbones = b]
    BY <1>3 DEF batadv_bla_add_claim
  <2>2. e \in Claim
    BY <1>1 DEF Claim
  <2>3. /\ c \in Table(Mac, Claim) /\ DOMAIN c = DOMAIN s.claims \cup {k} /\ c[k].gw = h
        /\ \A x \in DOMAIN s.claims \ {k} : c[x] = s.claims[x]
    <3>1. c \in Table(Mac, Claim)
      BY <1>1, <2>2, PutHas
    <3> QED BY <3>1 DEF Put
  <2> HIDE DEF c, e
  <2>4. /\ m \in Table(Gateway, Backbone) /\ DOMAIN m = DOMAIN s.backbones
        /\ \A x \in DOMAIN m : /\ m[x].request_sent = s.backbones[x].request_sent
                               /\ m[x].crc = ClaimsOf(s, x) \ {k}
    <3>1. CASE known
      <4>1. old \in DOMAIN s.backbones /\ k \in DOMAIN s.claims
        BY <1>1, <3>1 DEF Owned, Has
      <4>2. s.backbones[old] \in Backbone /\ s.backbones[old].crc = ClaimsOf(s, old) /\ k \in ClaimsOf(s, old)
        BY <1>1, <4>1, TableHas DEF Summed, ClaimsOf
      <4>3. Xor(s.backbones[old].crc, k) = ClaimsOf(s, old) \ {k}
        BY <4>2 DEF Xor, SymDiff
      <4>4. /\ o \in Backbone /\ o.request_sent = s.backbones[old].request_sent
            /\ o.crc = ClaimsOf(s, old) \ {k}
        <5>1. ClaimsOf(s, old) \ {k} \in SUBSET Mac
          BY <1>1, StateHas
        <5> QED BY <4>2, <4>3, <5>1 DEF Backbone
      <4> HIDE DEF o
      <4>5. m = [s.backbones EXCEPT ![old] = o]
        BY <3>1
      <4> HIDE DEF m
      <4>6. /\ m \in Table(Gateway, Backbone) /\ DOMAIN m = DOMAIN s.backbones /\ m[old] = o
            /\ \A x \in DOMAIN s.backbones \ {old} : m[x] = s.backbones[x]
        BY <1>1, <4>1, <4>4, <4>5, EntryChanges
      <4>7. \A x \in DOMAIN s.backbones \ {old} : ClaimsOf(s, x) = ClaimsOf(s, x) \ {k}
        BY DEF ClaimsOf
      <4>8. \A x \in DOMAIN s.backbones \ {old} : s.backbones[x].crc = ClaimsOf(s, x) \ {k}
        BY <1>1, <4>7 DEF Summed
      <4> QED BY <4>4, <4>6, <4>8
    <3>2. CASE ~known
      <4>1. \A x : ClaimsOf(s, x) = ClaimsOf(s, x) \ {k}
        BY <3>2 DEF ClaimsOf, Has
      <4> QED BY <1>1, <3>2, <4>1 DEF Summed
    <3> QED BY <3>1, <3>2
  <2> HIDE DEF m, o
  <2>5. m[h] \in Backbone /\ m[h].crc = ClaimsOf(s, h) \ {k} /\ h \in DOMAIN m
    BY <2>4, TableHas
  <2>6. Xor(m[h].crc, k) = ClaimsOf(s, h) \cup {k}
    BY <2>5 DEF Xor, SymDiff
  <2>7. /\ n \in Backbone /\ n.request_sent = m[h].request_sent
        /\ n.crc = ClaimsOf(s, h) \cup {k}
    <3>1. ClaimsOf(s, h) \cup {k} \in SUBSET Mac
      BY <1>1, StateHas
    <3> QED BY <2>5, <2>6, <3>1 DEF Backbone
  <2> HIDE DEF n
  <2>8. /\ b \in Table(Gateway, Backbone) /\ DOMAIN b = DOMAIN m /\ b[h] = n
        /\ \A x \in DOMAIN m \ {h} : b[x] = m[x]
    BY <2>4, <2>5, <2>7, EntryChanges
  <2> HIDE DEF b
  <2>9. t \in State /\ t.claims = c /\ t.backbones = b /\ t.num_requests = s.num_requests
    BY <1>1, <2>1, <2>3, <2>8 DEF State
  <2> HIDE DEF t
  <2>10. ClaimsOf(t, h) = ClaimsOf(s, h) \cup {k}
    BY <2>3, <2>9 DEF ClaimsOf
  <2>11. \A x \in DOMAIN b \ {h} : ClaimsOf(t, x) = ClaimsOf(s, x) \ {k}
    BY <2>3, <2>9 DEF ClaimsOf
  <2>12. Summed(t)
    <3>1. b[h].crc = ClaimsOf(t, h)
      BY <2>7, <2>8, <2>10
    <3>2. ASSUME NEW x \in DOMAIN b \ {h} PROVE b[x].crc = ClaimsOf(t, x)
      BY <2>4, <2>8, <2>11
    <3> QED BY <2>9, <3>1, <3>2 DEF Summed
  <2>13. Owned(t)
    BY <1>1, <2>3, <2>4, <2>8, <2>9 DEF Owned
  <2>14. \A x \in DOMAIN b : b[x].request_sent = s.backbones[x].request_sent
    BY <2>4, <2>7, <2>8
  <2>15. Waiting(t) = Waiting(s)
    BY <2>4, <2>8, <2>9, <2>14 DEF Waiting
  <2>16. Counted(t)
    BY <1>1, <2>9, <2>15 DEF Counted
  <2> QED BY <2>9, <2>12, <2>13, <2>16 DEF Sound, t
<1> QED BY <1>2, <1>3

-----------------------------------------------------------------------------
(* Requests. *)

\* A request is sent for the first time.
LEMMA RequestCounts ==
  ASSUME NEW s, Sound(s), NEW h \in DOMAIN s.backbones, ~s.backbones[h].request_sent
  PROVE  Sound([s EXCEPT !.num_requests = @ + 1, !.backbones[h].request_sent = TRUE])
<1> DEFINE e == [s.backbones[h] EXCEPT !.request_sent = TRUE]
           n == s.num_requests + 1
           b == [s.backbones EXCEPT ![h] = e]
           t == [s EXCEPT !.backbones = b, !.num_requests = n]
<1>1. /\ s \in State /\ Counted(s) /\ Summed(s) /\ Owned(s) /\ s.backbones[h] \in Backbone
      /\ IsFiniteSet(Waiting(s)) /\ Cardinality(Waiting(s)) \in Nat
  BY StateHas DEF Sound
<1>2. e \in Backbone /\ e.crc = s.backbones[h].crc /\ e.request_sent = TRUE
  BY <1>1 DEF Backbone
<1>3. n = Cardinality(Waiting(s)) + 1 /\ n \in Int
  BY <1>1 DEF Counted
<1>4. h \notin Waiting(s)
  BY DEF Waiting
<1>5. [s EXCEPT !.num_requests = @ + 1, !.backbones[h].request_sent = TRUE] = t
  BY <1>1 DEF State
<1> HIDE DEF e, n
<1>6. /\ b \in Table(Gateway, Backbone) /\ DOMAIN b = DOMAIN s.backbones /\ b[h] = e
      /\ \A x \in DOMAIN s.backbones \ {h} : b[x] = s.backbones[x]
  <2>1. s.backbones \in Table(Gateway, Backbone)
    BY <1>1 DEF State
  <2> QED BY <1>2, <2>1, EntryChanges
<1> HIDE DEF b
<1>7. /\ t \in State /\ t.backbones = b /\ t.claims = s.claims /\ t.num_requests = n
  BY <1>1, <1>3, <1>6 DEF State
<1> HIDE DEF t
<1>8. Summed(t) /\ Owned(t) /\ Waiting(t) = Waiting(s) \cup {h}
  <2>1. Summed(t) /\ Owned(t)
    BY <1>1, <1>2, <1>6, <1>7, BackboneChanges
  <2>2. Waiting(t) = Waiting(s) \cup {h}
    BY <1>2, <1>6, <1>7 DEF Waiting
  <2> QED BY <2>1, <2>2
<1>9. Cardinality(Waiting(t)) = Cardinality(Waiting(s)) + 1
  BY <1>1, <1>4, <1>8, FS_AddElement
<1>10. Counted(t)
  BY <1>3, <1>7, <1>9 DEF Counted
<1> QED BY <1>5, <1>7, <1>8, <1>10 DEF Sound

\* A request has been answered.
LEMMA RequestDone ==
  ASSUME NEW s, Sound(s), NEW h \in DOMAIN s.backbones, s.backbones[h].request_sent
  PROVE  Sound([s EXCEPT !.num_requests = @ - 1, !.backbones[h].request_sent = FALSE])
<1> DEFINE e == [s.backbones[h] EXCEPT !.request_sent = FALSE]
           n == s.num_requests - 1
           b == [s.backbones EXCEPT ![h] = e]
           t == [s EXCEPT !.backbones = b, !.num_requests = n]
<1>1. /\ s \in State /\ Counted(s) /\ Summed(s) /\ Owned(s) /\ s.backbones[h] \in Backbone
      /\ IsFiniteSet(Waiting(s)) /\ Cardinality(Waiting(s)) \in Nat
  BY StateHas DEF Sound
<1>2. e \in Backbone /\ e.crc = s.backbones[h].crc /\ e.request_sent = FALSE
  BY <1>1 DEF Backbone
<1>3. n = Cardinality(Waiting(s)) - 1 /\ n \in Int
  BY <1>1 DEF Counted
<1>4. h \in Waiting(s)
  BY DEF Waiting
<1>5. [s EXCEPT !.num_requests = @ - 1, !.backbones[h].request_sent = FALSE] = t
  BY <1>1 DEF State
<1> HIDE DEF e, n
<1>6. /\ b \in Table(Gateway, Backbone) /\ DOMAIN b = DOMAIN s.backbones /\ b[h] = e
      /\ \A x \in DOMAIN s.backbones \ {h} : b[x] = s.backbones[x]
  <2>1. s.backbones \in Table(Gateway, Backbone)
    BY <1>1 DEF State
  <2> QED BY <1>2, <2>1, EntryChanges
<1> HIDE DEF b
<1>7. /\ t \in State /\ t.backbones = b /\ t.claims = s.claims /\ t.num_requests = n
  BY <1>1, <1>3, <1>6 DEF State
<1> HIDE DEF t
<1>8. Summed(t) /\ Owned(t) /\ Waiting(t) = Waiting(s) \ {h}
  <2>1. Summed(t) /\ Owned(t)
    BY <1>1, <1>2, <1>6, <1>7, BackboneChanges
  <2>2. Waiting(t) = Waiting(s) \ {h}
    BY <1>2, <1>6, <1>7 DEF Waiting
  <2> QED BY <2>1, <2>2
<1>9. Cardinality(Waiting(t)) = Cardinality(Waiting(s)) - 1
  BY <1>1, <1>4, <1>8, FS_RemoveElement
<1>10. Counted(t)
  BY <1>3, <1>7, <1>9 DEF Counted
<1> QED BY <1>5, <1>7, <1>8, <1>10 DEF Sound

LEMMA SendRequest ==
  ASSUME NEW s, Sound(s), NEW g \in Gateway, NEW h \in DOMAIN s.backbones
  PROVE  Sound(batadv_bla_send_request(s, g, h))
<1> DEFINE d == batadv_bla_del_backbone_claims(s, h)
           r == batadv_bla_send_claim(d, g, "REQUEST", h)
<1>1. Sound(d) /\ DOMAIN d.backbones = DOMAIN s.backbones
  BY DelBackboneClaims
<1>2. h \in Gateway
  BY StateHas DEF Sound
<1> HIDE DEF d
<1>3. Frame(d, g, "REQUEST", h) \in Frames /\ d \in State
  BY <1>1, <1>2, FrameTypes DEF Sound
<1>4. SameBut(d, r)
  BY <1>3, SendClaim
<1>5. batadv_bla_send_request(s, g, h)
        = IF r.backbones[h].request_sent THEN r
          ELSE [r EXCEPT !.num_requests = @ + 1, !.backbones[h].request_sent = TRUE]
  BY DEF batadv_bla_send_request, d
<1> HIDE DEF r
<1>6. Sound(r) /\ h \in DOMAIN r.backbones
  BY <1>1, <1>4, SoundSameBut DEF SameBut
<1>7. CASE r.backbones[h].request_sent
  BY <1>5, <1>6, <1>7
<1>8. CASE ~r.backbones[h].request_sent
  <2>1. Sound([r EXCEPT !.num_requests = @ + 1, !.backbones[h].request_sent = TRUE])
    BY <1>6, <1>8, RequestCounts
  <2> QED BY <1>5, <1>8, <2>1
<1> QED BY <1>7, <1>8

LEMMA AnswerRequest ==
  ASSUME NEW s, Sound(s), NEW g \in Gateway
  PROVE  Sound(batadv_bla_answer_request(s, g))
<1> DEFINE K == ClaimsOf(s, g)
           type == "CLAIM"
           r == SendEach(s, g, type, K)
<1>1. s \in State /\ K \in SUBSET Mac /\ type \in {"CLAIM", "UNCLAIM"}
  BY StateHas DEF Sound
<1>2. batadv_bla_answer_request(s, g)
        = IF Has(s.backbones, g) THEN batadv_bla_send_announce(r, g, g) ELSE s
  BY DEF batadv_bla_answer_request
<1> HIDE DEF K, type
<1>3. SameBut(s, r)
  BY <1>1, SendAll
<1> HIDE DEF r
<1>4. Sound(r) /\ r \in State /\ r.backbones = s.backbones
  BY <1>3, SoundSameBut DEF SameBut
<1>5. CASE Has(s.backbones, g)
  <2>1. SameBut(r, batadv_bla_send_announce(r, g, g))
    BY <1>4, <1>5, SendAnnounce DEF Has
  <2> QED BY <1>2, <1>4, <1>5, <2>1, SoundSameBut
<1>6. CASE ~Has(s.backbones, g)
  BY <1>2, <1>4, <1>6
<1> QED BY <1>5, <1>6

-----------------------------------------------------------------------------
(* Handlers. *)

LEMMA GetOther ==
  ASSUME NEW s, Sound(s), NEW g \in Gateway, NEW h \in Gateway
  PROVE  LET t == batadv_bla_get_backbone_gw(s, g, h, FALSE)
         IN Sound(t) /\ h \in DOMAIN t.backbones
<1> DEFINE own == FALSE
<1>1. own \in BOOLEAN
  OBVIOUS
<1> HIDE DEF own
<1>2. LET t == batadv_bla_get_backbone_gw(s, g, h, own) IN Sound(t) /\ h \in DOMAIN t.backbones
  BY <1>1, GetBackbone
<1> QED BY <1>2 DEF own

LEMMA HandleAnnounce ==
  ASSUME NEW s, Sound(s), NEW g \in Gateway, NEW h \in Gateway, NEW crc
  PROVE  Sound(batadv_handle_announce(s, g, h, crc))
<1> DEFINE r == batadv_bla_get_backbone_gw(s, g, h, FALSE)
<1>1. Sound(r) /\ h \in DOMAIN r.backbones
  BY GetOther
<1>2. batadv_handle_announce(s, g, h, crc)
        = IF r.backbones[h].crc # crc THEN batadv_bla_send_request(r, g, h)
          ELSE IF r.backbones[h].request_sent
          THEN [r EXCEPT !.num_requests = @ - 1, !.backbones[h].request_sent = FALSE]
          ELSE r
  BY DEF batadv_handle_announce
<1> HIDE DEF r
<1>3. CASE r.backbones[h].crc # crc
  BY <1>1, <1>2, <1>3, SendRequest
<1>4. CASE r.backbones[h].crc = crc /\ r.backbones[h].request_sent
  <2>1. Sound([r EXCEPT !.num_requests = @ - 1, !.backbones[h].request_sent = FALSE])
    BY <1>1, <1>4, RequestDone
  <2> QED BY <1>2, <1>4, <2>1
<1>5. CASE r.backbones[h].crc = crc /\ ~r.backbones[h].request_sent
  BY <1>1, <1>2, <1>5
<1> QED BY <1>3, <1>4, <1>5

LEMMA HandleRequest ==
  ASSUME NEW s, Sound(s), NEW g \in Gateway, NEW h
  PROVE  Sound(batadv_handle_request(s, g, h))
BY AnswerRequest DEF batadv_handle_request

LEMMA HandleUnclaim ==
  ASSUME NEW s, Sound(s), NEW g \in Gateway, NEW h, NEW k \in Mac, NEW primary \in BOOLEAN
  PROVE  Sound(batadv_handle_unclaim(s, g, h, k, primary))
<1> DEFINE r == IF primary /\ h = g THEN batadv_bla_send_claim(s, g, "UNCLAIM", k) ELSE s
<1>1. SameBut(s, batadv_bla_send_claim(s, g, "UNCLAIM", k))
  BY FrameTypes, SendClaim DEF Sound
<1>2. Sound(r)
  BY <1>1, SoundSameBut
<1>3. batadv_handle_unclaim(s, g, h, k, primary)
        = IF Has(r.backbones, h) THEN batadv_bla_del_claim(r, k) ELSE r
  BY DEF batadv_handle_unclaim
<1> HIDE DEF r
<1> QED BY <1>2, <1>3, DelClaim

LEMMA HandleClaim ==
  ASSUME NEW s, Sound(s), NEW g \in Gateway, NEW h \in Gateway, NEW k \in Mac
  PROVE  Sound(batadv_handle_claim(s, g, h, k))
<1> DEFINE b == batadv_bla_get_backbone_gw(s, g, h, FALSE)
           r == batadv_bla_add_claim(b, k, h)
<1>1. Sound(b) /\ h \in DOMAIN b.backbones
  BY GetOther
<1>2. batadv_handle_claim(s, g, h, k)
        = IF h = g THEN batadv_bla_send_claim(r, g, "CLAIM", k) ELSE r
  BY DEF batadv_handle_claim
<1> HIDE DEF b
<1>3. Sound(r)
  BY <1>1, AddClaim
<1> HIDE DEF r
<1>4. SameBut(r, batadv_bla_send_claim(r, g, "CLAIM", k))
  BY <1>3, FrameTypes, SendClaim DEF Sound
<1> QED BY <1>2, <1>3, <1>4, SoundSameBut

LEMMA ProcessClaim ==
  ASSUME NEW s, Sound(s), NEW g \in Gateway, NEW f \in Frames
  PROVE  Sound(batadv_bla_process_claim(s, g, f))
<1> DEFINE t == [s EXCEPT !.group = IF f.group > @ THEN f.group ELSE @]
           r == batadv_bla_update_own_backbone_gw(t, g)
<1>1. f.group \in Nat /\ f.src \in Gateway
  BY DEF Frames, ClaimFrame, AnnounceFrame, RequestFrame
<1>2. t \in State /\ t.claims = s.claims /\ t.backbones = s.backbones /\ t.num_requests = s.num_requests
  BY <1>1 DEF Sound, State
<1> HIDE DEF t
<1>3. Sound(t)
  BY <1>2, SoundTables
<1>4. Sound(r)
  BY <1>3, UpdateOwn
<1> HIDE DEF r
<1>5. CASE ~batadv_check_claim_group(s, f)
  BY <1>5 DEF batadv_bla_process_claim
<1>6. CASE batadv_check_claim_group(s, f)
  <2>1. CASE f.type = "CLAIM"
    <3>1. f.arg \in Mac
      BY <2>1 DEF Frames, ClaimFrame, AnnounceFrame, RequestFrame
    <3>2. batadv_bla_process_claim(s, g, f) = batadv_handle_claim(r, g, f.src, f.arg)
      BY <1>6, <2>1 DEF batadv_bla_process_claim, r, t
    <3> QED BY <1>1, <1>4, <3>1, <3>2, HandleClaim
  <2>2. CASE f.type = "UNCLAIM"
    <3> DEFINE primary == TRUE
    <3>1. f.arg \in Mac /\ primary \in BOOLEAN
      BY <2>2 DEF Frames, ClaimFrame, AnnounceFrame, RequestFrame
    <3>2. batadv_bla_process_claim(s, g, f) = batadv_handle_unclaim(r, g, f.src, f.arg, primary)
      BY <1>6, <2>2 DEF batadv_bla_process_claim, r, t
    <3> HIDE DEF primary
    <3> QED BY <1>1, <1>4, <3>1, <3>2, HandleUnclaim
  <2>3. CASE f.type = "ANNOUNCE"
    <3>1. batadv_bla_process_claim(s, g, f) = batadv_handle_announce(r, g, f.src, f.arg)
      BY <1>6, <2>3 DEF batadv_bla_process_claim, r, t
    <3> QED BY <1>1, <1>4, <3>1, HandleAnnounce
  <2>4. CASE f.type = "REQUEST"
    <3>1. batadv_bla_process_claim(s, g, f) = batadv_handle_request(r, g, f.arg)
      BY <1>6, <2>4 DEF batadv_bla_process_claim, r, t
    <3> QED BY <1>4, <3>1, HandleRequest
  <2>5. f.type \in {"CLAIM", "UNCLAIM", "ANNOUNCE", "REQUEST"}
    BY DEF Frames, ClaimFrame, AnnounceFrame, RequestFrame
  <2> QED BY <2>1, <2>2, <2>3, <2>4, <2>5
<1> QED BY <1>5, <1>6

-----------------------------------------------------------------------------
(* Time-outs. *)

LEMMA PurgeClaims ==
  ASSUME NEW s, Sound(s), NEW g \in Gateway, NEW K \in SUBSET (DOMAIN s.claims), NEW primary \in BOOLEAN
  PROVE  LET t == batadv_bla_purge_claims(s, g, K, primary)
         IN Sound(t) /\ DOMAIN t.backbones = DOMAIN s.backbones
<1> DEFINE type == "UNCLAIM"
           r == IF primary THEN SendEach(s, g, type, K \cap ClaimsOf(s, g)) ELSE s
           J == {k \in K : Has(s.backbones, s.claims[k].gw)}
           t == batadv_bla_purge_claims(s, g, K, primary)
<1>1. t = batadv_claim_release(r, J)
  BY DEF batadv_bla_purge_claims
<1>2. s \in State /\ K \cap ClaimsOf(s, g) \in SUBSET Mac /\ type \in {"CLAIM", "UNCLAIM"}
  BY StateHas DEF Sound
<1> HIDE DEF type
<1>3. SameBut(s, SendEach(s, g, type, K \cap ClaimsOf(s, g)))
  BY <1>2, SendAll
<1>4. Sound(r) /\ r.claims = s.claims /\ r.backbones = s.backbones
  <2>1. CASE primary
    BY <1>3, <2>1, SoundSameBut DEF SameBut
  <2>2. CASE ~primary
    BY <2>2
  <2> QED BY <2>1, <2>2
<1>5. J \in SUBSET (DOMAIN s.claims)
  OBVIOUS
<1> HIDE DEF r, J, t
<1>6. Sound(batadv_claim_release(r, J)) /\ DOMAIN batadv_claim_release(r, J).backbones = DOMAIN r.backbones
  BY <1>4, <1>5, ClaimsReleased
<1> QED BY <1>1, <1>4, <1>6 DEF t

\* Gateways go with their claims and with what was waited for from them.
LEMMA PurgeBackbones ==
  ASSUME NEW s, Sound(s), NEW H \in SUBSET (DOMAIN s.backbones)
  PROVE  Sound(batadv_bla_purge_backbone_gw(s, H))
<1> DEFINE K == {k \in DOMAIN s.claims : s.claims[k].gw \in H}
           r == batadv_claim_release(s, K)
           W == {h \in H : s.backbones[h].request_sent}
           n == r.num_requests - Cardinality(W)
           b == Drop(r.backbones, H)
           t == batadv_bla_purge_backbone_gw(s, H)
<1>1. t = [r EXCEPT !.backbones = b, !.num_requests = n]
  BY DEF batadv_bla_purge_backbone_gw
<1>2. K \in SUBSET (DOMAIN s.claims) /\ \A k : k \in K <=> k \in DOMAIN s.claims /\ s.claims[k].gw \in H
  OBVIOUS
<1>3. W = Waiting(s) \cap H
  BY DEF Waiting
<1> HIDE DEF K, W
<1>4. /\ Sound(r) /\ DOMAIN r.backbones = DOMAIN s.backbones /\ r.num_requests = s.num_requests
      /\ \A h \in DOMAIN s.backbones : r.backbones[h].request_sent = s.backbones[h].request_sent
      /\ r.claims = Drop(s.claims, K)
  BY <1>2, ClaimsReleased
<1> HIDE DEF r
<1>5. /\ r \in State /\ Counted(r) /\ Summed(r) /\ Owned(r)
      /\ r.backbones \in Table(Gateway, Backbone)
      /\ IsFiniteSet(Waiting(r)) /\ Cardinality(Waiting(r)) \in Nat
  BY <1>4, StateHas DEF Sound, State
<1>6. Waiting(r) = Waiting(s)
  BY <1>4 DEF Waiting
<1>7. b \in Table(Gateway, Backbone)
  BY <1>5, DropHas
<1>8. DOMAIN b = DOMAIN s.backbones \ H /\ \A h \in DOMAIN s.backbones \ H : b[h] = r.backbones[h]
  BY <1>4 DEF Drop
<1> HIDE DEF b
<1>9. IsFiniteSet(W) /\ Cardinality(W) \in Nat
  <2>1. IsFiniteSet(W)
    BY <1>3, <1>5, <1>6, FS_Intersection
  <2> QED BY <2>1, FS_CardinalityType
<1>10. n \in Int /\ n = Cardinality(Waiting(s) \ H)
  <2>1. Cardinality(Waiting(s) \ H) = Cardinality(Waiting(s)) - Cardinality(Waiting(s) \cap H)
    BY <1>5, <1>6, FS_Difference
  <2>2. r.num_requests = Cardinality(Waiting(s))
    BY <1>5, <1>6 DEF Counted
  <2> QED BY <1>3, <1>5, <1>6, <1>9, <2>1, <2>2
<1> HIDE DEF n
<1>11. t \in State /\ t.claims = r.claims /\ t.backbones = b /\ t.num_requests = n
  BY <1>1, <1>5, <1>7, <1>10 DEF State
<1> HIDE DEF t
<1>12. Waiting(t) = Waiting(s) \ H
  <2>1. Waiting(t) = {h \in DOMAIN s.backbones \ H : r.backbones[h].request_sent}
    BY <1>8, <1>11 DEF Waiting
  <2>2. Waiting(r) = {h \in DOMAIN s.backbones : r.backbones[h].request_sent}
    BY <1>4 DEF Waiting
  <2> QED BY <1>6, <2>1, <2>2
<1>13. Counted(t)
  BY <1>10, <1>11, <1>12 DEF Counted
<1>14. \A h : ClaimsOf(t, h) = ClaimsOf(r, h)
  BY <1>11 DEF ClaimsOf
<1>15. Summed(t)
  BY <1>4, <1>5, <1>8, <1>11, <1>14 DEF Summed
<1>16. \A k \in DOMAIN r.claims : k \in DOMAIN s.claims /\ k \notin K /\ r.claims[k] = s.claims[k]
  BY <1>4 DEF Drop
<1>17. Owned(t)
  BY <1>2, <1>4, <1>5, <1>8, <1>11, <1>16 DEF Owned
<1> QED BY <1>11, <1>13, <1>15, <1>17 DEF Sound, t

\* One period less to wait.
LEMMA WaitsOn ==
  ASSUME NEW s, Sound(s), NEW h \in DOMAIN s.backbones, NEW w \in Nat
  PROVE  LET t == [s EXCEPT !.backbones[h].wait_periods = w]
         IN /\ Sound(t) /\ h \in DOMAIN t.backbones
            /\ t.backbones[h].request_sent = s.backbones[h].request_sent
<1> DEFINE e == [s.backbones[h] EXCEPT !.wait_periods = w]
           b == [s.backbones EXCEPT ![h] = e]
           t == [s EXCEPT !.backbones[h].wait_periods = w]
<1>1. /\ s \in State /\ Counted(s) /\ Summed(s) /\ Owned(s) /\ s.backbones[h] \in Backbone
  BY StateHas DEF Sound
<1>2. /\ e \in Backbone /\ e.crc = s.backbones[h].crc
      /\ e.request_sent = s.backbones[h].request_sent
  BY <1>1 DEF Backbone
<1>3. t = [s EXCEPT !.backbones = b]
  BY <1>1 DEF State
<1> HIDE DEF e
<1>4. /\ b \in Table(Gateway, Backbone) /\ DOMAIN b = DOMAIN s.backbones /\ b[h] = e
      /\ \A x \in DOMAIN s.backbones \ {h} : b[x] = s.backbones[x]
  <2>1. s.backbones \in Table(Gateway, Backbone)
    BY <1>1 DEF State
  <2> QED BY <1>2, <2>1, EntryChanges
<1> HIDE DEF b
<1>5. /\ t \in State /\ t.backbones = b /\ t.claims = s.claims /\ t.num_requests = s.num_requests
  BY <1>1, <1>3, <1>4 DEF State
<1> HIDE DEF t
<1>6. Summed(t) /\ Owned(t)
  BY <1>1, <1>2, <1>4, <1>5, BackboneChanges
<1>7. \A x \in DOMAIN s.backbones : t.backbones[x].request_sent = s.backbones[x].request_sent
  BY <1>2, <1>4, <1>5
<1>8. Waiting(t) = Waiting(s)
  BY <1>4, <1>5, <1>7 DEF Waiting
<1>9. Counted(t)
  BY <1>1, <1>5, <1>8 DEF Counted
<1> QED BY <1>2, <1>4, <1>5, <1>6, <1>9 DEF Sound, t

LEMMA AnnounceSound ==
  ASSUME NEW s, Sound(s), NEW g \in Gateway
  PROVE  Sound(Announce(s, g))
<1>1. CASE ~s.on \/ ~Has(s.backbones, g)
  BY <1>1 DEF Announce
<1>2. CASE s.on /\ Has(s.backbones, g)
  <2> DEFINE r == batadv_bla_send_announce(s, g, g)
             less == [r EXCEPT !.backbones[g].wait_periods = r.backbones[g].wait_periods - 1]
             none == [r EXCEPT !.backbones[g].wait_periods = 0]
             done == [none EXCEPT !.num_requests = @ - 1, !.backbones[g].request_sent = FALSE]
  <2>1. g \in DOMAIN s.backbones /\ s \in State
    BY <1>2 DEF Has, Sound
  <2>2. SameBut(s, r)
    BY <2>1, SendAnnounce
  <2>3. Announce(s, g) = IF ~s.backbones[g].request_sent THEN r
                         ELSE IF s.backbones[g].wait_periods > 1
                         THEN [r EXCEPT !.backbones[g].wait_periods = @ - 1]
                         ELSE [r EXCEPT !.backbones[g].wait_periods = 0, !.backbones[g].request_sent = FALSE,
                                        !.num_requests = @ - 1]
    BY <1>2 DEF Announce
  <2> HIDE DEF r
  <2>4. Sound(r) /\ g \in DOMAIN r.backbones /\ r.backbones = s.backbones /\ r \in State
    BY <2>1, <2>2, SoundSameBut DEF SameBut
  <2>5. r.backbones[g] \in Backbone
    BY <2>4, StateHas
  <2>6. CASE ~s.backbones[g].request_sent
    BY <2>3, <2>4, <2>6
  <2>7. CASE s.backbones[g].request_sent /\ s.backbones[g].wait_periods > 1
    <3>1. Announce(s, g) = less
      BY <2>3, <2>7
    <3> DEFINE w == r.backbones[g].wait_periods - 1
    <3>2. w \in Nat
      BY <2>4, <2>5, <2>7 DEF Backbone
    <3> HIDE DEF w
    <3>3. Sound([r EXCEPT !.backbones[g].wait_periods = w])
      BY <2>4, <3>2, WaitsOn
    <3> QED BY <3>1, <3>3 DEF w
  <2>8. CASE s.backbones[g].request_sent /\ ~(s.backbones[g].wait_periods > 1)
    <3>1. Announce(s, g) = [r EXCEPT !.backbones[g].wait_periods = 0, !.backbones[g].request_sent = FALSE,
                                     !.num_requests = @ - 1]
      BY <2>3, <2>8
    <3>2. Announce(s, g) = done
      BY <2>4, <3>1 DEF State
    <3>3. /\ Sound(none) /\ g \in DOMAIN none.backbones
          /\ none.backbones[g].request_sent = r.backbones[g].request_sent
      BY <2>4, WaitsOn
    <3> HIDE DEF none
    <3>4. Sound(done)
      BY <2>4, <2>8, <3>3, RequestDone
    <3> QED BY <3>2, <3>4
  <2> QED BY <2>6, <2>7, <2>8
<1> QED BY <1>1, <1>2

-----------------------------------------------------------------------------
(* Steps. *)

Queues == [Gateway -> [Gateway -> Seq(Frames)]]

LEMMA NoFramesType == NoFrames \in [Gateway -> Seq(Frames)]
BY DEF NoFrames

LEMMA InitSound ==
  ASSUME NEW g \in Gateway, NEW up \in BOOLEAN, NEW o \in [Gateway -> Seq(Frames)]
  PROVE  Sound([batadv_bla_init(g, up) EXCEPT !.out = o]) /\ Sound(batadv_bla_init(g, up))
<1> DEFINE s == batadv_bla_init(g, up)
           t == [s EXCEPT !.out = o]
<1>1. NoEntries \in Table(Mac, Claim) /\ NoEntries \in Table(Gateway, Backbone) /\ DOMAIN NoEntries = {}
  BY NoEntriesTable
<1>2. /\ s \in State /\ s.claims = NoEntries /\ s.backbones = NoEntries /\ s.num_requests = 0
  BY <1>1, NoFramesType, BridgeLoopAssumption DEF batadv_bla_init, State
<1> HIDE DEF s
<1>3. Waiting(s) = {} /\ \A h : ClaimsOf(s, h) = {}
  BY <1>1, <1>2 DEF Waiting, ClaimsOf
<1>4. Counted(s)
  BY <1>2, <1>3, FS_EmptySet DEF Counted
<1>5. Summed(s) /\ Owned(s)
  BY <1>1, <1>2 DEF Summed, Owned
<1>6. Sound(s)
  BY <1>2, <1>4, <1>5 DEF Sound
<1>7. SameBut(s, t)
  BY <1>2, OutChanges
<1> HIDE DEF t
<1>8. Sound(t)
  BY <1>6, <1>7, SoundSameBut
<1> QED BY <1>6, <1>8 DEF s, t

\* A gateway comes into a sound state.
LEMMA BecomesSound ==
  ASSUME BlaInv, NEW g \in Gateway, NEW s, Sound(s), NEW q \in Queues, Became(g, s, q)
  PROVE  BlaInv'
<1> DEFINE t == [s EXCEPT !.out = NoFrames]
           l == [h \in Gateway |-> IF gw[h].up THEN q[g][h] \o s.out[h] ELSE <<>>]
<1>1. gw' = [gw EXCEPT ![g] = t] /\ lan' = [q EXCEPT ![g] = l]
  BY DEF Became
<1>2. SameBut(s, t)
  BY NoFramesType, OutChanges DEF Sound
<1>3. s.out \in [Gateway -> Seq(Frames)] /\ q[g] \in [Gateway -> Seq(Frames)]
  BY DEF Sound, State, Queues
<1>4. \A h \in Gateway : q[g][h] \o s.out[h] \in Seq(Frames) /\ <<>> \in Seq(Frames)
  BY <1>3
<1>5. l \in [Gateway -> Seq(Frames)]
  BY <1>4
<1> HIDE DEF t, l
<1>6. Sound(t) /\ t \in State
  BY <1>2, SoundSameBut DEF Sound
<1>7. gw' \in [Gateway -> State] /\ \A h \in Gateway : gw'[h] = IF h = g THEN t ELSE gw[h]
  BY <1>1, <1>6 DEF BlaInv
<1>8. \A h \in Gateway : Sound(gw'[h])
  BY <1>6, <1>7 DEF BlaInv
<1>9. lan' \in Queues
  BY <1>1, <1>5 DEF Queues
<1> QED BY <1>7, <1>8, <1>9 DEF BlaInv, Queues

\* A gateway is replaced, and what is on its way to it gets lost.
LEMMA RestartsSound ==
  ASSUME BlaInv, NEW g \in Gateway, NEW up \in BOOLEAN,
         gw' = [gw EXCEPT ![g] = batadv_bla_init(g, up)], lan' = Unheard(g)
  PROVE  BlaInv'
<1> DEFINE t == batadv_bla_init(g, up)
<1>1. Sound(t) /\ t \in State
  BY InitSound, NoFramesType DEF Sound
<1> HIDE DEF t
<1>2. gw' = [gw EXCEPT ![g] = t]
  BY DEF t
<1>3. gw' \in [Gateway -> State] /\ \A h \in Gateway : gw'[h] = IF h = g THEN t ELSE gw[h]
  BY <1>1, <1>2 DEF BlaInv
<1>4. \A h \in Gateway : Sound(gw'[h])
  BY <1>1, <1>3 DEF BlaInv
<1>5. lan' \in [Gateway -> [Gateway -> Seq(Frames)]]
  BY DEF Unheard, BlaInv
<1> QED BY <1>3, <1>4, <1>5 DEF BlaInv

LEMMA UnheardQueues ==
  ASSUME BlaInv, NEW g \in Gateway
  PROVE  Unheard(g) \in Queues /\ lan \in Queues
BY DEF Unheard, BlaInv, Queues

LEMMA StepReceive ==
  ASSUME BlaInv, NEW g \in Gateway, NEW h \in Gateway, ReceiveFrame(g, h)
  PROVE  BlaInv'
<1> DEFINE s == IF gw[g].on THEN batadv_bla_process_claim(gw[g], g, Head(lan[h][g]))
                ELSE batadv_bla_update_own_backbone_gw(gw[g], g)
           q == [lan EXCEPT ![h][g] = Tail(@)]
<1>1. Became(g, s, q) /\ lan[h][g] # <<>>
  BY DEF ReceiveFrame
<1>2. Sound(gw[g]) /\ lan \in [Gateway -> [Gateway -> Seq(Frames)]] /\ lan[h][g] \in Seq(Frames)
  BY DEF BlaInv
<1>3. Head(lan[h][g]) \in Frames /\ Tail(lan[h][g]) \in Seq(Frames)
  BY <1>1, <1>2
<1>4. q \in Queues
  BY <1>2, <1>3 DEF Queues
<1>5. Sound(s)
  <2>1. Sound(batadv_bla_process_claim(gw[g], g, Head(lan[h][g])))
    BY <1>2, <1>3, ProcessClaim
  <2>2. Sound(batadv_bla_update_own_backbone_gw(gw[g], g))
    BY <1>2, UpdateOwn
  <2> QED BY <2>1, <2>2
<1> HIDE DEF s, q
<1> QED BY <1>1, <1>4, <1>5, BecomesSound

LEMMA RecentSound ==
  ASSUME NEW s, Sound(s), NEW c \in Table(Mac, Claim), DOMAIN c = DOMAIN s.claims,
         \A k \in DOMAIN c : c[k].gw = s.claims[k].gw
  PROVE  Sound([s EXCEPT !.claims = c])
<1> DEFINE t == [s EXCEPT !.claims = c]
<1>1. /\ t \in State /\ t.claims = c /\ t.backbones = s.backbones /\ t.num_requests = s.num_requests
  BY DEF Sound, State
<1> HIDE DEF t
<1>2. \A h : ClaimsOf(t, h) = ClaimsOf(s, h)
  BY <1>1 DEF ClaimsOf
<1>3. Counted(t) /\ Summed(t) /\ Owned(t)
  BY <1>1, <1>2 DEF Sound, Counted, Waiting, Summed, Owned
<1> QED BY <1>1, <1>3 DEF Sound, t

LEMMA StepRx ==
  ASSUME BlaInv, NEW g \in Gateway, NEW k \in Mac, NEW multicast \in BOOLEAN, batadv_bla_rx(g, k, multicast)
  PROVE  BlaInv'
<1> DEFINE s == gw[g]
           seen == [s.claims EXCEPT ![k] = [s.claims[k] EXCEPT !.recent = TRUE]]
           claimed == IF IsMine(s, g, k) THEN [s EXCEPT !.claims[k].recent = TRUE]
                      ELSE batadv_handle_claim(s, g, g, k)
           r == IF s.on THEN claimed ELSE s
           t == batadv_bla_update_own_backbone_gw(r, g)
<1>1. Became(g, t, lan)
  BY DEF batadv_bla_rx
<1>2. Sound(s) /\ s \in State
  BY DEF BlaInv, Sound
<1>3. ASSUME IsMine(s, g, k) PROVE Sound([s EXCEPT !.claims = seen])
  <2> DEFINE e == [s.claims[k] EXCEPT !.recent = TRUE]
  <2>1. k \in DOMAIN s.claims /\ s.claims \in Table(Mac, Claim)
    BY <1>2, <1>3 DEF IsMine, Has, State
  <2>0. s.claims[k] \in Claim
    BY <2>1, TableHas
  <2>2. e \in Claim /\ e.gw = s.claims[k].gw
    BY <2>0 DEF Claim
  <2>3. seen = [s.claims EXCEPT ![k] = e]
    OBVIOUS
  <2> HIDE DEF e, seen
  <2>4. /\ seen \in Table(Mac, Claim) /\ DOMAIN seen = DOMAIN s.claims /\ seen[k] = e
        /\ \A x \in DOMAIN s.claims \ {k} : seen[x] = s.claims[x]
    BY <2>1, <2>2, <2>3, EntryChanges
  <2> HIDE DEF s
  <2> QED BY <1>2, <2>2, <2>4, RecentSound
<1>4. [s EXCEPT !.claims[k].recent = TRUE] = [s EXCEPT !.claims = seen]
  BY <1>2 DEF State
<1>5. Sound(batadv_handle_claim(s, g, g, k))
  BY <1>2, HandleClaim
<1>6. Sound(claimed)
  BY <1>3, <1>4, <1>5
<1> HIDE DEF claimed
<1>7. Sound(r)
  BY <1>2, <1>6
<1> HIDE DEF r
<1>8. Sound(t)
  BY <1>7, UpdateOwn
<1> HIDE DEF t
<1> QED BY <1>1, <1>8, UnheardQueues, BecomesSound

LEMMA StepTx ==
  ASSUME BlaInv, NEW g \in Gateway, NEW k \in Mac, NEW multicast \in BOOLEAN, batadv_bla_tx(g, k, multicast)
  PROVE  BlaInv'
<1> DEFINE s == gw[g]
           primary == TRUE
           r == IF s.on /\ IsMine(s, g, k) THEN batadv_handle_unclaim(s, g, g, k, primary) ELSE s
           t == batadv_bla_update_own_backbone_gw(r, g)
<1>1. Became(g, t, lan)
  BY DEF batadv_bla_tx
<1>2. Sound(s) /\ primary \in BOOLEAN
  BY DEF BlaInv
<1> HIDE DEF primary
<1>3. Sound(batadv_handle_unclaim(s, g, g, k, primary))
  BY <1>2, HandleUnclaim
<1>4. Sound(r)
  BY <1>2, <1>3
<1> HIDE DEF r
<1>5. Sound(t)
  BY <1>4, UpdateOwn
<1> HIDE DEF t
<1> QED BY <1>1, <1>5, UnheardQueues, BecomesSound

LEMMA StepAge ==
  ASSUME BlaInv, NEW g \in Gateway, ClaimsAge(g)
  PROVE  BlaInv'
<1> DEFINE s == gw[g]
           c == [k \in DOMAIN s.claims |-> [s.claims[k] EXCEPT !.recent = FALSE]]
           t == [s EXCEPT !.claims = c]
<1>1. Sound(s) /\ s \in State /\ gw \in [Gateway -> State]
  BY DEF BlaInv, Sound
<1>2. gw' = [gw EXCEPT ![g] = t] /\ lan' = lan
  BY <1>1 DEF ClaimsAge
<1>3. DOMAIN s.claims \in SUBSET Mac /\ \A k \in DOMAIN s.claims : s.claims[k] \in Claim
  BY <1>1, StateHas
<1>4. DOMAIN c = DOMAIN s.claims /\ \A k \in DOMAIN s.claims : c[k] \in Claim /\ c[k].gw = s.claims[k].gw
  BY <1>3 DEF Claim
<1>5. c \in Table(Mac, Claim)
  <2>1. c \in [DOMAIN s.claims -> Claim]
    BY <1>4
  <2> HIDE DEF c
  <2> QED BY <1>3, <2>1, IsTable
<1> HIDE DEF c, s
<1>6. Sound(t)
  BY <1>1, <1>4, <1>5, RecentSound
<1> HIDE DEF t
<1>7. gw' \in [Gateway -> State] /\ \A h \in Gateway : gw'[h] = IF h = g THEN t ELSE gw[h]
  BY <1>1, <1>2, <1>6 DEF Sound
<1>8. \A h \in Gateway : Sound(gw'[h])
  BY <1>6, <1>7 DEF BlaInv
<1> QED BY <1>2, <1>7, <1>8 DEF BlaInv

LEMMA StepPeriod ==
  ASSUME BlaInv, NEW g \in Gateway, NEW K, NEW H, batadv_bla_periodic_work(g, K, H)
  PROVE  BlaInv'
<1> DEFINE s == gw[g]
           primary == TRUE
           r == batadv_bla_purge_claims(s, g, K, primary)
           t == batadv_bla_purge_backbone_gw(r, H)
<1>1. /\ Became(g, Announce(t, g), lan)
      /\ K \subseteq ClaimsOf(s, g) /\ H \subseteq DOMAIN s.backbones \ {g}
  BY DEF batadv_bla_periodic_work
<1>2. Sound(s) /\ primary \in BOOLEAN
  BY DEF BlaInv
<1>3. K \in SUBSET DOMAIN s.claims
  BY <1>1 DEF ClaimsOf
<1> HIDE DEF primary, s
<1>4. Sound(r) /\ DOMAIN r.backbones = DOMAIN s.backbones
  BY <1>2, <1>3, PurgeClaims
<1> HIDE DEF r
<1>5. Sound(t)
  BY <1>1, <1>4, PurgeBackbones
<1> HIDE DEF t
<1>6. Sound(Announce(t, g))
  BY <1>5, AnnounceSound
<1> QED BY <1>1, <1>6, UnheardQueues, BecomesSound

LEMMA StepStatus ==
  ASSUME BlaInv, NEW g \in Gateway, batadv_bla_status_update(g)
  PROVE  BlaInv'
<1> DEFINE s == [gw[g] EXCEPT !.on = ~@, !.group = Group[g]]
           primary == FALSE
           r == batadv_bla_purge_claims(s, g, DOMAIN s.claims, primary)
           purged == batadv_bla_purge_backbone_gw(r, DOMAIN s.backbones)
           announced == IF Has(s.backbones, g) THEN batadv_bla_send_announce(s, g, g) ELSE s
<1>1. Became(g, IF ~s.on THEN purged ELSE announced, lan)
  BY DEF batadv_bla_status_update
<1>2. Sound(gw[g]) /\ gw[g] \in State /\ primary \in BOOLEAN
  BY DEF BlaInv, Sound
<1>3. /\ s \in State /\ s.claims = gw[g].claims /\ s.backbones = gw[g].backbones
      /\ s.num_requests = gw[g].num_requests
  BY <1>2, BridgeLoopAssumption DEF State
<1> HIDE DEF primary, s
<1>4. Sound(s)
  BY <1>2, <1>3, SoundTables
<1>5. Sound(r) /\ DOMAIN r.backbones = DOMAIN s.backbones
  BY <1>2, <1>4, PurgeClaims
<1> HIDE DEF r
<1>6. Sound(purged)
  BY <1>5, PurgeBackbones
<1> HIDE DEF purged
<1>7. Sound(announced)
  <2>1. CASE Has(s.backbones, g)
    <3>1. SameBut(s, batadv_bla_send_announce(s, g, g))
      BY <1>3, <2>1, SendAnnounce DEF Has
    <3> QED BY <1>4, <2>1, <3>1, SoundSameBut
  <2> QED BY <1>4, <2>1
<1> HIDE DEF announced
<1>8. Sound(IF ~s.on THEN purged ELSE announced)
  BY <1>6, <1>7
<1> QED BY <1>1, <1>8, UnheardQueues, BecomesSound

LEMMA StepFree ==
  ASSUME BlaInv, NEW g \in Gateway, batadv_bla_free(g)
  PROVE  BlaInv'
<1> DEFINE primary == TRUE
           up == FALSE
           s == gw[g]
           r == batadv_bla_purge_claims(s, g, DOMAIN s.claims, primary)
           o == r.out
           t == [batadv_bla_init(g, up) EXCEPT !.out = o]
<1>1. Became(g, t, Unheard(g))
  BY DEF batadv_bla_free
<1>2. Sound(s) /\ primary \in BOOLEAN /\ up \in BOOLEAN
  BY DEF BlaInv
<1> HIDE DEF primary, up, s
<1>3. Sound(r)
  BY <1>2, PurgeClaims
<1> HIDE DEF r
<1>4. o \in [Gateway -> Seq(Frames)]
  BY <1>3 DEF Sound, State
<1> HIDE DEF o
<1>5. Sound(t)
  BY <1>2, <1>4, InitSound
<1> HIDE DEF t
<1> QED BY <1>1, <1>5, UnheardQueues, BecomesSound

LEMMA StepLose ==
  ASSUME BlaInv, NEW g \in Gateway, NEW h \in Gateway, LoseFrame(g, h)
  PROVE  BlaInv'
<1>1. lan[g][h] \in Seq(Frames) /\ lan[g][h] # <<>> /\ gw' = gw
  BY DEF BlaInv, LoseFrame
<1>2. Tail(lan[g][h]) \in Seq(Frames)
  BY <1>1
<1>3. lan' \in [Gateway -> [Gateway -> Seq(Frames)]]
  BY <1>2 DEF BlaInv, LoseFrame
<1> QED BY <1>1, <1>3 DEF BlaInv

-----------------------------------------------------------------------------
(* The invariant. *)

LEMMA BlaStep ==
  ASSUME BlaInv, [BlaNext]_blaVars
  PROVE  BlaInv'
<1>1. ASSUME NEW g \in Gateway, NEW h \in Gateway, ReceiveFrame(g, h) PROVE BlaInv'
  BY <1>1, StepReceive
<1>2. ASSUME NEW g \in Gateway, NEW k \in Mac, NEW multicast \in BOOLEAN, batadv_bla_rx(g, k, multicast)
      PROVE BlaInv'
  BY <1>2, StepRx
<1>3. ASSUME NEW g \in Gateway, NEW k \in Mac, NEW multicast \in BOOLEAN, batadv_bla_tx(g, k, multicast)
      PROVE BlaInv'
  BY <1>3, StepTx
<1>4. ASSUME NEW g \in Gateway, ClaimsAge(g) PROVE BlaInv'
  BY <1>4, StepAge
<1>5. ASSUME NEW g \in Gateway, Period(g) PROVE BlaInv'
  BY <1>5, StepPeriod DEF Period
<1>6. ASSUME NEW g \in Gateway, NEW K \in SUBSET Mac, NEW H \in SUBSET Gateway, PeriodWithTimeout(g, K, H)
      PROVE BlaInv'
  BY <1>6, StepPeriod DEF PeriodWithTimeout
<1>7. ASSUME NEW g \in Gateway, batadv_bla_status_update(g) PROVE BlaInv'
  BY <1>7, StepStatus
<1>8. ASSUME NEW g \in Gateway, batadv_bla_free(g) PROVE BlaInv'
  BY <1>8, StepFree
<1>9. ASSUME NEW g \in Gateway, Crash(g) PROVE BlaInv'
  <2>1. gw' = [gw EXCEPT ![g] = batadv_bla_init(g, FALSE)] /\ lan' = Unheard(g)
    BY <1>9 DEF Crash
  <2> DEFINE up == FALSE
  <2>2. up \in BOOLEAN /\ gw' = [gw EXCEPT ![g] = batadv_bla_init(g, up)]
    BY <2>1
  <2> HIDE DEF up
  <2> QED BY <2>1, <2>2, RestartsSound
<1>10. ASSUME NEW g \in Gateway, Start(g) PROVE BlaInv'
  <2>1. gw' = [gw EXCEPT ![g] = batadv_bla_init(g, TRUE)] /\ lan' = Unheard(g)
    BY <1>10 DEF Start
  <2> DEFINE up == TRUE
  <2>2. up \in BOOLEAN /\ gw' = [gw EXCEPT ![g] = batadv_bla_init(g, up)]
    BY <2>1
  <2> HIDE DEF up
  <2> QED BY <2>1, <2>2, RestartsSound
<1>11. ASSUME NEW g \in Gateway, NEW h \in Gateway, LoseFrame(g, h) PROVE BlaInv'
  BY <1>11, StepLose
<1>12. ASSUME Meet PROVE BlaInv'
  BY <1>12 DEF Meet, BlaInv
<1>13. ASSUME UNCHANGED blaVars PROVE BlaInv'
  BY <1>13 DEF blaVars, BlaInv
<1> QED BY <1>1, <1>2, <1>3, <1>4, <1>5, <1>6, <1>7, <1>8, <1>9, <1>10, <1>11, <1>12, <1>13 DEF BlaNext

LEMMA BlaStarts == BlaInit => BlaInv
<1> SUFFICES ASSUME BlaInit PROVE BlaInv
  OBVIOUS
<1>1. gw = [g \in Gateway |-> batadv_bla_init(g, g \in quota.running)] /\ lan = [g \in Gateway |-> NoFrames]
  BY DEF BlaInit
<1>2. ASSUME NEW g \in Gateway PROVE Sound(gw[g])
  <2> DEFINE up == g \in quota.running
  <2>1. up \in BOOLEAN /\ gw[g] = batadv_bla_init(g, up)
    BY <1>1
  <2> HIDE DEF up
  <2> QED BY <2>1, InitSound, NoFramesType
<1>3. \A g \in Gateway : gw[g] \in State
  BY <1>2 DEF Sound
<1>4. gw \in [Gateway -> State]
  BY <1>1, <1>3
<1>5. lan \in [Gateway -> [Gateway -> Seq(Frames)]]
  BY <1>1, NoFramesType
<1> QED BY <1>2, <1>4, <1>5 DEF BlaInv

\* Whatever frames arrive, are lost or are late, and whenever gateways time out, crash,
\* restart or are switched on and off: tables, frames and counters keep their types, and
\* table, checksums and num_requests of each gateway agree.
THEOREM AlwaysSound == BlaSpec => []BlaInv
BY BlaStarts, BlaStep, PTL DEF BlaSpec

\* batadv_priv_bla.num_requests, which holds broadcasts back, always is the number of
\* backbone gateways with request_sent: every path that takes a gateway from the table or
\* answers its request counts it down once (batadv_bla_purge_backbone_gw(),
\* batadv_handle_announce(), batadv_bla_periodic_work()).
THEOREM RequestsAlwaysCounted == BlaSpec => []RequestsCounted
<1>1. BlaInv => RequestsCounted
  BY DEF BlaInv, Sound, Counted, Waiting, RequestsCounted
<1> QED BY <1>1, AlwaysSound, PTL

\* The checksum of every backbone gateway, changed only by the address that comes or
\* goes (batadv_bla_add_claim(), batadv_claim_release()), always is the one of its claims
\* in the table, and the gateway of every claim is known.
THEOREM CrcAlwaysMatches == BlaSpec => []CrcMatches
<1>1. BlaInv => CrcMatches
  BY DEF BlaInv, Sound, Summed, Owned, CrcMatches
<1> QED BY <1>1, AlwaysSound, PTL

=============================================================================

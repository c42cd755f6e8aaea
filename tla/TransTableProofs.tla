--------------------------- MODULE TransTableProofs ---------------------------
(***************************************************************************)
(* Proofs about the translation tables: the list of local changes says     *)
(* exactly what the next version will change, whatever order frames,       *)
(* roaming advertisements, responses, timeouts, a shrinking MTU, lost      *)
(* messages and reboots come in.                                           *)
(***************************************************************************)
EXTENDS Unicast, FiniteSetTheorems, WellFoundedInduction, TLAPS

-----------------------------------------------------------------------------
(* What is assumed. *)

\* Changes are found by their MAC address alone (batadv_tt_local_event()): no address is on
\* two VLANs.
OneVlan == \A k, l \in Client : k[1] = l[1] => k = l

\* A client keeps its WIFI flag: a change of it is announced for a client that is not new.
SameInterface == \E b \in BOOLEAN : Wifi \subseteq {b}

-----------------------------------------------------------------------------
(* The invariant. *)

StateFields == {"local", "changes", "size", "vn", "append", "crc", "lastset", "max", "container",
                "global", "peer", "roams"}
PeerFields == {"ttvn", "init", "self", "crc", "buff"}
Change == [key : Client, flags : SUBSET {"DEL", "ROAM", "WIFI"}]

\* The types of the local table and of its changes.
LocalTyped(s) ==
  /\ DOMAIN s = StateFields
  /\ DOMAIN s.local \subseteq Client /\ IsFiniteSet(DOMAIN s.local)
  /\ \A k \in DOMAIN s.local : s.local[k] \subseteq {"NEW", "PENDING", "ROAM", "WIFI"}
  /\ s.changes \subseteq Change /\ IsFiniteSet(s.changes)
  /\ s.size \in Int

\* What is kept to be sent, and what others have sent, is finite.
TablesFinite(s) ==
  /\ IsFiniteSet(s.lastset) /\ IsFiniteSet(s.container.changes)
  /\ IsFiniteSet(DOMAIN s.global)
  /\ DOMAIN s.peer = Node
  /\ \A o \in Node : DOMAIN s.peer[o] = PeerFields /\ IsFiniteSet(s.peer[o].buff)

Single(s) == \A c, d \in s.changes : c.key = d.key => c = d

\* NothingForgotten, of one node.
Agrees(s) == Single(s) /\ \A k \in Client : Wanted(s, k) = Queued(s, k)

\* A client that was never announced leaves at once.
NoneBoth(s) == \A k \in DOMAIN s.local : ~({"NEW", "PENDING"} \subseteq s.local[k])

WifiKept(s) == \A k \in DOMAIN s.local : "WIFI" \in s.local[k] <=> TRUE \in Wifi

Purgeable(s) == LocalTyped(s) /\ TablesFinite(s) /\ Agrees(s) /\ WifiKept(s)
Good(s) == Purgeable(s) /\ NoneBoth(s)

\* Messages about a table go from node to node, with finitely many changes.
MessageTyped(m) ==
  m.type # "ROAM" => /\ m.src \in Node /\ m.dst \in Node
                     /\ m.type # "REQUEST" => IsFiniteSet(m.changes)

TtInv ==
  /\ DOMAIN node = Node
  /\ \A n \in Node : Good(node[n])
  /\ \A m \in net : MessageTyped(m)

-----------------------------------------------------------------------------
(* Changes. *)

\* t is s, except for the local table, its changes and its size.
OnlyLocal(s, t) ==
  /\ DOMAIN t = StateFields
  /\ \A f \in StateFields \ {"local", "changes", "size"} : t[f] = s[f]

LEMMA OnlyLocalFinite ==
  ASSUME NEW s, NEW t, OnlyLocal(s, t), TablesFinite(s)
  PROVE  TablesFinite(t)
BY DEF OnlyLocal, TablesFinite, StateFields

\* An event for client k: what is queued for it afterwards, and nothing else changes.
EventQueued(s, k, event) ==
  IF "DEL" \in event THEN (IF Queued(s, k) = "add" THEN "nothing" ELSE "delete")
  ELSE (IF Queued(s, k) = "delete" THEN "nothing" ELSE "add")

LEMMA EventQueues ==
  ASSUME OneVlan, NEW s, LocalTyped(s), Single(s), NEW k \in DOMAIN s.local,
         NEW event \in SUBSET {"DEL", "ROAM"},
         NEW t, t = batadv_tt_local_event(s, k, event)
  PROVE  /\ DOMAIN t = StateFields /\ \A f \in StateFields \ {"changes"} : t[f] = s[f]
         /\ t.changes \subseteq Change /\ IsFiniteSet(t.changes) /\ Single(t)
         /\ Queued(t, k) = EventQueued(s, k, event)
         /\ \A l \in Client \ {k} : Queued(t, l) = Queued(s, l)
<1> DEFINE flags == WireFlags(s.local[k] \cup event)
           old == {c \in s.changes : c.key[1] = k[1]}
           new == IF old = {} THEN s.changes \cup {[key |-> k, flags |-> flags]}
                  ELSE IF \E c \in old : ("DEL" \in c.flags) # ("DEL" \in flags) THEN s.changes \ old
                  ELSE (s.changes \ old) \cup {[c EXCEPT !.flags = flags] : c \in old}
<1>1. t = [s EXCEPT !.changes = new]
  BY DEF batadv_tt_local_event
<1>2. DOMAIN t = StateFields /\ t.changes = new /\ \A f \in StateFields \ {"changes"} : t[f] = s[f]
  <2> HIDE DEF new
  <2> QED BY <1>1 DEF LocalTyped, StateFields
<1>3. k \in Client /\ flags \in SUBSET {"DEL", "ROAM", "WIFI"} /\ ("DEL" \in flags <=> "DEL" \in event)
  BY DEF LocalTyped, WireFlags
<1>4. old = {c \in s.changes : c.key = k}
  BY <1>3 DEF LocalTyped, OneVlan, Change
<1>5. old = {} \/ \E c \in s.changes : old = {c} /\ c.key = k
  BY <1>4 DEF Single
<1> HIDE DEF flags, old
<1>6. CASE old = {}
  <2>1. new = s.changes \cup {[key |-> k, flags |-> flags]}
    BY <1>6
  <2>2. [key |-> k, flags |-> flags] \in Change
    BY <1>3 DEF Change
  <2>3. IsFiniteSet(new)
    <3>1. IsFiniteSet(s.changes)
      BY DEF LocalTyped
    <3> HIDE DEF new
    <3> QED BY <2>1, <3>1, FS_AddElement
  <2>4. Queued(s, k) = "nothing"
    BY <1>4, <1>6 DEF Queued
  <2> HIDE DEF new
  <2>5. Queued(t, k) = EventQueued(s, k, event)
    <3> DEFINE c == [key |-> k, flags |-> flags]
    <3>1. t.changes = s.changes \cup {c} /\ c.key = k /\ c.flags = flags
      BY <1>2, <2>1
    <3> HIDE DEF c
    <3>2. \A d \in t.changes : d.key = k => d = c
      BY <1>4, <1>6, <3>1
    <3>3. Queued(t, k) = IF "DEL" \in flags THEN "delete" ELSE "add"
      BY <3>1, <3>2 DEF Queued
    <3> QED BY <1>3, <2>4, <3>3 DEF EventQueued
  <2>6. \A l \in Client \ {k} : Queued(t, l) = Queued(s, l)
    BY <1>2, <2>1 DEF Queued
  <2>7. Single(t)
    BY <1>2, <1>4, <1>6, <2>1 DEF Single
  <2> QED BY <1>2, <2>1, <2>2, <2>3, <2>5, <2>6, <2>7 DEF LocalTyped
<1>7. CASE old # {}
  <2>1. PICK c \in s.changes : old = {c} /\ c.key = k
    BY <1>5, <1>7
  <2>2. c \in Change
    BY DEF LocalTyped
  <2>3. IsFiniteSet(s.changes \ {c})
    BY FS_RemoveElement DEF LocalTyped
  <2>4. Queued(s, k) = IF "DEL" \in c.flags THEN "delete" ELSE "add"
    BY <1>4, <2>1 DEF Queued
  <2>5. \A d \in s.changes \ {c} : d.key # k
    BY <1>4, <2>1
  <2>6. CASE ("DEL" \in c.flags) # ("DEL" \in flags)
    <3>1. new = s.changes \ {c}
      BY <2>1, <2>6
    <3> HIDE DEF new
    <3>2. Queued(t, k) = "nothing"
      BY <1>2, <2>5, <3>1 DEF Queued
    <3>3. EventQueued(s, k, event) = "nothing"
      BY <1>3, <2>4, <2>6 DEF EventQueued
    <3>4. \A l \in Client \ {k} : Queued(t, l) = Queued(s, l)
      BY <1>2, <2>1, <3>1 DEF Queued
    <3>5. Single(t)
      BY <1>2, <3>1 DEF Single
    <3> QED BY <1>2, <2>3, <3>1, <3>2, <3>3, <3>4, <3>5 DEF LocalTyped
  <2>7. CASE ~(("DEL" \in c.flags) # ("DEL" \in flags))
    <3> DEFINE d == [c EXCEPT !.flags = flags]
    <3>1. new = (s.changes \ {c}) \cup {d}
      BY <2>1, <2>7
    <3>2. d \in Change /\ d.key = k /\ d.flags = flags
      BY <1>3, <2>1, <2>2 DEF Change
    <3> HIDE DEF new, d
    <3>3. IsFiniteSet(new)
      BY <2>3, <3>1, FS_AddElement
    <3>4. Queued(t, k) = EventQueued(s, k, event)
      BY <1>2, <1>3, <2>4, <2>5, <2>7, <3>1, <3>2 DEF Queued, EventQueued
    <3>5. \A l \in Client \ {k} : Queued(t, l) = Queued(s, l)
      BY <1>2, <2>1, <3>1, <3>2 DEF Queued
    <3>6. Single(t)
      BY <1>2, <2>5, <3>1, <3>2 DEF Single
    <3> QED BY <1>2, <3>1, <3>2, <3>3, <3>4, <3>5, <3>6 DEF LocalTyped
  <2> QED BY <2>6, <2>7
<1> QED BY <1>6, <1>7

\* Client k alone has changed.
OthersKept(s, t, k) ==
  \A l \in Client \ {k} : /\ Known(t.local, l) <=> Known(s.local, l)
                          /\ Known(s.local, l) => t.local[l] = s.local[l]

LEMMA AgreesAfter ==
  ASSUME NEW s, NEW t, NEW k \in Client, Agrees(s), OthersKept(s, t, k), Single(t),
         \A l \in Client \ {k} : Queued(t, l) = Queued(s, l), Wanted(t, k) = Queued(t, k)
  PROVE  Agrees(t)
<1>1. ASSUME NEW l \in Client \ {k} PROVE Wanted(t, l) = Wanted(s, l)
  BY DEF OthersKept, Wanted
<1> QED BY <1>1 DEF Agrees

\* The entry of client k has become flags.
EntryBecomes(s, t, k, flags) ==
  /\ DOMAIN t.local = DOMAIN s.local \cup {k}
  /\ t.local[k] = flags
  /\ \A l \in DOMAIN s.local \ {k} : t.local[l] = s.local[l]

LEMMA EntryTyped ==
  ASSUME NEW s, NEW t, NEW k \in Client, NEW flags \in SUBSET {"NEW", "PENDING", "ROAM", "WIFI"},
         LocalTyped(s), TablesFinite(s), OnlyLocal(s, t), EntryBecomes(s, t, k, flags),
         WifiKept(s), "WIFI" \in flags <=> TRUE \in Wifi,
         t.changes \subseteq Change, IsFiniteSet(t.changes), t.size \in Int
  PROVE  LocalTyped(t) /\ TablesFinite(t) /\ WifiKept(t) /\ OthersKept(s, t, k)
<1>1. IsFiniteSet(DOMAIN s.local)
  BY DEF LocalTyped
<1>2. IsFiniteSet(DOMAIN t.local)
  BY <1>1, FS_AddElement DEF EntryBecomes
<1>3. LocalTyped(t)
  BY <1>2 DEF LocalTyped, OnlyLocal, EntryBecomes
<1>4. WifiKept(t)
  BY DEF WifiKept, EntryBecomes
<1>5. OthersKept(s, t, k)
  BY DEF OthersKept, EntryBecomes, Known
<1> QED BY <1>3, <1>4, <1>5, OnlyLocalFinite

\* Flags that say nothing about what is announced.
LEMMA RoamMarked ==
  ASSUME NEW s, Good(s), NEW k \in DOMAIN s.local, NEW flags,
         flags \in {s.local[k], s.local[k] \cup {"ROAM"}, s.local[k] \ {"ROAM"}},
         NEW t, t = [s EXCEPT !.local[k] = flags]
  PROVE  Good(t) /\ OnlyLocal(s, t) /\ EntryBecomes(s, t, k, flags) /\ t.changes = s.changes
<1>1. LocalTyped(s) /\ TablesFinite(s) /\ Agrees(s) /\ WifiKept(s) /\ NoneBoth(s)
  BY DEF Good, Purgeable
<1>2. /\ DOMAIN t = StateFields /\ t.local = [s.local EXCEPT ![k] = flags]
      /\ t.changes = s.changes /\ t.size = s.size /\ OnlyLocal(s, t)
  BY <1>1 DEF LocalTyped, StateFields, OnlyLocal
<1>3. EntryBecomes(s, t, k, flags)
  BY <1>2 DEF EntryBecomes
<1>4. k \in Client /\ flags \in SUBSET {"NEW", "PENDING", "ROAM", "WIFI"} /\ ("WIFI" \in flags <=> TRUE \in Wifi)
  BY <1>1 DEF LocalTyped, WifiKept
<1>5. LocalTyped(t) /\ TablesFinite(t) /\ WifiKept(t) /\ OthersKept(s, t, k)
  <2>1. t.changes \subseteq Change /\ IsFiniteSet(t.changes) /\ t.size \in Int
    BY <1>1, <1>2 DEF LocalTyped
  <2> QED BY <1>1, <1>2, <1>3, <1>4, <2>1, EntryTyped
<1>6. \A l \in Client : Queued(t, l) = Queued(s, l)
  BY <1>2 DEF Queued
<1>7. Wanted(t, k) = Wanted(s, k)
  BY <1>3 DEF Wanted, Known, EntryBecomes
<1>8. Single(t)
  BY <1>1, <1>2 DEF Single, Agrees
<1>9. Agrees(t)
  BY <1>1, <1>4, <1>5, <1>6, <1>7, <1>8, AgreesAfter DEF Agrees
<1>10. NoneBoth(t)
  BY <1>1, <1>3 DEF NoneBoth, EntryBecomes
<1> QED BY <1>2, <1>3, <1>5, <1>9, <1>10 DEF Good, Purgeable

\* A client that leaves is marked, and queued unless it was never announced.
LEMMA PendingKeeps ==
  ASSUME OneVlan, NEW s, Purgeable(s), NEW k \in DOMAIN s.local,
         ~({"NEW", "PENDING"} \subseteq s.local[k]),
         NEW event \in SUBSET {"DEL", "ROAM"}, "DEL" \in event,
         NEW t, t = batadv_tt_local_set_pending(s, k, event)
  PROVE  /\ Purgeable(t) /\ OnlyLocal(s, t)
         /\ EntryBecomes(s, t, k, s.local[k] \cup {"PENDING"})
<1> DEFINE u == batadv_tt_local_event(s, k, event)
           flags == s.local[k] \cup {"PENDING"}
<1>1. LocalTyped(s) /\ TablesFinite(s) /\ Agrees(s) /\ WifiKept(s) /\ Single(s)
  BY DEF Purgeable, Agrees
<1>2. /\ DOMAIN u = StateFields /\ \A f \in StateFields \ {"changes"} : u[f] = s[f]
      /\ u.changes \subseteq Change /\ IsFiniteSet(u.changes) /\ Single(u)
      /\ Queued(u, k) = EventQueued(s, k, event)
      /\ \A l \in Client \ {k} : Queued(u, l) = Queued(s, l)
  BY <1>1, EventQueues
<1>3. t = [u EXCEPT !.local[k] = @ \cup {"PENDING"}]
  BY DEF batadv_tt_local_set_pending
<1> HIDE DEF u
<1>4. u.local = s.local /\ u.size = s.size
  BY <1>2 DEF StateFields
<1>5. /\ DOMAIN t = StateFields /\ t.changes = u.changes /\ t.size = s.size
      /\ t.local = [s.local EXCEPT ![k] = flags]
      /\ \A f \in StateFields \ {"local"} : t[f] = u[f]
  BY <1>2, <1>3, <1>4 DEF StateFields
<1>6. OnlyLocal(s, t)
  BY <1>2, <1>5 DEF OnlyLocal
<1>7. EntryBecomes(s, t, k, flags)
  BY <1>5 DEF EntryBecomes
<1>8. k \in Client /\ flags \in SUBSET {"NEW", "PENDING", "ROAM", "WIFI"} /\ ("WIFI" \in flags <=> TRUE \in Wifi)
  BY <1>1 DEF LocalTyped, WifiKept
<1>9. LocalTyped(t) /\ TablesFinite(t) /\ WifiKept(t) /\ OthersKept(s, t, k)
  <2>1. t.changes \subseteq Change /\ IsFiniteSet(t.changes) /\ t.size \in Int
    BY <1>1, <1>2, <1>5 DEF LocalTyped
  <2> HIDE DEF flags
  <2> QED BY <1>1, <1>6, <1>7, <1>8, <2>1, EntryTyped
<1>10. \A l \in Client : Queued(t, l) = Queued(u, l)
  BY <1>5 DEF Queued
<1>11. Single(t)
  BY <1>2, <1>5 DEF Single
<1>12. Wanted(t, k) = Queued(t, k)
  <2>1. Wanted(s, k) = Queued(s, k)
    BY <1>1, <1>8 DEF Agrees
  <2>2. Queued(t, k) = IF Wanted(s, k) = "add" THEN "nothing" ELSE "delete"
    BY <1>2, <1>8, <1>10, <2>1 DEF EventQueued
  <2>3. Wanted(t, k) = IF "NEW" \in s.local[k] THEN "nothing" ELSE "delete"
    BY <1>7 DEF Wanted, Known, EntryBecomes
  <2>4. Wanted(s, k) = "add" <=> "NEW" \in s.local[k]
    BY DEF Wanted, Known
  <2> QED BY <2>2, <2>3, <2>4
<1>13. Agrees(t)
  BY <1>1, <1>2, <1>8, <1>9, <1>10, <1>11, <1>12, AgreesAfter
<1> QED BY <1>6, <1>7, <1>9, <1>13 DEF Purgeable

LEMMA RemoveKeeps ==
  ASSUME OneVlan, NEW s, Good(s), NEW k, NEW roaming \in BOOLEAN,
         NEW t, t = batadv_tt_local_remove(s, k, roaming)
  PROVE  Good(t) /\ OnlyLocal(s, t)
<1>1. CASE ~Known(s.local, k)
  BY <1>1 DEF batadv_tt_local_remove, OnlyLocal, Good, Purgeable, LocalTyped
<1>2. CASE Known(s.local, k)
  <2> DEFINE r == IF roaming THEN [s EXCEPT !.local[k] = @ \cup {"ROAM"}] ELSE s
  <2>1. k \in DOMAIN s.local
    BY <1>2 DEF Known
  <2>2. Good(r) /\ OnlyLocal(s, r) /\ DOMAIN r.local = DOMAIN s.local
    <3>1. CASE roaming
      <4>1. r = [s EXCEPT !.local[k] = s.local[k] \cup {"ROAM"}]
        BY <3>1
      <4> HIDE DEF r
      <4>2. Good(r) /\ OnlyLocal(s, r) /\ EntryBecomes(s, r, k, s.local[k] \cup {"ROAM"})
        BY <2>1, <4>1, RoamMarked
      <4> QED BY <2>1, <4>2 DEF EntryBecomes
    <3>2. CASE ~roaming
      BY <3>2 DEF OnlyLocal, Good, Purgeable, LocalTyped
    <3> QED BY <3>1, <3>2
  <2>3. ("NEW" \in r.local[k]) = ("NEW" \in s.local[k])
    <3>1. CASE roaming
      <4>1. r = [s EXCEPT !.local[k] = s.local[k] \cup {"ROAM"}]
        BY <3>1
      <4> HIDE DEF r
      <4> QED BY <2>1, <4>1, RoamMarked DEF EntryBecomes
    <3>2. CASE ~roaming
      BY <3>2
    <3> QED BY <3>1, <3>2
  <2>4. t = IF "NEW" \in s.local[k]
            THEN [batadv_tt_local_event(r, k, {"DEL"}) EXCEPT !.local = Without(@, {k})]
            ELSE batadv_tt_local_set_pending(r, k, {"DEL"} \cup IF roaming THEN {"ROAM"} ELSE {})
    BY <1>2 DEF batadv_tt_local_remove
  <2> HIDE DEF r
  <2>5. k \in DOMAIN r.local /\ k \in Client
    BY <2>1, <2>2 DEF Good, Purgeable, LocalTyped
  <2>6. CASE "NEW" \in s.local[k]
    <3> DEFINE u == batadv_tt_local_event(r, k, {"DEL"})
    <3>1. LocalTyped(r) /\ TablesFinite(r) /\ Agrees(r) /\ WifiKept(r) /\ Single(r) /\ NoneBoth(r)
      BY <2>2 DEF Good, Purgeable, Agrees
    <3>2. /\ DOMAIN u = StateFields /\ \A f \in StateFields \ {"changes"} : u[f] = r[f]
          /\ u.changes \subseteq Change /\ IsFiniteSet(u.changes) /\ Single(u)
          /\ Queued(u, k) = EventQueued(r, k, {"DEL"})
          /\ \A l \in Client \ {k} : Queued(u, l) = Queued(r, l)
      BY <2>5, <3>1, EventQueues
    <3>3. t = [u EXCEPT !.local = Without(u.local, {k})]
      BY <2>4, <2>6
    <3> HIDE DEF u
    <3>4. u.local = r.local /\ u.size = r.size
      BY <3>2 DEF StateFields
    <3>5. /\ DOMAIN t = StateFields /\ t.changes = u.changes /\ t.size = r.size
          /\ DOMAIN t.local = DOMAIN r.local \ {k}
          /\ \A l \in DOMAIN t.local : t.local[l] = r.local[l]
          /\ OnlyLocal(r, t)
      BY <3>2, <3>3, <3>4 DEF StateFields, Without, OnlyLocal
    <3>6. LocalTyped(t)
      <4>1. IsFiniteSet(DOMAIN r.local)
        BY <3>1 DEF LocalTyped
      <4>2. IsFiniteSet(DOMAIN t.local)
        BY <3>5, <4>1, FS_RemoveElement
      <4> QED BY <3>1, <3>2, <3>5, <4>2 DEF LocalTyped
    <3>7. WifiKept(t) /\ NoneBoth(t) /\ OthersKept(r, t, k)
      BY <3>1, <3>5 DEF WifiKept, NoneBoth, OthersKept, Known
    <3>8. TablesFinite(t)
      BY <3>1, <3>5, OnlyLocalFinite
    <3>9. \A l \in Client : Queued(t, l) = Queued(u, l)
      BY <3>5 DEF Queued
    <3>10. Single(t)
      BY <3>2, <3>5 DEF Single
    <3>11. Wanted(t, k) = Queued(t, k)
      <4>1. Wanted(r, k) = "add"
        BY <2>3, <2>5, <2>6, <3>1 DEF Wanted, Known, NoneBoth
      <4>2. Queued(r, k) = "add"
        BY <2>5, <3>1, <4>1 DEF Agrees
      <4>3. Queued(t, k) = "nothing"
        BY <2>5, <3>2, <3>9, <4>2 DEF EventQueued
      <4> QED BY <3>5, <4>3 DEF Wanted, Known
    <3>12. Agrees(t)
      BY <2>5, <3>1, <3>2, <3>7, <3>9, <3>10, <3>11, AgreesAfter
    <3>13. OnlyLocal(s, t)
      BY <2>2, <3>5 DEF OnlyLocal
    <3> QED BY <3>6, <3>7, <3>8, <3>12, <3>13 DEF Good, Purgeable
  <2>7. CASE "NEW" \notin s.local[k]
    <3> DEFINE event == {"DEL"} \cup IF roaming THEN {"ROAM"} ELSE {}
    <3>1. event \in SUBSET {"DEL", "ROAM"} /\ "DEL" \in event
      OBVIOUS
    <3>2. t = batadv_tt_local_set_pending(r, k, event)
      BY <2>4, <2>7
    <3> HIDE DEF event
    <3>3. Purgeable(r) /\ NoneBoth(r) /\ "NEW" \notin r.local[k]
      BY <2>2, <2>3, <2>7 DEF Good
    <3>4. Purgeable(t) /\ OnlyLocal(r, t) /\ EntryBecomes(r, t, k, r.local[k] \cup {"PENDING"})
      BY <2>5, <3>1, <3>2, <3>3, PendingKeeps
    <3>5. NoneBoth(t)
      BY <3>3, <3>4 DEF NoneBoth, EntryBecomes
    <3>6. OnlyLocal(s, t)
      BY <2>2, <3>4 DEF OnlyLocal
    <3> QED BY <3>4, <3>5, <3>6 DEF Good
  <2> QED BY <2>6, <2>7
<1> QED BY <1>1, <1>2

-----------------------------------------------------------------------------
(* The global table. *)

\* The tables of others have changed.
OnlyRemote(s, t) ==
  DOMAIN t = StateFields /\ t.local = s.local /\ t.changes = s.changes /\ t.size = s.size

LEMMA RemoteKeeps ==
  ASSUME NEW s, NEW t, Good(s), OnlyRemote(s, t), TablesFinite(t)
  PROVE  Good(t)
<1>1. LocalTyped(t) /\ WifiKept(t) /\ NoneBoth(t)
  BY DEF OnlyRemote, Good, Purgeable, LocalTyped, WifiKept, NoneBoth
<1>2. Agrees(t)
  BY DEF OnlyRemote, Good, Purgeable, Agrees, Single, Wanted, Queued, Known
<1> QED BY <1>1, <1>2 DEF Good, Purgeable

\* A global table of finitely many clients.
LEMMA GlobalKeeps ==
  ASSUME NEW s, NEW g, Good(s), IsFiniteSet(DOMAIN g), NEW t, t = [s EXCEPT !.global = g]
  PROVE  Good(t) /\ t.global = g
<1>1. LocalTyped(s) /\ TablesFinite(s)
  BY DEF Good, Purgeable
<1>2. DOMAIN t = StateFields /\ t.global = g /\ \A f \in StateFields \ {"global"} : t[f] = s[f]
  BY <1>1 DEF LocalTyped, StateFields
<1>3. OnlyRemote(s, t) /\ TablesFinite(t)
  BY <1>1, <1>2 DEF OnlyRemote, TablesFinite, StateFields
<1> QED BY <1>2, <1>3, RemoteKeeps

\* What is known of an originator.
LEMMA PeerKeeps ==
  ASSUME NEW s, Good(s), NEW o \in Node, NEW p, DOMAIN p = PeerFields, IsFiniteSet(p.buff),
         NEW t, t = [s EXCEPT !.peer[o] = p]
  PROVE  Good(t)
<1>1. LocalTyped(s) /\ TablesFinite(s)
  BY DEF Good, Purgeable
<1>2. /\ DOMAIN t = StateFields /\ t.peer = [s.peer EXCEPT ![o] = p]
      /\ \A f \in StateFields \ {"peer"} : t[f] = s[f]
  BY <1>1 DEF LocalTyped, StateFields
<1>3. DOMAIN t.peer = Node /\ \A x \in Node : t.peer[x] = IF x = o THEN p ELSE s.peer[x]
  BY <1>1, <1>2 DEF TablesFinite
<1>4. OnlyRemote(s, t) /\ TablesFinite(t)
  BY <1>1, <1>2, <1>3 DEF OnlyRemote, TablesFinite, StateFields
<1> QED BY <1>4, RemoteKeeps

LEMMA GlobalFinite ==
  ASSUME NEW s, Good(s)
  PROVE  /\ DOMAIN s = StateFields /\ IsFiniteSet(DOMAIN s.global) /\ DOMAIN s.peer = Node
         /\ \A o \in Node : DOMAIN s.peer[o] = PeerFields /\ IsFiniteSet(s.peer[o].buff)
BY DEF Good, Purgeable, LocalTyped, TablesFinite

LEMMA FreeKeeps ==
  ASSUME NEW s, Good(s), NEW k
  PROVE  Good(batadv_tt_global_free(s, k))
<1>1. IsFiniteSet(DOMAIN s.global \ {k})
  BY GlobalFinite, FS_RemoveElement
<1>2. IsFiniteSet(DOMAIN Without(s.global, {k}))
  BY <1>1 DEF Without
<1> QED BY <1>2, GlobalKeeps DEF batadv_tt_global_free

LEMMA EntryKeeps ==
  ASSUME NEW s, Good(s), NEW k, NEW e
  PROVE  Good([s EXCEPT !.global[k] = e]) /\ Good([s EXCEPT !.global = With(@, k, e)])
<1> DEFINE g == [s.global EXCEPT ![k] = e]
           h == With(s.global, k, e)
<1>1. IsFiniteSet(DOMAIN s.global \cup {k})
  BY GlobalFinite, FS_AddElement
<1>2. DOMAIN g = DOMAIN s.global /\ DOMAIN h = DOMAIN s.global \cup {k}
  BY DEF With
<1>3. IsFiniteSet(DOMAIN g) /\ IsFiniteSet(DOMAIN h)
  BY <1>1, <1>2, GlobalFinite
<1> HIDE DEF g, h
<1>4. Good([s EXCEPT !.global = g]) /\ Good([s EXCEPT !.global = h])
  BY <1>3, GlobalKeeps
<1> QED BY <1>4 DEF g, h

LEMMA AddKeeps ==
  ASSUME OneVlan, NEW s, Good(s), NEW o, NEW k, NEW flags
  PROVE  Good(batadv_tt_global_add(s, o, k, flags))
<1> DEFINE t == batadv_tt_global_add(s, o, k, flags)
<1>1. t = s \/ \E entry : t = batadv_tt_local_remove([s EXCEPT !.global = With(@, k, entry)], k, "ROAM" \in flags)
  BY DEF batadv_tt_global_add
<1> HIDE DEF t
<1>2. ASSUME NEW entry, t = batadv_tt_local_remove([s EXCEPT !.global = With(@, k, entry)], k, "ROAM" \in flags)
      PROVE  Good(t)
  <2>1. Good([s EXCEPT !.global = With(@, k, entry)])
    BY EntryKeeps
  <2>2. ("ROAM" \in flags) \in BOOLEAN
    OBVIOUS
  <2> QED BY <1>2, <2>1, <2>2, RemoveKeeps
<1>3. Good(t)
  BY <1>1, <1>2
<1> QED BY <1>3 DEF t

LEMMA OrigKeeps ==
  ASSUME NEW s, Good(s), NEW o, NEW k
  PROVE  /\ Good(batadv_tt_global_del_orig_node(s, o, k))
         /\ Good(batadv_tt_global_del_roaming(s, o, k))
<1>1. Good(batadv_tt_global_del_orig_node(s, o, k))
  BY EntryKeeps DEF batadv_tt_global_del_orig_node
<1>2. Good([s EXCEPT !.global[k].flags = @ \cup {"ROAM"}])
  BY EntryKeeps
<1> QED BY <1>1, <1>2 DEF batadv_tt_global_del_roaming

LEMMA DelKeeps ==
  ASSUME NEW s, Good(s), NEW o, NEW k, NEW roaming
  PROVE  Good(batadv_tt_global_del(s, o, k, roaming))
<1> DEFINE r == batadv_tt_global_del_orig_node(s, o, k)
<1>1. Good(r) /\ Good(batadv_tt_global_free(r, k)) /\ Good(batadv_tt_global_free(s, k))
  BY OrigKeeps, FreeKeeps
<1>2. Good(batadv_tt_global_del_roaming(s, o, k))
  BY OrigKeeps
<1>3. batadv_tt_global_del(s, o, k, roaming) \in
        {s, r, batadv_tt_global_free(r, k), batadv_tt_global_free(s, k), batadv_tt_global_del_roaming(s, o, k)}
  <2> HIDE DEF r
  <2> QED BY DEF batadv_tt_global_del, r
<1> HIDE DEF r
<1> QED BY <1>1, <1>2, <1>3

LEMMA ChangeKeeps ==
  ASSUME OneVlan, NEW s, Good(s), NEW o, NEW c
  PROVE  Good(OneChange(s, o, c))
BY AddKeeps, DelKeeps DEF OneChange

LEMMA DelOrigKeeps ==
  ASSUME NEW s, Good(s), NEW o \in Node
  PROVE  Good(batadv_tt_global_del_orig(s, o))
<1> DEFINE g == [k \in DOMAIN s.global |-> [s.global[k] EXCEPT !.origs = Without(@, {o})]]
           h == Without(g, {k \in DOMAIN g : DOMAIN g[k].origs = {}})
           p == [s.peer[o] EXCEPT !.init = FALSE, !.self = FALSE, !.crc = {}]
           t == [s EXCEPT !.global = h]
<1>1. IsFiniteSet(DOMAIN s.global) /\ DOMAIN h \subseteq DOMAIN s.global
  <2>1. DOMAIN g = DOMAIN s.global
    OBVIOUS
  <2> HIDE DEF g
  <2> QED BY <2>1, GlobalFinite DEF Without
<1>2. IsFiniteSet(DOMAIN h)
  BY <1>1, FS_Subset
<1>3. DOMAIN p = PeerFields /\ p.buff = s.peer[o].buff
  BY GlobalFinite DEF PeerFields
<1>4. Good(t) /\ t.peer = s.peer
  <2> HIDE DEF h
  <2> QED BY <1>2, GlobalKeeps, GlobalFinite DEF StateFields
<1>5. batadv_tt_global_del_orig(s, o) = [t EXCEPT !.peer[o] = p]
  <2>1. batadv_tt_global_del_orig(s, o) =
          [s EXCEPT !.global = h, !.peer[o].init = FALSE, !.peer[o].self = FALSE, !.peer[o].crc = {}]
    BY DEF batadv_tt_global_del_orig
  <2> DEFINE u == batadv_tt_global_del_orig(s, o)
             w == [t EXCEPT !.peer[o] = p]
  <2> HIDE DEF h
  <2>2. DOMAIN u = DOMAIN s /\ DOMAIN w = DOMAIN s
    BY <2>1
  <2>3. u.global = h /\ w.global = h
    BY <2>1, GlobalFinite DEF StateFields
  <2>4. u.peer = w.peer
    <3>1. u.peer = [s.peer EXCEPT ![o].init = FALSE, ![o].self = FALSE, ![o].crc = {}]
      BY <2>1, GlobalFinite DEF StateFields
    <3>2. w.peer = [s.peer EXCEPT ![o] = p]
      BY GlobalFinite DEF StateFields
    <3> QED BY <3>1, <3>2
  <2>5. \A f \in StateFields \ {"global", "peer"} : u[f] = s[f] /\ w[f] = s[f]
    BY <2>1, GlobalFinite DEF StateFields
  <2> HIDE DEF u, w
  <2>6. u = [f \in DOMAIN u |-> u[f]] /\ w = [f \in DOMAIN w |-> w[f]]
    <3>1. w = [f \in DOMAIN w |-> w[f]]
      BY DEF w
    <3>2. u = [f \in DOMAIN u |-> u[f]]
      BY <2>1 DEF u
    <3> QED BY <3>1, <3>2
  <2>7. \A f \in StateFields : u[f] = w[f]
    BY <2>3, <2>4, <2>5 DEF StateFields
  <2>8. u = w
    BY <2>2, <2>6, <2>7, GlobalFinite
  <2> QED BY <2>8 DEF u, w
<1> HIDE DEF t, p
<1>6. IsFiniteSet(p.buff)
  BY <1>3, GlobalFinite
<1> QED BY <1>3, <1>4, <1>5, <1>6, PeerKeeps

LEMMA UpdateCrcKeeps ==
  ASSUME NEW s, Good(s), NEW o \in Node
  PROVE  Good(batadv_tt_global_update_crc(s, o))
<1> DEFINE p == [s.peer[o] EXCEPT !.crc = batadv_tt_global_crc(s, o)]
<1>1. DOMAIN p = PeerFields /\ p.buff = s.peer[o].buff
  BY GlobalFinite DEF PeerFields
<1>2. batadv_tt_global_update_crc(s, o) = [s EXCEPT !.peer[o] = p]
  BY DEF batadv_tt_global_update_crc
<1> HIDE DEF p
<1> QED BY <1>1, <1>2, GlobalFinite, PeerKeeps

-----------------------------------------------------------------------------
(* Changes that are applied one after the other. *)

LEMMA LeastNumber ==
  ASSUME NEW S \in SUBSET Nat, S # {}
  PROVE  \E m \in S : \A x \in S : m <= x
<1> DEFINE R == OpToRel(<, Nat)
<1>1. IsWellFoundedOn(R, Nat)
  BY NatLessThanWellFounded
<1>2. \A x, y \in Nat : x < y => <<x, y>> \in R
  BY DEF OpToRel
<1> HIDE DEF R
<1>3. PICK m \in S : \A y \in S : ~(<<y, m>> \in R)
  BY <1>1, WFMin
<1>4. ASSUME NEW x \in S PROVE m <= x
  <2>1. x \in Nat /\ m \in Nat /\ ~(<<x, m>> \in R)
    BY <1>3
  <2>2. ~(x < m)
    BY <1>2, <2>1
  <2> QED BY <2>1, <2>2
<1> QED BY <1>4

\* A set of numbers that holds 0 and the successor of each of its members.
LEMMA AllReached ==
  ASSUME NEW N \in Nat, NEW S, 0 \in S, \A k \in 0..(N - 1) : k \in S => k + 1 \in S
  PROVE  \A k \in 0..N : k \in S
<1> DEFINE T == {k \in 0..N : k \notin S}
<1>1. SUFFICES ASSUME T # {} PROVE FALSE
  OBVIOUS
<1>2. PICK m \in T : \A x \in T : m <= x
  <2>1. T \in SUBSET Nat
    OBVIOUS
  <2> QED BY <1>1, <2>1, LeastNumber
<1>3. m \in 0..N /\ m # 0 /\ m \notin S
  BY <1>2
<1>4. m - 1 \in 0..(N - 1) /\ m - 1 \notin T
  BY <1>2, <1>3
<1>5. m - 1 \in S
  BY <1>4
<1> QED BY <1>3, <1>4, <1>5

\* One step of each of the folds of the model: a change of originator o is applied, a client
\* is dropped because the table has to shrink, and, where frames are sent, a client is added
\* and the table of a neighbour is taken over at the start.
FoldStep(kind, o, x, r) ==
  IF kind = "change" THEN OneChange(r, o, x)
  ELSE IF kind = "shrink"
  THEN IF "PENDING" \in r.local[x] THEN r ELSE batadv_tt_local_set_pending(r, x, {"DEL"})
  ELSE IF kind = "announce"
  THEN batadv_tt_local_event([r EXCEPT !.local = With(@, x, {"NEW"})], x, {})
  ELSE batadv_tt_global_update_crc(
         batadv_tt_fill_gtable(r, x, LocalTable(Announcing(x)), Announcing(x).vn), x)

\* What each of them keeps.
FoldKept(kind, r, S) ==
  IF kind = "shrink" THEN Purgeable(r) /\ S \subseteq DOMAIN r.local
  ELSE IF kind = "announce" THEN Good(r) /\ \A k \in DOMAIN r.local : r.local[k] = {"NEW"}
  ELSE Good(r)

First(T) == CHOOSE x \in T : TRUE

Folds(g, kind, o, s, S) ==
  g = [T \in SUBSET S |-> IF T = {} THEN s ELSE FoldStep(kind, o, First(T), g[T \ {First(T)}])]

LEMMA FoldExists ==
  ASSUME NEW S, IsFiniteSet(S), NEW kind, NEW o, NEW s
  PROVE  \E g : Folds(g, kind, o, s, S)
<1> DEFINE N == Cardinality(S)
           D(n) == {T \in SUBSET S : Cardinality(T) <= n}
           Step(g, T) == IF T = {} THEN s ELSE FoldStep(kind, o, First(T), g[T \ {First(T)}])
           K == {n \in 0..N : \E g : DOMAIN g = D(n) /\ \A T \in D(n) : g[T] = Step(g, T)}
<1>1. N \in Nat
  BY FS_CardinalityType
<1>2. \A T \in SUBSET S : IsFiniteSet(T) /\ Cardinality(T) \in Nat /\ Cardinality(T) <= N
  BY FS_Subset, FS_CardinalityType
<1>3. \A T \in SUBSET S : T # {} => /\ T \ {First(T)} \in SUBSET S
                                    /\ Cardinality(T \ {First(T)}) = Cardinality(T) - 1
  <2> SUFFICES ASSUME NEW T \in SUBSET S, T # {}
               PROVE  Cardinality(T \ {First(T)}) = Cardinality(T) - 1
    OBVIOUS
  <2>1. First(T) \in T
    BY DEF First
  <2> QED BY <1>2, <2>1, FS_RemoveElement
<1>4. 0 \in K
  <2> DEFINE g == [T \in D(0) |-> s]
  <2>1. \A T \in D(0) : T = {}
    BY <1>2, FS_EmptySet
  <2>2. DOMAIN g = D(0) /\ \A T \in D(0) : g[T] = Step(g, T)
    BY <2>1
  <2>3. 0 \in 0..N
    BY <1>1
  <2> HIDE DEF g, D, Step
  <2> QED BY <2>2, <2>3
<1>5. ASSUME NEW n \in 0..(N - 1), n \in K PROVE n + 1 \in K
  <2>1. n \in Nat /\ n + 1 \in 0..N
    BY <1>1
  <2>2. PICK g : DOMAIN g = D(n) /\ \A T \in D(n) : g[T] = Step(g, T)
    BY <1>5
  <2> DEFINE h == [T \in D(n + 1) |-> Step(g, T)]
  <2>3. ASSUME NEW T \in D(n + 1) PROVE h[T] = Step(h, T)
    <3>1. CASE T = {}
      BY <3>1
    <3>2. CASE T # {}
      <4> DEFINE U == T \ {First(T)}
      <4>1. U \in D(n) /\ U \in D(n + 1)
        BY <1>2, <1>3, <2>1, <3>2
      <4>2. g[U] = Step(g, U) /\ h[U] = Step(g, U)
        BY <2>2, <4>1
      <4>3. h[T] = FoldStep(kind, o, First(T), g[U]) /\ Step(h, T) = FoldStep(kind, o, First(T), h[U])
        BY <3>2
      <4> HIDE DEF h, Step, U
      <4> QED BY <4>2, <4>3
    <3> QED BY <3>1, <3>2
  <2>4. DOMAIN h = D(n + 1)
    OBVIOUS
  <2> HIDE DEF h, D, Step
  <2> QED BY <2>1, <2>3, <2>4
<1>6. N \in K
  <2> HIDE DEF K
  <2>1. \A k \in 0..N : k \in K
    BY <1>1, <1>4, <1>5, AllReached
  <2> QED BY <1>1, <2>1
<1>7. D(N) = SUBSET S
  BY <1>2
<1>8. PICK g : DOMAIN g = SUBSET S /\ \A T \in SUBSET S : g[T] = Step(g, T)
  BY <1>6, <1>7
<1> DEFINE h == [T \in SUBSET S |-> g[T]]
<1>9. Folds(h, kind, o, s, S)
  <2>1. \A T \in SUBSET S : T \ {First(T)} \in SUBSET S
    OBVIOUS
  <2>2. \A T \in SUBSET S : Step(h, T) = Step(g, T)
    BY <2>1
  <2>3. h = [T \in SUBSET S |-> Step(h, T)]
    BY <1>8, <2>2
  <2> HIDE DEF h
  <2> QED BY <2>3 DEF Folds
<1> QED BY <1>9

LEMMA FoldsKeep ==
  ASSUME NEW S, IsFiniteSet(S), NEW kind, NEW o, NEW s, NEW g, Folds(g, kind, o, s, S),
         NEW All, S \subseteq All, FoldKept(kind, s, All),
         \A x \in All : \A r : FoldKept(kind, r, All) => FoldKept(kind, FoldStep(kind, o, x, r), All)
  PROVE  FoldKept(kind, g[S], All)
<1> DEFINE N == Cardinality(S)
           K == {n \in 0..N : \A T \in SUBSET S : Cardinality(T) = n => FoldKept(kind, g[T], All)}
<1>1. N \in Nat
  BY FS_CardinalityType
<1>2. \A T \in SUBSET S : IsFiniteSet(T) /\ Cardinality(T) \in Nat
  BY FS_Subset, FS_CardinalityType
<1>3. \A T \in SUBSET S :
        g[T] = IF T = {} THEN s ELSE FoldStep(kind, o, First(T), g[T \ {First(T)}])
  BY DEF Folds
<1>4. 0 \in K
  <2>1. \A T \in SUBSET S : Cardinality(T) = 0 => T = {}
    BY <1>2, FS_EmptySet
  <2> QED BY <1>1, <1>3, <2>1
<1>5. ASSUME NEW n \in 0..(N - 1), n \in K PROVE n + 1 \in K
  <2>1. n \in Nat /\ n + 1 \in 0..N
    BY <1>1
  <2>2. ASSUME NEW T \in SUBSET S, Cardinality(T) = n + 1 PROVE FoldKept(kind, g[T], All)
    <3>1. T # {}
      BY <2>1, <2>2, FS_EmptySet
    <3>2. First(T) \in T
      BY <3>1 DEF First
    <3>3. Cardinality(T \ {First(T)}) = n
      <4>1. IsFiniteSet(T)
        BY <1>2
      <4>2. Cardinality(T \ {First(T)}) = Cardinality(T) - 1
        BY <3>2, <4>1, FS_RemoveElement
      <4> QED BY <2>1, <2>2, <4>2
    <3>4. FoldKept(kind, g[T \ {First(T)}], All)
      BY <1>5, <3>3
    <3>5. g[T] = FoldStep(kind, o, First(T), g[T \ {First(T)}])
      BY <1>3, <3>1
    <3>6. First(T) \in All
      BY <3>2
    <3> QED BY <3>4, <3>5, <3>6
  <2> QED BY <2>1, <2>2
<1>6. N \in K
  <2> HIDE DEF K
  <2>1. \A k \in 0..N : k \in K
    BY <1>1, <1>4, <1>5, AllReached
  <2> QED BY <1>1, <2>1
<1> QED BY <1>6

\* What FoldSet returns is what a fold of the steps above returns.
LEMMA FoldOfChanges ==
  ASSUME OneVlan, NEW S, IsFiniteSet(S), NEW o, NEW s, Good(s)
  PROVE  \E t : Good(t) /\ ApplyChanges(s, o, S) = [t EXCEPT !.peer[o].init = TRUE]
<1> DEFINE Def(g) == [T \in SUBSET S |->
             IF T = {} THEN s ELSE OneChange(g[T \ {CHOOSE x \in T : TRUE}], o, CHOOSE x \in T : TRUE)]
           iter == CHOOSE g : g = Def(g)
<1>1. ApplyChanges(s, o, S) = [iter[S] EXCEPT !.peer[o].init = TRUE]
  BY DEF ApplyChanges, FoldSet, MapThenFoldSet
<1>2. \A g : Folds(g, "change", o, s, S) <=> g = Def(g)
  BY DEF Folds, FoldStep, First
<1>3. iter = Def(iter)
  <2> HIDE DEF Def
  <2> QED BY <1>2, FoldExists
<1>4. Folds(iter, "change", o, s, S)
  <2> HIDE DEF Def, iter
  <2> QED BY <1>2, <1>3
<1>5. \A x \in S : \A r : FoldKept("change", r, S) => FoldKept("change", FoldStep("change", o, x, r), S)
  BY ChangeKeeps DEF FoldKept, FoldStep
<1>6. FoldKept("change", s, S)
  BY DEF FoldKept
<1> HIDE DEF iter
<1>7. FoldKept("change", iter[S], S)
  BY <1>4, <1>5, <1>6, FoldsKeep
<1> QED BY <1>1, <1>7 DEF FoldKept

LEMMA PeerChanged ==
  ASSUME NEW s, Good(s), NEW o \in Node
  PROVE  /\ Good([s EXCEPT !.peer[o].init = TRUE])
         /\ \A v : Good([s EXCEPT !.peer[o].ttvn = v])
         /\ \A b : IsFiniteSet(b) => Good([s EXCEPT !.peer[o].buff = b])
         /\ \A b, v : IsFiniteSet(b) =>
              Good([s EXCEPT !.peer[o].self = TRUE, !.peer[o].buff = b, !.peer[o].ttvn = v])
<1>1. DOMAIN s.peer[o] = PeerFields /\ IsFiniteSet(s.peer[o].buff)
  BY GlobalFinite
<1>2. Good([s EXCEPT !.peer[o].init = TRUE])
  <2> DEFINE p == [s.peer[o] EXCEPT !.init = TRUE]
  <2>1. DOMAIN p = PeerFields /\ IsFiniteSet(p.buff)
    BY <1>1 DEF PeerFields
  <2> HIDE DEF p
  <2>2. Good([s EXCEPT !.peer[o] = p])
    BY <2>1, PeerKeeps
  <2> QED BY <2>2 DEF p
<1>3. ASSUME NEW v PROVE Good([s EXCEPT !.peer[o].ttvn = v])
  <2> DEFINE p == [s.peer[o] EXCEPT !.ttvn = v]
  <2>1. DOMAIN p = PeerFields /\ IsFiniteSet(p.buff)
    BY <1>1 DEF PeerFields
  <2> HIDE DEF p
  <2>2. Good([s EXCEPT !.peer[o] = p])
    BY <2>1, PeerKeeps
  <2> QED BY <2>2 DEF p
<1>4. ASSUME NEW b, IsFiniteSet(b) PROVE Good([s EXCEPT !.peer[o].buff = b])
  <2> DEFINE p == [s.peer[o] EXCEPT !.buff = b]
  <2>1. DOMAIN p = PeerFields /\ IsFiniteSet(p.buff)
    BY <1>1, <1>4 DEF PeerFields
  <2> HIDE DEF p
  <2>2. Good([s EXCEPT !.peer[o] = p])
    BY <2>1, PeerKeeps
  <2> QED BY <2>2 DEF p
<1>5. ASSUME NEW b, NEW v, IsFiniteSet(b)
      PROVE  Good([s EXCEPT !.peer[o].self = TRUE, !.peer[o].buff = b, !.peer[o].ttvn = v])
  <2> DEFINE p == [s.peer[o] EXCEPT !.self = TRUE, !.buff = b, !.ttvn = v]
             t == [s EXCEPT !.peer[o].self = TRUE, !.peer[o].buff = b, !.peer[o].ttvn = v]
  <2>1. DOMAIN p = PeerFields /\ IsFiniteSet(p.buff)
    BY <1>1, <1>5 DEF PeerFields
  <2>2. t = [s EXCEPT !.peer = [s.peer EXCEPT ![o] = p]]
    <3>1. t = [s EXCEPT !.peer = [s.peer EXCEPT ![o].self = TRUE, ![o].buff = b, ![o].ttvn = v]]
      BY GlobalFinite DEF StateFields
    <3>2. [s.peer EXCEPT ![o].self = TRUE, ![o].buff = b, ![o].ttvn = v] = [s.peer EXCEPT ![o] = p]
      BY GlobalFinite
    <3> QED BY <3>1, <3>2
  <2> HIDE DEF p, t
  <2>3. Good([s EXCEPT !.peer[o] = p])
    BY <2>1, PeerKeeps
  <2>4. Good(t)
    BY <2>2, <2>3
  <2> QED BY <2>4 DEF t
<1> QED BY <1>2, <1>3, <1>4, <1>5

LEMMA ApplyKeeps ==
  ASSUME OneVlan, NEW s, Good(s), NEW o \in Node, NEW changes, IsFiniteSet(changes)
  PROVE  Good(ApplyChanges(s, o, changes))
<1>1. PICK t : Good(t) /\ ApplyChanges(s, o, changes) = [t EXCEPT !.peer[o].init = TRUE]
  BY FoldOfChanges
<1> QED BY ZenonT(40), <1>1, PeerChanged

LEMMA UpdateKeeps ==
  ASSUME OneVlan, NEW s, Good(s), NEW o \in Node, NEW changes, IsFiniteSet(changes), NEW ttvn
  PROVE  Good(batadv_tt_update_changes(s, o, changes, ttvn))
<1> DEFINE t == ApplyChanges(s, o, changes)
           u == batadv_tt_save_orig_buffer(t, o, changes)
<1>1. Good(t)
  BY ApplyKeeps
<1>2. Good(u)
  <2> HIDE DEF t
  <2> QED BY <1>1, PeerChanged DEF batadv_tt_save_orig_buffer
<1>3. batadv_tt_update_changes(s, o, changes, ttvn) = [u EXCEPT !.peer[o].ttvn = ttvn]
  BY DEF batadv_tt_update_changes
<1> HIDE DEF u
<1>4. \A v : Good([u EXCEPT !.peer[o].ttvn = v])
  BY <1>2, PeerChanged
<1> QED BY <1>3, <1>4

LEMMA FillKeeps ==
  ASSUME OneVlan, NEW s, Good(s), NEW o \in Node, NEW changes, IsFiniteSet(changes), NEW ttvn
  PROVE  Good(batadv_tt_fill_gtable(s, o, changes, ttvn))
<1> DEFINE t == ApplyChanges(batadv_tt_global_del_orig(s, o), o, changes)
<1>1. Good(t)
  BY DelOrigKeeps, ApplyKeeps
<1>2. batadv_tt_fill_gtable(s, o, changes, ttvn) =
        [t EXCEPT !.peer[o].self = TRUE, !.peer[o].buff = {}, !.peer[o].ttvn = ttvn]
  BY DEF batadv_tt_fill_gtable, NoChanges
<1> HIDE DEF t
<1>3. \A b, v : IsFiniteSet(b) =>
        Good([t EXCEPT !.peer[o].self = TRUE, !.peer[o].buff = b, !.peer[o].ttvn = v])
  BY <1>1, PeerChanged
<1>4. IsFiniteSet({})
  BY FS_EmptySet
<1>5. Good([t EXCEPT !.peer[o].self = TRUE, !.peer[o].buff = {}, !.peer[o].ttvn = ttvn])
  BY <1>3, <1>4
<1> QED BY <1>2, <1>5

-----------------------------------------------------------------------------
(* A new version. *)

LEMMA CommitKeeps ==
  ASSUME NEW s, LocalTyped(s), TablesFinite(s), WifiKept(s),
         s.changes = {} => Agrees(s) /\ NoneBoth(s)
  PROVE  Good(batadv_tt_local_commit_changes(s))
<1> DEFINE t == batadv_tt_local_commit_changes(s)
<1>1. CASE s.changes # {}
  <2> DEFINE L == DOMAIN s.local
             fresh == [k \in L |-> s.local[k] \ {"NEW"}]
             counted == s.size + Cardinality(L \ Announced(s))
             u == batadv_tt_local_set_flags(s)
             gone == {k \in L : "PENDING" \in fresh[k]}
             r == batadv_tt_local_purge_pending_clients(u)
             q == [batadv_tt_local_update_crc(r) EXCEPT !.vn = (@ + 1) % VN, !.append = OGM_APPEND_MAX]
             sent == IF Cardinality(s.changes) > MtuEntries THEN NoChanges ELSE s.changes
  <2>1. t = batadv_tt_tvlv_container_update(q)
    BY <1>1 DEF batadv_tt_local_commit_changes
  <2>2. /\ DOMAIN u = StateFields /\ u.local = fresh /\ u.size = counted
        /\ \A f \in StateFields \ {"local", "size"} : u[f] = s[f]
    BY DEF batadv_tt_local_set_flags, batadv_tt_local_size_mod, LocalTyped, StateFields
  <2> HIDE DEF u
  <2>3. /\ DOMAIN r = StateFields /\ r.local = Without(fresh, gone)
        /\ r.size = counted - Cardinality(gone)
        /\ \A f \in StateFields \ {"local", "size"} : r[f] = s[f]
    <3>1. gone = {k \in DOMAIN u.local : "PENDING" \in u.local[k]}
      BY <2>2
    <3>2. r = [[u EXCEPT !.local = Without(@, gone)] EXCEPT !.size = @ + (-Cardinality(gone))]
      BY <3>1 DEF batadv_tt_local_purge_pending_clients, batadv_tt_local_size_mod
    <3>3. counted \in Int /\ Cardinality(gone) \in Int
      <4>1. IsFiniteSet(L)
        BY DEF LocalTyped
      <4>2. IsFiniteSet(L \ Announced(s)) /\ IsFiniteSet(gone)
        BY <4>1, FS_Subset
      <4>3. Cardinality(L \ Announced(s)) \in Nat /\ Cardinality(gone) \in Nat
        BY <4>2, FS_CardinalityType
      <4> QED BY <4>3 DEF LocalTyped
    <3> HIDE DEF r, gone, fresh, counted
    <3> QED BY <2>2, <3>2, <3>3 DEF StateFields
  <2> HIDE DEF r
  <2>4. DOMAIN q = StateFields /\ \A f \in StateFields \ {"crc", "vn", "append"} : q[f] = r[f]
    BY <2>3 DEF batadv_tt_local_update_crc, StateFields
  <2> HIDE DEF q
  <2>5. q.changes = s.changes /\ q.lastset = s.lastset
    BY <2>3, <2>4 DEF StateFields
  <2>6. /\ DOMAIN t = StateFields /\ t.changes = {} /\ t.lastset = sent
        /\ t.container.changes = sent
        /\ \A f \in StateFields \ {"changes", "lastset", "container"} : t[f] = q[f]
    <3>1. t = [q EXCEPT !.container = batadv_tt_prepare_tvlv_local_data(q, sent),
                        !.changes = NoChanges, !.lastset = sent]
      BY <1>1, <2>1, <2>5 DEF batadv_tt_tvlv_container_update
    <3> HIDE DEF t, sent
    <3> QED BY <2>4, <3>1 DEF batadv_tt_prepare_tvlv_local_data, NoChanges, StateFields
  <2> HIDE DEF t
  <2>7. IsFiniteSet(L) /\ IsFiniteSet(s.changes) /\ IsFiniteSet(sent)
    BY FS_EmptySet DEF LocalTyped, NoChanges
  <2>8. t.local = Without(fresh, gone) /\ t.size = counted - Cardinality(gone)
    BY <2>3, <2>4, <2>6 DEF StateFields
  <2>9. DOMAIN t.local = L \ gone /\ \A k \in L \ gone : t.local[k] = s.local[k] \ {"NEW"}
    BY <2>8 DEF Without
  <2>10. t.size \in Int /\ IsFiniteSet(DOMAIN t.local)
    <3>1. IsFiniteSet(L \ Announced(s)) /\ IsFiniteSet(gone) /\ IsFiniteSet(L \ gone)
      BY <2>7, FS_Subset
    <3>2. Cardinality(L \ Announced(s)) \in Nat /\ Cardinality(gone) \in Nat
      BY <3>1, FS_CardinalityType
    <3>3. t.size \in Int
      BY <2>8, <3>2 DEF LocalTyped
    <3> QED BY <2>9, <3>1, <3>3
  <2>11. \A k \in DOMAIN t.local : {"NEW", "PENDING"} \cap t.local[k] = {}
    BY <2>9
  <2>12. LocalTyped(t)
    BY <2>6, <2>9, <2>10, FS_EmptySet DEF LocalTyped
  <2>13. WifiKept(t) /\ NoneBoth(t)
    BY <2>9 DEF WifiKept, NoneBoth
  <2>14. t.global = s.global /\ t.peer = s.peer
    BY <2>3, <2>4, <2>6 DEF StateFields
  <2>15. TablesFinite(t)
    BY <2>6, <2>7, <2>14 DEF TablesFinite
  <2>16. Agrees(t)
    BY <2>6, <2>11 DEF Agrees, Single, Wanted, Queued, Known
  <2> QED BY <2>12, <2>13, <2>15, <2>16 DEF Good, Purgeable, t
<1>2. CASE s.changes = {} /\ s.append = 0
  <2>1. t = [s EXCEPT !.container = batadv_tt_prepare_tvlv_local_data(s, {}), !.changes = {}, !.lastset = @]
    <3>1. ~(Cardinality({}) > MtuEntries) \/ (Cardinality({}) > MtuEntries)
      OBVIOUS
    <3>2. (IF Cardinality(s.changes) > MtuEntries THEN NoChanges ELSE s.changes) = {}
      BY <1>2 DEF NoChanges
    <3> QED BY <1>2, <3>2 DEF batadv_tt_local_commit_changes, batadv_tt_tvlv_container_update, NoChanges
  <2> HIDE DEF t
  <2>2. /\ DOMAIN t = StateFields /\ t.changes = {} /\ t.lastset = s.lastset /\ t.container.changes = {}
        /\ \A f \in StateFields \ {"container"} : t[f] = s[f]
    BY <1>2, <2>1 DEF batadv_tt_prepare_tvlv_local_data, LocalTyped, StateFields
  <2>3. OnlyRemote(s, t)
    BY <1>2, <2>2 DEF OnlyRemote, StateFields
  <2>4. TablesFinite(t)
    BY <2>2, FS_EmptySet DEF TablesFinite, StateFields
  <2>5. Good(s)
    BY <1>2 DEF Good, Purgeable
  <2> QED BY <2>3, <2>4, <2>5, RemoteKeeps DEF t
<1>3. CASE s.changes = {} /\ s.append # 0
  <2>1. t = [s EXCEPT !.append = @ - 1]
    BY <1>3 DEF batadv_tt_local_commit_changes
  <2> HIDE DEF t
  <2>2. OnlyRemote(s, t) /\ TablesFinite(t)
    BY <2>1 DEF OnlyRemote, TablesFinite, LocalTyped, StateFields
  <2>3. Good(s)
    BY <1>3 DEF Good, Purgeable
  <2> QED BY <2>2, <2>3, RemoteKeeps DEF t
<1> QED BY <1>1, <1>2, <1>3

LEMMA MaxKeeps ==
  ASSUME NEW s, Good(s), NEW max
  PROVE  Good([s EXCEPT !.max = max])
<1> DEFINE t == [s EXCEPT !.max = max]
<1>1. OnlyRemote(s, t) /\ TablesFinite(t)
  BY DEF OnlyRemote, TablesFinite, Good, Purgeable, LocalTyped, StateFields
<1> HIDE DEF t
<1>2. Good(t)
  BY <1>1, RemoteKeeps
<1> QED BY <1>2 DEF t

-----------------------------------------------------------------------------
(* A table that has to shrink. *)

\* Clients that are dropped are marked one after the other.
LEMMA ShrinkFold ==
  ASSUME OneVlan, NEW n \in Node, NEW max, NEW idle, Good(node[n]), DOMAIN node = Node,
         batadv_tt_local_resize_to_mtu(n, max, idle)
  PROVE  \E r : /\ Purgeable(r)
                /\ \/ node' = [node EXCEPT ![n] = [node[n] EXCEPT !.max = max]]
                   \/ node' = [node EXCEPT ![n] =
                        [batadv_tt_local_commit_changes(batadv_tt_local_purge_pending_clients(r)) EXCEPT !.max = max]]
<1> DEFINE s == node[n]
           pend(r, k) == IF "PENDING" \in r.local[k] THEN r ELSE batadv_tt_local_set_pending(r, k, {"DEL"})
           Def(g) == [T \in SUBSET idle |->
             IF T = {} THEN s ELSE pend(g[T \ {CHOOSE x \in T : TRUE}], CHOOSE x \in T : TRUE)]
           iter == CHOOSE g : g = Def(g)
           r == iter[idle]
           reduced == batadv_tt_local_table_transmit_size(s) > max
<1>1. /\ idle \subseteq DOMAIN s.local
      /\ node' = [node EXCEPT ![n] =
           [(IF reduced THEN batadv_tt_local_commit_changes(batadv_tt_local_purge_pending_clients(r)) ELSE s)
              EXCEPT !.max = max]]
  BY DEF batadv_tt_local_resize_to_mtu, FoldSet, MapThenFoldSet
<1>2. IsFiniteSet(idle)
  <2>1. IsFiniteSet(DOMAIN s.local)
    BY DEF Good, Purgeable, LocalTyped
  <2> QED BY <1>1, <2>1, FS_Subset
<1>3. \A g : Folds(g, "shrink", 0, s, idle) <=> g = Def(g)
  BY DEF Folds, FoldStep, First
<1>4. iter = Def(iter)
  <2> HIDE DEF Def, s
  <2> QED BY <1>2, <1>3, FoldExists
<1>5. Folds(iter, "shrink", 0, s, idle)
  <2> HIDE DEF Def, iter
  <2> QED BY <1>3, <1>4
<1> HIDE DEF iter
<1>6. ASSUME NEW x \in idle, NEW q, FoldKept("shrink", q, idle)
      PROVE  FoldKept("shrink", FoldStep("shrink", 0, x, q), idle)
  <2>1. Purgeable(q) /\ idle \subseteq DOMAIN q.local /\ x \in DOMAIN q.local
    BY <1>6 DEF FoldKept
  <2> DEFINE t == FoldStep("shrink", 0, x, q)
  <2>2. CASE "PENDING" \in q.local[x]
    BY <1>6, <2>2 DEF FoldStep
  <2>3. CASE "PENDING" \notin q.local[x]
    <3>1. t = batadv_tt_local_set_pending(q, x, {"DEL"})
      BY <2>3 DEF FoldStep
    <3>2. ~({"NEW", "PENDING"} \subseteq q.local[x])
      BY <2>3
    <3> HIDE DEF t
    <3>3. Purgeable(t) /\ EntryBecomes(q, t, x, q.local[x] \cup {"PENDING"})
      BY <2>1, <3>1, <3>2, PendingKeeps
    <3>4. FoldKept("shrink", t, idle)
      BY <2>1, <3>3 DEF FoldKept, EntryBecomes
    <3> QED BY <3>4 DEF t
  <2> QED BY <2>2, <2>3
<1>7. FoldKept("shrink", s, idle)
  BY <1>1 DEF FoldKept, Good
<1>8. FoldKept("shrink", iter[idle], idle)
  <2> HIDE DEF s
  <2> QED BY <1>2, <1>5, <1>6, <1>7, FoldsKeep
<1>9. Purgeable(r)
  BY <1>8 DEF FoldKept
<1> HIDE DEF r
<1> QED BY <1>1, <1>9

\* They leave before the version is committed.  Nothing is forgotten: where no change is
\* queued they are clients that were never announced.
LEMMA PurgeCommits ==
  ASSUME NEW r, Purgeable(r)
  PROVE  Good(batadv_tt_local_commit_changes(batadv_tt_local_purge_pending_clients(r)))
<1> DEFINE gone == {k \in DOMAIN r.local : "PENDING" \in r.local[k]}
           p == batadv_tt_local_purge_pending_clients(r)
<1>1. LocalTyped(r) /\ TablesFinite(r) /\ WifiKept(r) /\ Agrees(r)
  BY DEF Purgeable
<1>2. IsFiniteSet(gone) /\ Cardinality(gone) \in Int /\ IsFiniteSet(DOMAIN r.local \ gone)
  <2>1. IsFiniteSet(DOMAIN r.local)
    BY <1>1 DEF LocalTyped
  <2>2. IsFiniteSet(gone) /\ IsFiniteSet(DOMAIN r.local \ gone)
    BY <2>1, FS_Subset
  <2>3. Cardinality(gone) \in Nat
    BY <2>2, FS_CardinalityType
  <2> QED BY <2>2, <2>3
<1>3. p = [[r EXCEPT !.local = Without(@, gone)] EXCEPT !.size = @ + (-Cardinality(gone))]
  BY DEF batadv_tt_local_purge_pending_clients, batadv_tt_local_size_mod
<1>4. gone = {k \in DOMAIN r.local : "PENDING" \in r.local[k]}
  OBVIOUS
<1> HIDE DEF p, gone
<1>5. /\ DOMAIN p = StateFields /\ p.local = Without(r.local, gone)
      /\ p.size = r.size + (-Cardinality(gone)) /\ OnlyLocal(r, p) /\ p.changes = r.changes
  BY <1>1, <1>3 DEF LocalTyped, StateFields, OnlyLocal
<1>6. DOMAIN p.local = DOMAIN r.local \ gone /\ \A k \in DOMAIN p.local : p.local[k] = r.local[k]
  BY <1>5 DEF Without
<1>7. LocalTyped(p)
  BY <1>1, <1>2, <1>5, <1>6 DEF LocalTyped
<1>8. TablesFinite(p)
  BY <1>1, <1>5, OnlyLocalFinite
<1>9. WifiKept(p) /\ NoneBoth(p)
  BY <1>1, <1>4, <1>6 DEF WifiKept, NoneBoth
<1>10. ASSUME p.changes = {} PROVE Agrees(p)
  <2>1. \A k \in Client : Queued(r, k) = "nothing" /\ Queued(p, k) = "nothing"
    BY <1>5, <1>10 DEF Queued
  <2>2. \A k \in Client : Wanted(r, k) = "nothing"
    BY <1>1, <2>1 DEF Agrees
  <2>3. \A k \in Client : Wanted(p, k) = "nothing"
    BY <1>4, <1>6, <2>2 DEF Wanted, Known
  <2> QED BY <1>10, <2>1, <2>3 DEF Agrees, Single
<1>11. Good(batadv_tt_local_commit_changes(p))
  BY <1>7, <1>8, <1>9, <1>10, CommitKeeps
<1> QED BY <1>11 DEF p

LEMMA ShrinkKeeps ==
  ASSUME OneVlan, TtInv, NEW n \in Node, NEW max, NEW idle, batadv_tt_local_resize_to_mtu(n, max, idle)
  PROVE  \A x \in Node : Good(node'[x])
<1>1. Good(node[n]) /\ DOMAIN node = Node /\ \A x \in Node : Good(node[x])
  BY DEF TtInv
<1>2. PICK r : /\ Purgeable(r)
               /\ \/ node' = [node EXCEPT ![n] = [node[n] EXCEPT !.max = max]]
                  \/ node' = [node EXCEPT ![n] =
                       [batadv_tt_local_commit_changes(batadv_tt_local_purge_pending_clients(r)) EXCEPT !.max = max]]
  BY <1>1, ShrinkFold
<1> DEFINE q == batadv_tt_local_commit_changes(batadv_tt_local_purge_pending_clients(r))
<1>3. Good([node[n] EXCEPT !.max = max])
  BY <1>1, MaxKeeps
<1>4. Good(q)
  BY <1>2, PurgeCommits
<1> HIDE DEF q
<1>5. Good([q EXCEPT !.max = max])
  BY <1>4, MaxKeeps
<1>6. \E t : Good(t) /\ node' = [node EXCEPT ![n] = t]
  BY <1>2, <1>3, <1>5 DEF q
<1> QED BY <1>1, <1>6

-----------------------------------------------------------------------------
(* Frames of clients. *)

\* The entry of client k has changed, and its event follows.
LEMMA EventKeeps ==
  ASSUME OneVlan, NEW s, Purgeable(s), NEW k \in Client,
         NEW u, LocalTyped(u), TablesFinite(u), WifiKept(u), OthersKept(s, u, k), u.changes = s.changes,
         k \in DOMAIN u.local, Wanted(u, k) = IF Wanted(s, k) = "delete" THEN "nothing" ELSE "add",
         NEW t, t = batadv_tt_local_event(u, k, {})
  PROVE  Purgeable(t) /\ t.local = u.local
<1>1. Agrees(s) /\ Single(s) /\ Single(u)
  BY DEF Purgeable, Agrees, Single
<1>2. \A l \in Client : Queued(u, l) = Queued(s, l)
  BY DEF Queued
<1>3. /\ DOMAIN t = StateFields /\ \A f \in StateFields \ {"changes"} : t[f] = u[f]
      /\ t.changes \subseteq Change /\ IsFiniteSet(t.changes) /\ Single(t)
      /\ Queued(t, k) = EventQueued(u, k, {})
      /\ \A l \in Client \ {k} : Queued(t, l) = Queued(u, l)
  BY <1>1, EventQueues
<1>4. t.local = u.local /\ t.size = u.size /\ OnlyLocal(u, t)
  BY <1>3 DEF StateFields, OnlyLocal
<1>5. LocalTyped(t) /\ WifiKept(t)
  BY <1>3, <1>4 DEF LocalTyped, WifiKept
<1>6. TablesFinite(t)
  BY <1>4, OnlyLocalFinite
<1>7. OthersKept(s, t, k) /\ Wanted(t, k) = Wanted(u, k)
  BY <1>4 DEF OthersKept, Wanted, Known
<1>8. Queued(t, k) = IF Wanted(s, k) = "delete" THEN "nothing" ELSE "add"
  <2>1. Wanted(s, k) = Queued(s, k)
    BY <1>1 DEF Agrees
  <2>2. Queued(u, k) = Wanted(s, k)
    BY <1>2, <2>1
  <2> QED BY <1>3, <2>2 DEF EventQueued
<1>9. Agrees(t)
  <2>1. \A l \in Client \ {k} : Queued(t, l) = Queued(s, l)
    BY <1>2, <1>3
  <2> QED BY <1>1, <1>3, <1>7, <1>8, <2>1, AgreesAfter
<1> QED BY <1>4, <1>5, <1>6, <1>9 DEF Purgeable

NewFlags(flags) == flags \in {{"NEW"}, {"NEW", "WIFI"}} /\ ("WIFI" \in flags <=> TRUE \in Wifi)
Addable(s, k, flags) == k \in DOMAIN s.local => s.local[k] = flags
Added(s, k, flags) == batadv_tt_local_event([s EXCEPT !.local = With(@, k, flags)], k, {})

\* A client that is new; it may be in the table already, where the start is put together.
LEMMA NewKeeps ==
  ASSUME OneVlan, NEW s, Good(s), NEW k \in Client, NEW flags, NewFlags(flags), Addable(s, k, flags)
  PROVE  Good(Added(s, k, flags)) /\ EntryBecomes(s, Added(s, k, flags), k, flags)
<1> DEFINE u == [s EXCEPT !.local = With(@, k, flags)]
           t == Added(s, k, flags)
<1>0. /\ flags \in SUBSET {"NEW", "WIFI"} /\ "NEW" \in flags /\ ("WIFI" \in flags <=> TRUE \in Wifi)
      /\ k \in DOMAIN s.local => s.local[k] = flags
  BY DEF NewFlags, Addable
<1>1. LocalTyped(s) /\ TablesFinite(s) /\ WifiKept(s) /\ NoneBoth(s) /\ Purgeable(s)
  BY DEF Good, Purgeable
<1>2. /\ DOMAIN u = StateFields /\ u.local = With(s.local, k, flags) /\ OnlyLocal(s, u)
      /\ u.changes = s.changes /\ u.size = s.size
  BY <1>1 DEF LocalTyped, StateFields, OnlyLocal
<1>3. t = batadv_tt_local_event(u, k, {})
  BY DEF Added
<1> HIDE DEF t, u
<1>4. EntryBecomes(s, u, k, flags)
  BY <1>2 DEF EntryBecomes, With
<1>5. LocalTyped(u) /\ TablesFinite(u) /\ WifiKept(u) /\ OthersKept(s, u, k)
  <2>1. u.changes \subseteq Change /\ IsFiniteSet(u.changes) /\ u.size \in Int
    BY <1>1, <1>2 DEF LocalTyped
  <2>2. flags \in SUBSET {"NEW", "PENDING", "ROAM", "WIFI"}
    BY <1>0
  <2> QED BY <1>0, <1>1, <1>2, <1>4, <2>1, <2>2, EntryTyped
<1>6. k \in DOMAIN u.local /\ Wanted(u, k) = "add" /\ Wanted(s, k) # "delete"
  BY <1>0, <1>4 DEF EntryBecomes, Wanted, Known
<1>7. Purgeable(t) /\ t.local = u.local
  BY <1>1, <1>2, <1>3, <1>5, <1>6, EventKeeps
<1>8. NoneBoth(t)
  BY <1>0, <1>1, <1>4, <1>7 DEF NoneBoth, EntryBecomes
<1> QED BY <1>4, <1>7, <1>8 DEF Good, EntryBecomes, t

\* A client that comes back before its departure was announced.
LEMMA BackKeeps ==
  ASSUME OneVlan, NEW s, Good(s), NEW k \in DOMAIN s.local, "PENDING" \in s.local[k],
         NEW t, t = batadv_tt_local_event([s EXCEPT !.local[k] = @ \ {"PENDING"}], k, {})
  PROVE  Good(t) /\ k \in DOMAIN t.local
<1> DEFINE flags == s.local[k] \ {"PENDING"}
           u == [s EXCEPT !.local[k] = flags]
<1>1. LocalTyped(s) /\ TablesFinite(s) /\ WifiKept(s) /\ NoneBoth(s) /\ Purgeable(s)
  BY DEF Good, Purgeable
<1>2. /\ DOMAIN u = StateFields /\ u.local = [s.local EXCEPT ![k] = flags] /\ OnlyLocal(s, u)
      /\ u.changes = s.changes /\ u.size = s.size
  BY <1>1 DEF LocalTyped, StateFields, OnlyLocal
<1>3. t = batadv_tt_local_event(u, k, {})
  OBVIOUS
<1>4. k \in Client /\ flags \in SUBSET {"NEW", "PENDING", "ROAM", "WIFI"} /\ ("WIFI" \in flags <=> TRUE \in Wifi)
  BY <1>1 DEF LocalTyped, WifiKept
<1>5. "NEW" \notin flags /\ "PENDING" \notin flags
  BY <1>1 DEF NoneBoth
<1> HIDE DEF u, flags
<1>6. EntryBecomes(s, u, k, flags)
  BY <1>2 DEF EntryBecomes
<1>7. LocalTyped(u) /\ TablesFinite(u) /\ WifiKept(u) /\ OthersKept(s, u, k)
  <2>1. u.changes \subseteq Change /\ IsFiniteSet(u.changes) /\ u.size \in Int
    BY <1>1, <1>2 DEF LocalTyped
  <2> QED BY <1>1, <1>2, <1>4, <1>6, <2>1, EntryTyped
<1>8. Wanted(u, k) = "nothing" /\ Wanted(s, k) = "delete"
  BY <1>1, <1>5, <1>6 DEF EntryBecomes, Wanted, Known, NoneBoth
<1>9. Purgeable(t) /\ t.local = u.local
  BY <1>1, <1>2, <1>3, <1>4, <1>6, <1>7, <1>8, EventKeeps DEF EntryBecomes
<1>10. NoneBoth(t)
  BY <1>1, <1>5, <1>6, <1>9 DEF NoneBoth, EntryBecomes
<1> QED BY <1>6, <1>9, <1>10 DEF Good, EntryBecomes

LEMMA LocalAddKeeps ==
  ASSUME OneVlan, SameInterface, TtInv, NEW n \in Node, NEW k \in Client, NEW wifi \in Wifi,
         LocalAdd(n, k, wifi)
  PROVE  TtInv'
<1> DEFINE s == node[n]
           known == Known(s.local, k)
           pending == known /\ "PENDING" \in s.local[k]
           back == known /\ ~pending /\ "ROAM" \in s.local[k]
           flag == IF wifi THEN {"WIFI"} ELSE {}
           s1 == IF ~known
                 THEN batadv_tt_local_event([s EXCEPT !.local = With(@, k, {"NEW"} \cup flag)], k, {})
                 ELSE IF pending
                 THEN batadv_tt_local_event([s EXCEPT !.local[k] = @ \ {"PENDING"}], k, {})
                 ELSE [s EXCEPT !.local[k] = @ \ {"ROAM"}]
           roamed == Known(s.global, k) /\ "ROAM" \notin s.global[k].flags
           origs == IF roamed THEN DOMAIN s.global[k].origs ELSE {}
           q == [s1 EXCEPT !.roams[k] = @ - batadv_tt_check_roam_count(s, k, Cardinality(origs))]
           s2 == IF ~roamed THEN s1
                 ELSE IF back THEN batadv_tt_global_free(q, k)
                      ELSE [q EXCEPT !.global[k].flags = @ \cup {"ROAM"}]
           s3 == [s2 EXCEPT !.local[k] = (@ \ {"WIFI"}) \cup flag]
           s4 == IF s3.local[k] = s2.local[k] THEN s3 ELSE batadv_tt_local_event(s3, k, {})
<1>1. /\ node' = [node EXCEPT ![n] = s4]
      /\ net' = net \cup batadv_send_roam_adv(n, k, origs)
  BY DEF LocalAdd
<1>2. Good(s) /\ DOMAIN node = Node /\ \A x \in Node : Good(node[x])
  BY DEF TtInv
<1>3. "WIFI" \in flag <=> TRUE \in Wifi
  BY DEF SameInterface
<1>4. Good(s1) /\ k \in DOMAIN s1.local
  <2>1. CASE ~known
    <3> DEFINE flags == {"NEW"} \cup flag
    <3>1. NewFlags(flags)
      BY <1>3 DEF NewFlags
    <3>2. k \notin DOMAIN s.local
      BY <2>1 DEF Known
    <3>3. s1 = Added(s, k, flags)
      BY <2>1 DEF Added
    <3> HIDE DEF s, s1, flags, known
    <3>4. Addable(s, k, flags)
      BY <3>2 DEF Addable
    <3>5. Good(s1) /\ EntryBecomes(s, s1, k, flags)
      BY <1>2, <3>1, <3>3, <3>4, NewKeeps
    <3> QED BY <3>5 DEF EntryBecomes
  <2>2. CASE known /\ pending
    <3>1. s1 = batadv_tt_local_event([s EXCEPT !.local[k] = @ \ {"PENDING"}], k, {})
      BY <2>2
    <3>2. k \in DOMAIN s.local /\ "PENDING" \in s.local[k]
      BY <2>2 DEF Known
    <3> HIDE DEF s, s1
    <3> QED BY <1>2, <3>1, <3>2, BackKeeps
  <2>3. CASE known /\ ~pending
    <3>1. s1 = [s EXCEPT !.local[k] = s.local[k] \ {"ROAM"}]
      BY <2>3
    <3>2. k \in DOMAIN s.local
      BY <2>3 DEF Known
    <3> HIDE DEF s, s1
    <3>3. Good(s1) /\ EntryBecomes(s, s1, k, s.local[k] \ {"ROAM"})
      BY <1>2, <3>1, <3>2, RoamMarked
    <3> QED BY <3>2, <3>3 DEF EntryBecomes
  <2> QED BY <2>1, <2>2, <2>3
<1> HIDE DEF s1
<1>5. Good(q) /\ q.local = s1.local
  <2>1. \A v : OnlyRemote(s1, [s1 EXCEPT !.roams[k] = v]) /\ TablesFinite([s1 EXCEPT !.roams[k] = v])
    BY <1>4 DEF OnlyRemote, TablesFinite, Good, Purgeable, LocalTyped, StateFields
  <2>2. \A v : Good([s1 EXCEPT !.roams[k] = v])
    BY <1>4, <2>1, RemoteKeeps
  <2>3. \A v : [s1 EXCEPT !.roams[k] = v].local = s1.local
    BY <2>1 DEF OnlyRemote
  <2> QED BY <2>2, <2>3
<1> HIDE DEF q
<1>6. Good(s2) /\ s2.local = s1.local
  <2>1. Good(batadv_tt_global_free(q, k)) /\ batadv_tt_global_free(q, k).local = q.local
    BY <1>5, FreeKeeps, GlobalFinite DEF batadv_tt_global_free, StateFields
  <2>2. \A e : Good([q EXCEPT !.global[k] = e])
    BY <1>5, EntryKeeps
  <2>3. \A e : [q EXCEPT !.global[k] = e].local = q.local
    BY <1>5, GlobalFinite DEF StateFields
  <2>4. [q EXCEPT !.global[k].flags = @ \cup {"ROAM"}] =
          [q EXCEPT !.global[k] = [q.global[k] EXCEPT !.flags = @ \cup {"ROAM"}]]
    OBVIOUS
  <2> QED BY <1>4, <1>5, <2>1, <2>2, <2>3, <2>4
<1> HIDE DEF s2
<1>7. k \in DOMAIN s2.local /\ DOMAIN s2 = StateFields /\ (s2.local[k] \ {"WIFI"}) \cup flag = s2.local[k]
  BY <1>3, <1>4, <1>6 DEF Good, Purgeable, LocalTyped, WifiKept
<1>8. s3 = [s2 EXCEPT !.local[k] = s2.local[k]] /\ s3.local[k] = s2.local[k]
  BY <1>7 DEF StateFields
<1>9. Good(s4)
  <2>1. s4 = s3
    BY <1>8
  <2>2. Good(s3)
    <3> HIDE DEF s3
    <3> QED BY <1>6, <1>7, <1>8, RoamMarked
  <2> QED BY <2>1, <2>2
<1> HIDE DEF s4
<1>10. \A m \in batadv_send_roam_adv(n, k, origs) : m.type = "ROAM"
  <2> HIDE DEF origs
  <2> QED BY DEF batadv_send_roam_adv
<1>11. \A m \in net' : MessageTyped(m)
  BY <1>1, <1>10 DEF TtInv, MessageTyped
<1>12. DOMAIN node' = Node /\ \A x \in Node : Good(node'[x])
  <2> HIDE DEF s
  <2> QED BY <1>1, <1>2, <1>9
<1> QED BY <1>11, <1>12 DEF TtInv

-----------------------------------------------------------------------------
(* Messages. *)

LEMMA SubsetOfSize ==
  ASSUME NEW S, IsFiniteSet(S), NEW n \in 0..Cardinality(S)
  PROVE  \E T \in SUBSET S : Cardinality(T) = n
<1> DEFINE N == Cardinality(S)
           K == {k \in 0..N : \E T \in SUBSET S : Cardinality(T) = k}
<1>1. N \in Nat
  BY FS_CardinalityType
<1>2. 0 \in K
  BY <1>1, FS_EmptySet
<1>3. ASSUME NEW k \in 0..(N - 1), k \in K PROVE k + 1 \in K
  <2>1. PICK T \in SUBSET S : Cardinality(T) = k
    BY <1>3
  <2>2. PICK x \in S : x \notin T
    <3>1. T # S
      BY <1>1, <2>1
    <3> QED BY <3>1
  <2>3. IsFiniteSet(T)
    BY FS_Subset
  <2>4. Cardinality(T \cup {x}) = k + 1
    BY <2>1, <2>2, <2>3, FS_AddElement
  <2>5. T \cup {x} \in SUBSET S /\ k + 1 \in 0..N
    BY <1>1
  <2> QED BY <2>4, <2>5
<1>4. \A k \in 0..N : k \in K
  <2> HIDE DEF K
  <2> QED BY <1>1, <1>2, <1>3, AllReached
<1> QED BY <1>4

LEMMA GenerateFinite ==
  ASSUME NEW S, IsFiniteSet(S), NEW space \in Int
  PROVE  IsFiniteSet(batadv_tt_tvlv_generate(S, space))
<1> DEFINE n == IF space < 0 THEN 0 ELSE space
<1>1. Cardinality(S) \in Nat
  BY FS_CardinalityType
<1>2. CASE Cardinality(S) <= space
  BY <1>2 DEF batadv_tt_tvlv_generate
<1>3. CASE ~(Cardinality(S) <= space)
  <2>1. n \in 0..Cardinality(S)
    BY <1>1, <1>3
  <2>2. batadv_tt_tvlv_generate(S, space) = CHOOSE T \in SUBSET S : Cardinality(T) = n
    BY <1>3 DEF batadv_tt_tvlv_generate
  <2> HIDE DEF n
  <2>3. batadv_tt_tvlv_generate(S, space) \in SUBSET S
    BY <2>1, <2>2, SubsetOfSize
  <2> QED BY <2>3, FS_Subset
<1> QED BY <1>2, <1>3

LEMMA ImageFinite ==
  ASSUME NEW S, IsFiniteSet(S), NEW f, DOMAIN f = S
  PROVE  IsFiniteSet({f[x] : x \in S})
<1> DEFINE T == {f[x] : x \in S}
           g == [x \in S |-> f[x]]
<1>1. g \in Surjection(S, T)
  BY DEF Surjection
<1> QED BY <1>1, FS_Surjection

LEMMA TablesToSend ==
  ASSUME NEW s, Good(s), NEW o
  PROVE  IsFiniteSet(LocalTable(s)) /\ IsFiniteSet(GlobalTable(s, o))
<1>1. IsFiniteSet(DOMAIN s.local) /\ s.size \in Int /\ IsFiniteSet(DOMAIN s.global)
  BY DEF Good, Purgeable, LocalTyped, TablesFinite
<1>2. IsFiniteSet(Announced(s)) /\ IsFiniteSet(AnnouncedBy(s, o))
      /\ IsFiniteSet({k \in DOMAIN s.global : o \in DOMAIN s.global[k].origs})
  <2>1. Announced(s) \subseteq DOMAIN s.local /\ AnnouncedBy(s, o) \subseteq DOMAIN s.global
    BY DEF Announced, AnnouncedBy
  <2> QED BY <1>1, <2>1, FS_Subset
<1>3. IsFiniteSet({[key |-> k, flags |-> WireFlags(s.local[k])] : k \in Announced(s)})
  <2> DEFINE A == Announced(s)
             f == [k \in A |-> [key |-> k, flags |-> WireFlags(s.local[k])]]
  <2>1. IsFiniteSet({f[k] : k \in A})
    <3> HIDE DEF A
    <3>1. DOMAIN f = A /\ IsFiniteSet(A)
      BY <1>2 DEF A
    <3> HIDE DEF f
    <3> QED BY <3>1, ImageFinite
  <2>2. \A k \in A : f[k] = [key |-> k, flags |-> WireFlags(s.local[k])]
    OBVIOUS
  <2>3. {f[k] : k \in A} = {[key |-> k, flags |-> WireFlags(s.local[k])] : k \in A}
    <3> HIDE DEF A, f
    <3> QED BY <2>2
  <2> QED BY <2>1, <2>3
<1>4. IsFiniteSet({[key |-> k, flags |-> s.global[k].origs[o]] : k \in AnnouncedBy(s, o)})
  <2> DEFINE A == AnnouncedBy(s, o)
             f == [k \in A |-> [key |-> k, flags |-> s.global[k].origs[o]]]
  <2>1. IsFiniteSet({f[k] : k \in A})
    <3> HIDE DEF A
    <3>1. DOMAIN f = A /\ IsFiniteSet(A)
      BY <1>2 DEF A
    <3> HIDE DEF f
    <3> QED BY <3>1, ImageFinite
  <2>2. \A k \in A : f[k] = [key |-> k, flags |-> s.global[k].origs[o]]
    OBVIOUS
  <2>3. {f[k] : k \in A} = {[key |-> k, flags |-> s.global[k].origs[o]] : k \in A}
    <3> HIDE DEF A, f
    <3> QED BY <2>2
  <2> QED BY <2>1, <2>3
<1>5. batadv_tt_prepare_tvlv_global_data(s, o) \in Int
  BY <1>2, FS_CardinalityType DEF batadv_tt_prepare_tvlv_global_data
<1>6. IsFiniteSet(LocalTable(s))
  BY <1>1, <1>3, GenerateFinite DEF LocalTable, batadv_tt_local_table_transmit_size
<1>7. IsFiniteSet(GlobalTable(s, o))
  BY <1>4, <1>5, GenerateFinite DEF GlobalTable
<1> QED BY <1>6, <1>7

LEMMA FreshGood ==
  ASSUME OneVlan
  PROVE  Good(FreshNode) /\ DOMAIN FreshNode.local = {}
<1> DEFINE s == FreshNode
<1>1. /\ DOMAIN s = StateFields /\ s.local = <<>> /\ s.changes = {} /\ s.size = 0 /\ s.lastset = {}
      /\ s.container.changes = {} /\ s.global = <<>> /\ s.peer = [o \in Node |-> UnknownPeer]
  BY DEF FreshNode, StateFields, NoChanges
<1> HIDE DEF s
<1>2. DOMAIN s.local = {} /\ DOMAIN s.global = {}
  BY <1>1
<1>3. IsFiniteSet({})
  BY FS_EmptySet
<1>4. LocalTyped(s) /\ WifiKept(s) /\ NoneBoth(s)
  BY <1>1, <1>2, <1>3 DEF LocalTyped, WifiKept, NoneBoth
<1>5. DOMAIN UnknownPeer = PeerFields /\ UnknownPeer.buff = {}
  BY DEF UnknownPeer, PeerFields, NoChanges
<1>6. TablesFinite(s)
  BY <1>1, <1>2, <1>3, <1>5 DEF TablesFinite
<1>7. Agrees(s)
  BY <1>1, <1>2 DEF Agrees, Single, Wanted, Queued, Known
<1>8. Good(s)
  BY <1>4, <1>6, <1>7 DEF Good, Purgeable
<1> QED BY <1>2, <1>8 DEF s

\* A node has handled a message, or something else happened there.
LEMMA OneNode ==
  ASSUME TtInv, NEW n, NEW s, n \in Node => Good(s), node' = [node EXCEPT ![n] = s],
         \A m \in net' : m \in net \/ MessageTyped(m)
  PROVE  TtInv'
<1>1. DOMAIN node' = Node /\ \A x \in Node : node'[x] = IF x = n THEN s ELSE node[x]
  BY DEF TtInv
<1>2. \A x \in Node : Good(node'[x])
  BY <1>1 DEF TtInv
<1>3. \A m \in net' : MessageTyped(m)
  BY DEF TtInv
<1> QED BY <1>1, <1>2, <1>3 DEF TtInv

LEMMA SendKeeps ==
  ASSUME TtInv, NEW n \in Node, SendOgm(n)
  PROVE  TtInv'
<1> DEFINE s == batadv_tt_local_commit_changes(node[n])
           ogms == {[type |-> "OGM", src |-> n, dst |-> d, ttvn |-> s.container.ttvn,
                     crc |-> s.container.crc, changes |-> s.container.changes] : d \in {x \in Node : <<n, x>> \in left.hears}}
<1>1. node' = [node EXCEPT ![n] = s] /\ net' = net \cup ogms
  BY DEF SendOgm
<1>2. Good(s)
  BY CommitKeeps DEF TtInv, Good, Purgeable
<1> HIDE DEF s
<1>3. IsFiniteSet(s.container.changes)
  BY <1>2 DEF Good, Purgeable, TablesFinite
<1>4. ASSUME NEW m \in ogms PROVE MessageTyped(m)
  <2>1. PICK d \in Node : m = [type |-> "OGM", src |-> n, dst |-> d, ttvn |-> s.container.ttvn,
                              crc |-> s.container.crc, changes |-> s.container.changes]
    OBVIOUS
  <2> QED BY <1>3, <2>1 DEF MessageTyped
<1> HIDE DEF ogms
<1>5. \A m \in net' : m \in net \/ MessageTyped(m)
  BY <1>1, <1>4
<1> QED BY <1>1, <1>2, <1>5, OneNode

LEMMA OgmKeeps ==
  ASSUME OneVlan, TtInv, NEW m \in net, ReceiveOgm(m)
  PROVE  TtInv'
<1> DEFINE n == m.dst
           o == m.src
           s == node[n]
           p == s.peer[o]
           next == (~p.init /\ m.ttvn = 1) \/ m.ttvn - p.ttvn = 1
           u == batadv_tt_update_changes(s, o, m.changes, m.ttvn)
           applied == batadv_tt_global_update_crc(u, o)
           s1 == IF next /\ m.changes # {} THEN applied ELSE s
           insync == IF next THEN m.changes # {} /\ batadv_tt_global_check_crc(s1, o, m.crc)
                     ELSE p.init /\ m.ttvn = p.ttvn /\ batadv_tt_global_check_crc(s, o, m.crc)
           full == ~(next /\ m.changes = {})
<1>1. m.type = "OGM" /\ Handled(m, n, s1, IF insync THEN {} ELSE batadv_send_tt_request(n, o, m, full))
  BY DEF ReceiveOgm
<1>2. n \in Node /\ o \in Node /\ IsFiniteSet(m.changes) /\ Good(s)
  BY <1>1 DEF TtInv, MessageTyped
<1>3. Good(u)
  BY <1>2, UpdateKeeps
<1>4. Good(applied)
  <2> HIDE DEF u
  <2> QED BY <1>2, <1>3, UpdateCrcKeeps
<1>5. Good(s1)
  BY <1>2, <1>4
<1>6. \A x \in batadv_send_tt_request(n, o, m, full) : MessageTyped(x)
  BY <1>2 DEF batadv_send_tt_request, MessageTyped
<1> HIDE DEF s1, insync, full
<1>7. /\ node' = [node EXCEPT ![n] = s1]
      /\ \A x \in net' : x \in net \/ MessageTyped(x)
  BY <1>1, <1>6 DEF Handled
<1> HIDE DEF n
<1> QED BY <1>5, <1>7, OneNode

LEMMA RequestKeeps ==
  ASSUME TtInv, NEW m \in net, ReceiveRequest(m) \/ \E n \in Node : InterceptRequest(n, m)
  PROVE  TtInv'
<1>1. m.type = "REQUEST" /\ m.src \in Node /\ m.dst \in Node
  BY DEF ReceiveRequest, InterceptRequest, TtInv, MessageTyped
<1>2. \A o, d \in Node : \A full, c, v : IsFiniteSet(c) => MessageTyped(Response(o, d, full, c, v))
  BY DEF Response, MessageTyped
<1>3. CASE ReceiveRequest(m)
  <2>1. Good(node[m.dst])
    BY <1>1 DEF TtInv
  <2>2. IsFiniteSet(LocalTable(node[m.dst])) /\ IsFiniteSet(node[m.dst].lastset)
    BY <2>1, TablesToSend DEF Good, Purgeable, TablesFinite
  <2>3. \A x \in batadv_send_my_tt_response(m.dst, m) : MessageTyped(x)
    BY <1>1, <1>2, <2>2 DEF batadv_send_my_tt_response
  <2>4. /\ node' = [node EXCEPT ![m.dst] = node[m.dst]]
        /\ \A x \in net' : x \in net \/ MessageTyped(x)
    BY <1>3, <2>3 DEF ReceiveRequest, Handled
  <2> QED BY <2>1, <2>4, OneNode
<1>4. ASSUME NEW n \in Node, InterceptRequest(n, m) PROVE TtInv'
  <2>1. Good(node[n])
    BY DEF TtInv
  <2>2. IsFiniteSet(GlobalTable(node[n], m.dst)) /\ IsFiniteSet(node[n].peer[m.dst].buff)
    BY <1>1, <2>1, TablesToSend, GlobalFinite
  <2>3. \A x \in batadv_send_other_tt_response(n, m) : MessageTyped(x)
    BY <1>1, <1>2, <2>2 DEF batadv_send_other_tt_response
  <2>4. /\ node' = [node EXCEPT ![n] = node[n]]
        /\ \A x \in net' : x \in net \/ MessageTyped(x)
    BY <1>4, <2>3 DEF InterceptRequest, Handled
  <2> QED BY <2>1, <2>4, OneNode
<1> QED BY <1>3, <1>4

LEMMA ResponseKeeps ==
  ASSUME OneVlan, TtInv, NEW m \in net, batadv_handle_tt_response(m)
  PROVE  TtInv'
<1> DEFINE s == node[m.dst]
           r == IF m.full THEN batadv_tt_fill_gtable(s, m.src, m.changes, m.ttvn)
                ELSE batadv_tt_update_changes(s, m.src, m.changes, m.ttvn)
           t == batadv_tt_global_update_crc(r, m.src)
<1>1. m.type = "RESPONSE" /\ Handled(m, m.dst, t, {})
  BY DEF batadv_handle_tt_response
<1>2. m.dst \in Node /\ m.src \in Node /\ IsFiniteSet(m.changes) /\ Good(s)
  BY <1>1 DEF TtInv, MessageTyped
<1>3. Good(r)
  BY <1>2, FillKeeps, UpdateKeeps
<1> HIDE DEF r
<1>4. Good(t)
  BY <1>2, <1>3, UpdateCrcKeeps
<1> HIDE DEF t
<1>5. node' = [node EXCEPT ![m.dst] = t] /\ \A x \in net' : x \in net \/ MessageTyped(x)
  BY <1>1 DEF Handled
<1> QED BY <1>4, <1>5, OneNode

\* Entries that time out, and temporary ones.
LEMMA OtherKeeps ==
  ASSUME OneVlan, ~SlowOgms, TtInv, NEW n \in Node, NEW o \in Node, NEW k \in Client,
         \/ batadv_tt_add_temporary_global_entry(n, o, k) \/ LocalPurge(n, k)
         \/ GlobalPurge(n, k) \/ batadv_tt_roam_purge(n, k)
  PROVE  TtInv'
<1>1. Good(node[n])
  BY DEF TtInv
<1>2. ASSUME NEW s, Good(s), node' = [node EXCEPT ![n] = s], net' = net PROVE TtInv'
  BY <1>2, OneNode
<1>3. CASE batadv_tt_add_temporary_global_entry(n, o, k)
  <2>1. Good(batadv_tt_global_add(node[n], o, k, {"TEMP"}))
    BY <1>1, AddKeeps
  <2> QED BY <1>2, <1>3, <2>1 DEF batadv_tt_add_temporary_global_entry
<1>4. CASE LocalPurge(n, k)
  <2> DEFINE s == batadv_tt_local_set_pending(node[n], k, {"DEL"})
  <2>1. k \in DOMAIN node[n].local /\ {"NEW", "PENDING"} \cap node[n].local[k] = {}
    BY <1>4 DEF LocalPurge
  <2>2. node' = [node EXCEPT ![n] = s] /\ net' = net
    BY <1>4 DEF LocalPurge
  <2>3. Purgeable(node[n]) /\ ~({"NEW", "PENDING"} \subseteq node[n].local[k])
    BY <1>1, <2>1 DEF Good
  <2> HIDE DEF s
  <2>4. Purgeable(s) /\ EntryBecomes(node[n], s, k, node[n].local[k] \cup {"PENDING"})
    BY <2>1, <2>3, PendingKeeps DEF s
  <2>5. NoneBoth(s)
    BY <1>1, <2>1, <2>4 DEF NoneBoth, EntryBecomes, Good
  <2> QED BY <1>2, <2>2, <2>4, <2>5 DEF Good
<1>5. CASE GlobalPurge(n, k)
  <2>1. Good(batadv_tt_global_free(node[n], k))
    BY <1>1, FreeKeeps
  <2> QED BY <1>2, <1>5, <2>1 DEF GlobalPurge
<1>6. CASE batadv_tt_roam_purge(n, k)
  <2> DEFINE s == [node[n] EXCEPT !.roams[k] = ROAMING_MAX_COUNT]
  <2>1. OnlyRemote(node[n], s) /\ TablesFinite(s)
    BY <1>1 DEF OnlyRemote, TablesFinite, Good, Purgeable, LocalTyped, StateFields
  <2>2. node' = [node EXCEPT ![n] = s] /\ net' = net
    BY <1>6 DEF batadv_tt_roam_purge
  <2> HIDE DEF s
  <2>3. Good(s)
    BY <1>1, <2>1, RemoteKeeps
  <2> QED BY <1>2, <2>2, <2>3
<1> QED BY <1>3, <1>4, <1>5, <1>6

LEMMA TtStep ==
  ASSUME OneVlan, SameInterface, ~SlowOgms, TtInv, TtNext
  PROVE  TtInv'
<1>1. CASE \E n \in Node, k \in Client, wifi \in Wifi : LocalAdd(n, k, wifi)
  BY <1>1, LocalAddKeeps
<1>2. CASE \E n \in Node, k \in Client : Move(k, n)
  BY <1>2 DEF Move, TtInv
<1>3. CASE \E n \in Node : SendOgm(n)
  BY <1>3, SendKeeps
<1>4. CASE \E o \in Node : ReceiveAbout(o)
  <2>1. PICK m \in net : ReceiveOgm(m) \/ ReceiveRequest(m) \/ batadv_handle_tt_response(m)
    BY <1>4 DEF ReceiveAbout, About
  <2> QED BY <2>1, OgmKeeps, RequestKeeps, ResponseKeeps
<1>5. CASE \E m \in net : ReceiveRoamAdv(m)
  <2>1. PICK m \in net : ReceiveRoamAdv(m)
    BY <1>5
  <2> DEFINE s == batadv_tt_global_add(node[m.dst], m.src, m.key, {"ROAM"})
  <2>2. node' = [node EXCEPT ![m.dst] = s] /\ \A x \in net' : x \in net
    BY <2>1 DEF ReceiveRoamAdv, Handled
  <2>3. m.dst \in Node => Good(s)
    BY AddKeeps DEF TtInv
  <2> HIDE DEF s
  <2> QED BY <2>2, <2>3, OneNode
<1>6. CASE \E m \in net, n \in Node : InterceptRequest(n, m)
  BY <1>6, RequestKeeps
<1>7. CASE \E n, o \in Node, k \in Client : batadv_tt_add_temporary_global_entry(n, o, k)
  BY <1>7, OtherKeeps
<1>8. CASE \E n \in Node, k \in Client : LocalPurge(n, k) \/ GlobalPurge(n, k) \/ batadv_tt_roam_purge(n, k)
  BY <1>8, OtherKeeps
<1>9. CASE \E n, o \in Node, purged \in BOOLEAN : LoseRoute(n, o, purged)
  <2>1. PICK n \in Node, o \in Node, purged \in BOOLEAN : LoseRoute(n, o, purged)
    BY <1>9
  <2> DEFINE s == batadv_tt_global_del_orig(node[n], o)
             t == IF purged THEN [s EXCEPT !.peer[o] = UnknownPeer] ELSE s
  <2>2. node' = [node EXCEPT ![n] = t] /\ net' = net
    BY <2>1 DEF LoseRoute
  <2>3. Good(s)
    BY DelOrigKeeps DEF TtInv
  <2>4. DOMAIN UnknownPeer = PeerFields /\ UnknownPeer.buff = {}
    BY DEF UnknownPeer, PeerFields, NoChanges
  <2>5. IsFiniteSet(UnknownPeer.buff)
    BY <2>4, FS_EmptySet
  <2> HIDE DEF s
  <2>6. Good([s EXCEPT !.peer[o] = UnknownPeer])
    BY <2>3, <2>4, <2>5, PeerKeeps
  <2>7. Good(t)
    BY <2>3, <2>6
  <2> HIDE DEF t
  <2> QED BY <2>2, <2>7, OneNode
<1>10. CASE \E n \in Node, max \in 0..PacketEntries, idle \in SUBSET Client : batadv_tt_local_resize_to_mtu(n, max, idle)
  <2>1. PICK n \in Node, max \in 0..PacketEntries, idle \in SUBSET Client : batadv_tt_local_resize_to_mtu(n, max, idle)
    BY <1>10
  <2>2. \A x \in Node : Good(node'[x])
    BY <2>1, ShrinkKeeps
  <2>3. DOMAIN node' = DOMAIN node /\ net' = net
    BY <2>1 DEF batadv_tt_local_resize_to_mtu
  <2> QED BY <2>2, <2>3 DEF TtInv
<1>11. CASE \E n \in Node : Reboot(n)
  <2>1. PICK n \in Node : node' = [node EXCEPT ![n] = FreshNode] /\ net' = net
    BY <1>11 DEF Reboot
  <2> QED BY <2>1, FreshGood, OneNode
<1>12. CASE \E m \in net : Lose(m)
  BY <1>12 DEF Lose, TtInv
<1> QED BY <1>1, <1>2, <1>3, <1>4, <1>5, <1>6, <1>7, <1>8, <1>9, <1>10, <1>11, <1>12 DEF TtNext

-----------------------------------------------------------------------------
(* The start. *)

\* The clients of a node are added one after the other, and the version is committed.
LEMMA AnnouncingGood ==
  ASSUME OneVlan, Wifi \subseteq {FALSE}, IsFiniteSet(Client), NEW n
  PROVE  Good(Announcing(n))
<1> DEFINE S == {k \in Client : Home[k] = n}
           Def(g) == [T \in SUBSET S |->
             IF T = {} THEN FreshNode
             ELSE batadv_tt_local_event(
                    [g[T \ {CHOOSE x \in T : TRUE}] EXCEPT !.local = With(@, CHOOSE x \in T : TRUE, {"NEW"})],
                    CHOOSE x \in T : TRUE, {})]
           iter == CHOOSE g : g = Def(g)
<1>1. Announcing(n) = batadv_tt_local_commit_changes(iter[S])
  BY DEF Announcing, FoldSet, MapThenFoldSet
<1>2. IsFiniteSet(S) /\ S \subseteq Client
  BY FS_Subset
<1>3. \A g : Folds(g, "announce", 0, FreshNode, S) <=> g = Def(g)
  <2> HIDE DEF S
  <2> QED BY DEF Folds, FoldStep, First
<1>4. iter = Def(iter)
  <2> HIDE DEF Def, S
  <2> QED BY <1>2, <1>3, FoldExists
<1>5. Folds(iter, "announce", 0, FreshNode, S)
  <2> HIDE DEF Def, iter, S
  <2> QED BY <1>3, <1>4
<1> HIDE DEF iter, S
<1>6. ASSUME NEW x \in S, NEW q, FoldKept("announce", q, S)
      PROVE  FoldKept("announce", FoldStep("announce", 0, x, q), S)
  <2> DEFINE t == Added(q, x, {"NEW"})
  <2>1. Good(q) /\ \A k \in DOMAIN q.local : q.local[k] = {"NEW"}
    BY <1>6 DEF FoldKept
  <2>2. FoldStep("announce", 0, x, q) = t
    BY DEF FoldStep, Added
  <2>3. NewFlags({"NEW"}) /\ Addable(q, x, {"NEW"}) /\ x \in Client
    BY <1>2, <2>1 DEF NewFlags, Addable
  <2>4. Good(t) /\ EntryBecomes(q, t, x, {"NEW"})
    BY <2>1, <2>3, NewKeeps
  <2> HIDE DEF t
  <2>5. \A k \in DOMAIN t.local : t.local[k] = {"NEW"}
    BY <2>1, <2>4 DEF EntryBecomes
  <2> QED BY <2>2, <2>4, <2>5 DEF FoldKept
<1>7. FoldKept("announce", FreshNode, S)
  BY FreshGood DEF FoldKept
<1>8. FoldKept("announce", iter[S], S)
  BY <1>2, <1>5, <1>6, <1>7, FoldsKeep
<1>9. Good(iter[S])
  BY <1>8 DEF FoldKept
<1> QED BY <1>1, <1>9, CommitKeeps DEF Good, Purgeable

\* The tables of those it hears are taken over one after the other.
LEMMA SettledGood ==
  ASSUME OneVlan, Wifi \subseteq {FALSE}, IsFiniteSet(Client), IsFiniteSet(Node), NEW n
  PROVE  Good(Settled(n))
<1> DEFINE S == {o \in Node : <<o, n>> \in left.hears}
           step(x, r) == batadv_tt_global_update_crc(
                           batadv_tt_fill_gtable(r, x, LocalTable(Announcing(x)), Announcing(x).vn), x)
           Def(g) == [T \in SUBSET S |->
             IF T = {} THEN Announcing(n) ELSE step(CHOOSE x \in T : TRUE, g[T \ {CHOOSE x \in T : TRUE}])]
           iter == CHOOSE g : g = Def(g)
<1>1. Settled(n) = iter[S]
  BY DEF Settled, FoldSet, MapThenFoldSet
<1>2. IsFiniteSet(S) /\ S \subseteq Node
  BY FS_Subset
<1>3. \A g : Folds(g, "settle", 0, Announcing(n), S) <=> g = Def(g)
  <2> HIDE DEF S
  <2> QED BY DEF Folds, FoldStep, First
<1>4. iter = Def(iter)
  <2> HIDE DEF Def, S
  <2> QED BY <1>2, <1>3, FoldExists
<1>5. Folds(iter, "settle", 0, Announcing(n), S)
  <2> HIDE DEF Def, iter, S
  <2> QED BY <1>3, <1>4
<1> HIDE DEF iter, S
<1>6. ASSUME NEW x \in S, NEW q, FoldKept("settle", q, S)
      PROVE  FoldKept("settle", FoldStep("settle", 0, x, q), S)
  <2> DEFINE t == batadv_tt_fill_gtable(q, x, LocalTable(Announcing(x)), Announcing(x).vn)
  <2>1. Good(q) /\ x \in Node
    BY <1>2, <1>6 DEF FoldKept
  <2>2. IsFiniteSet(LocalTable(Announcing(x)))
    BY AnnouncingGood, TablesToSend
  <2>3. Good(t)
    BY <2>1, <2>2, FillKeeps
  <2>4. FoldStep("settle", 0, x, q) = batadv_tt_global_update_crc(t, x)
    BY DEF FoldStep
  <2> HIDE DEF t
  <2> QED BY <2>1, <2>3, <2>4, UpdateCrcKeeps DEF FoldKept
<1>7. FoldKept("settle", Announcing(n), S)
  BY AnnouncingGood DEF FoldKept
<1>8. FoldKept("settle", iter[S], S)
  BY <1>2, <1>5, <1>6, <1>7, FoldsKeep
<1> QED BY <1>1, <1>8 DEF FoldKept

-----------------------------------------------------------------------------
(* Nothing is forgotten. *)

LEMMA TtInvNothingForgotten ==
  ASSUME TtInv
  PROVE  NothingForgotten
BY DEF TtInv, Good, Purgeable, Agrees, Single, NothingForgotten

\* Whatever order frames, roaming advertisements, responses, timeouts, lost routes, shrinking
\* MTUs and reboots come in, the list of changes that batadv_tt_local_event() keeps says
\* exactly what the next version changes, so that batadv_tt_local_commit_changes() never
\* skips a version that has something to say: for any nodes, clients and bounds, as long as
\* no address is on two VLANs, clients keep their kind of interface and OGMs are sent more
\* often than clients time out.
THEOREM NothingIsForgotten ==
  ASSUME OneVlan, SameInterface, ~SlowOgms
  PROVE  TtSpec => []NothingForgotten
<1>1. TtInit => TtInv
  BY FreshGood DEF TtInit, TtInv
<1>2. TtInv /\ [TtNext]_ttVars => TtInv'
  <2>1. ASSUME TtInv, UNCHANGED ttVars PROVE TtInv'
    BY <2>1 DEF ttVars, TtInv
  <2> QED BY <2>1, TtStep
<1>3. TtInv => NothingForgotten
  BY TtInvNothingForgotten
<1> QED BY <1>1, <1>2, <1>3, PTL DEF TtSpec

\* The same while frames are on their way, where clients have been announced and neighbours
\* have the tables at the start (UcInit).
THEOREM NothingIsForgottenOnTheWay ==
  ASSUME OneVlan, Wifi \subseteq {FALSE}, ~SlowOgms, IsFiniteSet(Client), IsFiniteSet(Node)
  PROVE  UcSpec => []NothingForgotten
<1>1. UcInit => TtInv
  BY FreshGood, SettledGood DEF UcInit, TtInv
<1>2. TtInv /\ [UcNext]_ucVars => TtInv'
  <2>1. ASSUME TtInv, UNCHANGED <<node, net>> PROVE TtInv'
    BY <2>1 DEF TtInv
  <2>2. SameInterface
    BY DEF SameInterface
  <2>3. ASSUME UcNext, ~TtNext PROVE UNCHANGED <<node, net>>
    BY <2>3 DEF UcNext, batadv_send_skb_via_tt_generic, batadv_recv_unicast_packet, ttVars
  <2>4. ASSUME UNCHANGED ucVars PROVE UNCHANGED <<node, net>>
    BY <2>4 DEF ucVars, ttVars
  <2> QED BY <2>1, <2>2, <2>3, <2>4, TtStep
<1>3. TtInv => NothingForgotten
  BY TtInvNothingForgotten
<1> QED BY <1>1, <1>2, <1>3, PTL DEF UcSpec

=============================================================================

--------------------------------- MODULE Tvlv ---------------------------------
(***************************************************************************)
(* The TVLV containers that a node appends to its OGMs and the handlers    *)
(* that another node calls for them, on two processors.  An OGM without    *)
(* the container of a handler with OGM_CIFNOTFND calls that handler too:   *)
(* the flag OGM_CALLED that says which were called is shared by the        *)
(* processors.                                                             *)
(*                                                                         *)
(* Containers have one version.  What is left of a packet after tvlv_len   *)
(* bytes is not looked at.                                                 *)
(***************************************************************************)
EXTENDS Integers, Sequences, SequencesExt, FiniteSets

CONSTANTS
  TvOrig, Processor,
  TvLen,          \* the length of a container, by its type
  TvHandlers,     \* the handlers in the order of their registration, with their flag OGM_CIFNOTFND
  TvScenarios     \* the algorithm, the containers at the start of those that send OGMs, and
                  \* the containers that change; bounds:
                  \* changes, failed allocations, OGMs out of order or processed at once

TvType == DOMAIN TvLen
ASSUME TvAssumption ==
  /\ TvLen \in [TvType -> Nat \ {0}]
  /\ \A s \in ToSet(TvHandlers) : s.type \in TvType /\ s.cif \in BOOLEAN
  /\ Processor = 1..Cardinality(Processor)

VARIABLES
  container_list,              \* of the node that announces: containers, the last first
  ogm_buff,                    \* the containers in its OGM buffer
  ogms,                        \* OGMs on their way, in the order they were sent
  handler_list, called,        \* the handlers of the node that hears them; those with OGM_CALLED
  cpu,                         \* an OGM that is processed: what is left to do
  known,                       \* what the handlers learnt about an originator
  tv_left

tvVars == <<container_list, ogm_buff, ogms, handler_list, called, cpu, known, tv_left>>

Free == [orig |-> "none", conts |-> <<>>, handlers |-> <<>>, checked |-> FALSE]
TvUse(what) == tv_left[what] > 0 /\ tv_left' = [tv_left EXCEPT ![what] = @ - 1]
TypeOf(c) == c.type
LenOf(conts) == FoldLeft(LAMBDA n, c : n + TvLen[c.type], 0, conts)

-----------------------------------------------------------------------------
(* The lists. *)

\* A second handler for a type is not registered.
batadv_tvlv_handler_register(list, s) ==
  IF \E i \in DOMAIN list : list[i].type = s.type THEN list ELSE <<s>> \o list

batadv_tvlv_container_remove(list, t) == SelectSeq(list, LAMBDA c : c.type # t)
batadv_tvlv_container_register(list, t, v) ==
  <<[type |-> t, data |-> v]>> \o batadv_tvlv_container_remove(list, t)

batadv_tvlv_init ==
  /\ tv_left \in TvScenarios
  /\ container_list = [o \in TvOrig |-> IF o \in DOMAIN tv_left.start THEN tv_left.start[o] ELSE <<>>]
  /\ ogm_buff = [o \in TvOrig |-> <<>>] /\ ogms = <<>>
  /\ handler_list = FoldLeft(batadv_tvlv_handler_register, <<>>, TvHandlers)
  /\ called = {} /\ cpu = [p \in Processor |-> Free]
  /\ known = [o \in TvOrig |-> [t \in TvType |-> "none"]]

\* A component of the node announces something else, or nothing.
ContainerChanges(o, t) ==
  /\ <<o, t>> \in tv_left.varying /\ TvUse("changes")
  /\ \/ \E v \in {"x", "y"} : /\ [type |-> t, data |-> v] \notin ToSet(container_list[o])
                              /\ container_list' = [container_list EXCEPT ![o] = batadv_tvlv_container_register(@, t, v)]
     \/ /\ \E i \in DOMAIN container_list[o] : container_list[o][i].type = t
        /\ container_list' = [container_list EXCEPT ![o] = batadv_tvlv_container_remove(@, t)]
  /\ UNCHANGED <<ogm_buff, ogms, handler_list, called, cpu, known>>

-----------------------------------------------------------------------------
(* The node that announces. *)

\* The containers go into a new buffer; where there is no memory the old one stays.
batadv_tvlv_container_ogm_append(o, buff) == container_list[o]

\* The length is that of the containers, whatever the buffer holds.
SendOgm(o) ==
  /\ o \in DOMAIN tv_left.start
  /\ Cardinality({i \in DOMAIN ogms : ogms[i].orig = o}) < IF tv_left.late = 0 THEN 1 ELSE 2
  /\ \/ ogm_buff' = [ogm_buff EXCEPT ![o] = batadv_tvlv_container_ogm_append(o, @)] /\ tv_left' = tv_left
     \/ ogm_buff' = ogm_buff /\ TvUse("failures")
  /\ ogms' = Append(ogms, [orig |-> o, tvlv_len |-> LenOf(container_list[o]), conts |-> ogm_buff'[o]])
  /\ UNCHANGED <<container_list, handler_list, called, cpu, known>>

-----------------------------------------------------------------------------
(* The node that hears the OGMs. *)


\* The containers up to the first that the length cuts short.
Parsed(conts, len) ==
  LET whole == {n \in 0..Len(conts) : LenOf(SubSeq(conts, 1, n)) <= len}
  IN SubSeq(conts, 1, CHOOSE n \in whole : \A m \in whole : m <= n)

Processing == \E p \in Processor : cpu[p] # Free
\* Which of the processors that are free takes the next OGM makes no difference.
FirstFree == Min({p \in Processor : cpu[p] = Free} \cup {Cardinality(Processor) + 1})

\* A packet that is shorter than it says is dropped.  B.A.T.M.A.N. IV does not look at an
\* OGM without containers; it drops OGMs out of order before, B.A.T.M.A.N. V does not.
Hear(p, ogm) ==
  /\ p = FirstFree
  /\ IF LenOf(ogm.conts) < ogm.tvlv_len \/ (tv_left.algo = "IV" /\ ogm.tvlv_len = 0)
     THEN cpu' = cpu
     ELSE cpu' = [cpu EXCEPT ![p] = [orig |-> ogm.orig, conts |-> Parsed(ogm.conts, ogm.tvlv_len),
                                     handlers |-> handler_list, checked |-> FALSE]]
  /\ UNCHANGED <<container_list, ogm_buff, handler_list, called, known>>

ReceiveOgm(p) ==
  /\ ~Processing /\ ogms # <<>> /\ Hear(p, Head(ogms))
  /\ ogms' = Tail(ogms) /\ tv_left' = tv_left
\* Another processor is not done yet.
ReceiveAtOnce(p) ==
  /\ Processing /\ ogms # <<>> /\ TvUse("overlaps") /\ Hear(p, Head(ogms))
  /\ ogms' = Tail(ogms)
\* An OGM arrives before one that was sent before, or by another path once more.
ReceiveOutOfOrder(p) ==
  /\ tv_left.algo = "V" /\ ~Processing /\ TvUse("late")
  /\ \/ \E i \in 2..Len(ogms) : Hear(p, ogms[i]) /\ ogms' = RemoveAt(ogms, i)
     \/ ogms # <<>> /\ Hear(p, Head(ogms)) /\ ogms' = ogms

\* A handler is called for its container and gets the flag.
batadv_tvlv_call_handler(p) ==
  LET c == Head(cpu[p].conts)
      handled == \E i \in DOMAIN handler_list : handler_list[i].type = c.type IN
  /\ cpu[p].conts # <<>>
  /\ cpu' = [cpu EXCEPT ![p].conts = Tail(@)]
  /\ IF handled THEN /\ known' = [known EXCEPT ![cpu[p].orig][c.type] = c.data]
                     /\ called' = called \cup {c.type}
                ELSE UNCHANGED <<known, called>>
  /\ UNCHANGED <<container_list, ogm_buff, ogms, handler_list, tv_left>>

\* Mutant: the flag has been cleared before.
NotFound_Cleared(s) == s.cif

NotFound(s) == s.cif /\ s.type \notin called

\* A handler whose container was not found is called without one ...
CheckCalled(p) ==
  /\ cpu[p] # Free /\ cpu[p].conts = <<>> /\ ~cpu[p].checked
  /\ LET s == Head(cpu[p].handlers)
     IN known' = IF NotFound(s) THEN [known EXCEPT ![cpu[p].orig][s.type] = "none"] ELSE known
  /\ cpu' = [cpu EXCEPT ![p].checked = TRUE]
  /\ UNCHANGED <<container_list, ogm_buff, ogms, handler_list, called, tv_left>>

Cleared(s) == called \ {s.type}

\* ... and the flag is cleared.
ClearCalled(p) ==
  /\ cpu[p].checked
  /\ called' = Cleared(Head(cpu[p].handlers))
  /\ cpu' = [cpu EXCEPT ![p] =
       IF Len(@.handlers) = 1 THEN Free ELSE [@ EXCEPT !.handlers = Tail(@), !.checked = FALSE]]
  /\ UNCHANGED <<container_list, ogm_buff, ogms, handler_list, known, tv_left>>

batadv_tvlv_containers_process(p) == batadv_tvlv_call_handler(p) \/ CheckCalled(p) \/ ClearCalled(p)

TvNext ==
  \/ \E o \in TvOrig : SendOgm(o) \/ \E t \in TvType : ContainerChanges(o, t)
  \/ \E p \in Processor :
       \/ batadv_tvlv_containers_process(p)
       \/ ReceiveOgm(p) \/ ReceiveAtOnce(p) \/ ReceiveOutOfOrder(p)

TvSpec == batadv_tvlv_init /\ [][TvNext]_tvVars
\* OGMs are sent periodically and are heard, and a processor goes on.
TvFairness ==
  /\ \A o \in TvOrig : WF_tvVars(SendOgm(o))
  /\ WF_tvVars(\E p \in Processor : ReceiveOgm(p) \/ batadv_tvlv_containers_process(p))
TvFairSpec == TvSpec /\ TvFairness

-----------------------------------------------------------------------------
(* Properties *)

\* What originators announce, as the handlers see it.
AnnouncedData(list, t) ==
  IF \E i \in DOMAIN list : list[i].type = t
  THEN list[CHOOSE i \in DOMAIN list : list[i].type = t].data ELSE "none"

\* When containers do not change any more, allocations succeed again and OGMs come in order
\* and one at a time again, the handlers end up knowing what is announced, and that it is
\* not where there is OGM_CIFNOTFND.
CapabilitiesSettle ==
  <>[](\A o \in TvOrig : \A i \in DOMAIN handler_list :
         LET t == handler_list[i].type
             d == AnnouncedData(container_list[o], t)
         IN (handler_list[i].cif \/ d # "none") => known[o][t] = d)
===============================================================================

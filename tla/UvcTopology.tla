---------------------------- MODULE UvcTopology ----------------------------
(***************************************************************************)
(* The camera's units and terminals, and the chains the driver finds among *)
(* them: uvc_parse_control turns the descriptors of the control interface  *)
(* into entities, uvc_scan_device walks back from every output terminal,   *)
(* and a heuristic puts a chain together when no walk succeeds             *)
(* (src/kernel/uvcvideo-t1/uvc_driver.c).                                  *)
(*                                                                         *)
(* A descriptor is [kind, id, src].  Kinds: "it" a camera terminal, "its"  *)
(* a streaming input, "itx" an external connector, which is parsed and     *)
(* which a walk does not take, "ots" a streaming output, "otd" a display,  *)
(* "otx" a connector the driver does not support, "pu", "xu", "su" the     *)
(* units (the length of src is the number of input pins), "void" a         *)
(* terminal with an invalid type or an unknown descriptor, "short" one     *)
(* that is cut off.                                                        *)
(***************************************************************************)
EXTENDS Integers, SequencesExt, FiniteSetsExt

CONSTANTS
    Shapes,     \* the cameras: sequences of [kind, id, pins]
    Gpios,      \* whether a privacy GPIO may be present
    OutBit,     \* UVC_TERM_OUTPUT, above every 8-bit id
    Invalid,    \* UVC_INVALID_ENTITY_ID
    ByteSize    \* an id in a descriptor is a byte

VARIABLES
    descs,   \* the descriptors of the control interface
    gpio,    \* the machine has a privacy GPIO
    pc,      \* parse, scan, walk, gpio, done, failed or nochain
    pos,     \* the descriptor or the terminal reached
    w,       \* the walk: [list, pu, su, linked, ents, ok]
    at,      \* the entity the walk is at, 0 for none
    prev,    \* the one it came from
    chains,  \* dev->chains, each a sequence of entities
    guessed  \* the chain was put together by the heuristic

vars == <<descs, gpio, pc, pos, w, at, prev, chains, guessed>>

NoWalk == [list |-> <<>>, pu |-> 0, su |-> 0, linked |-> {}, ents |-> <<>>,
           ok |-> TRUE]

(* The camera's descriptors: every pin refers to nothing, to one of the    *)
(* first ids or to an id that no descriptor has.                           *)
Slots(s) == {<<k, j>> \in (DOMAIN s) \X (1 .. 2) : j <= s[k].pins}

Described(s, f) ==
    [k \in DOMAIN s |-> [kind |-> s[k].kind, id |-> s[k].id,
                         src |-> [j \in 1 .. s[k].pins |-> f[<<k, j>>]]]]

Init ==
    /\ \E s \in Shapes : \E f \in [Slots(s) -> 0 .. Len(s) + 1] :
         descs = Described(s, f)
    /\ gpio \in Gpios
    /\ pc = "parse" /\ pos = 1 /\ w = NoWalk
    /\ at = 0 /\ prev = 0 /\ chains = <<>> /\ guessed = FALSE

-----------------------------------------------------------------------------
(* Entities. *)

IsInput(e) == e.kind \in {"it", "its", "itx"}
IsOutput(e) == e.kind \in {"ots", "otd", "otx"}

(* uvc_entity_by_id: the first one with this id. *)
ById(ents, id) ==
    LET m == {k \in DOMAIN ents : ents[k].id = id}
    IN  IF id = Invalid \/ m = {} THEN 0 ELSE Min(m)

(* uvc_alloc_new_entity: an id of zero or one already taken is not used. *)
NewEntity(ents, kind, id, src) ==
    Append(ents, [kind |-> kind, src |-> src,
                  id |-> IF id = 0 \/ ById(ents, id) # 0 THEN Invalid ELSE id])

(* Output terminals whose type has a bit of UVC_TT_STREAMING set (all but  *)
(* an unsupported connector) get ids of their own.                         *)
TerminalId(d) == IF d.kind \in {"ots", "otd"} THEN OutBit + d.id ELSE d.id

ParseInputTerminal(ents, d) == NewEntity(ents, d.kind, d.id, <<>>)
ParseOutputTerminal(ents, d) == NewEntity(ents, d.kind, TerminalId(d), d.src)
ParseUnit(ents, d) == NewEntity(ents, d.kind, d.id, d.src)

ParseEntity(ents, d) ==
    CASE d.kind = "void" -> ents
      [] IsInput(d) -> ParseInputTerminal(ents, d)
      [] IsOutput(d) -> ParseOutputTerminal(ents, d)
      [] OTHER -> ParseUnit(ents, d)

(* uvc_parse_control and uvc_parse_standard_control on one descriptor. *)
ParseControl ==
    /\ pc = "parse" /\ pos <= Len(descs)
    /\ LET d == descs[pos]
       IN  IF d.kind = "short" THEN pc' = "failed" /\ UNCHANGED <<pos, w>>
           ELSE /\ pos' = pos + 1
                /\ UNCHANGED pc
                /\ w' = [w EXCEPT !.ents = ParseEntity(@, d)]
    /\ UNCHANGED <<descs, gpio, at, prev, chains, guessed>>

GpioId == ByteSize
HasGpio == \E k \in DOMAIN w.ents : w.ents[k].kind = "gpio"

(* uvc_gpio_parse: the GPIO becomes a unit without pins. *)
ParseGpio ==
    /\ pc = "parse" /\ pos > Len(descs)
    /\ pc' = "scan" /\ pos' = 1
    /\ w' = IF gpio THEN [w EXCEPT !.ents = NewEntity(@, "gpio", GpioId, <<>>)]
            ELSE w
    /\ UNCHANGED <<descs, gpio, at, prev, chains, guessed>>

-----------------------------------------------------------------------------
(* The walk.  Each operator takes the walk and returns it; ok is FALSE     *)
(* after an error, and what was linked before the error stays linked.      *)

Failed(x) == [x EXCEPT !.ok = FALSE]

Link(x, k) == [x EXCEPT !.list = Append(@, k), !.linked = @ \cup {k}]

ScanChainEntity(x, k) ==
    LET e == x.ents[k]
    IN  CASE e.kind = "xu" -> IF Len(e.src) = 1 THEN Link(x, k) ELSE Failed(x)
          [] e.kind = "pu" ->
               IF x.pu = 0 THEN Link([x EXCEPT !.pu = k], k) ELSE Failed(x)
          [] e.kind = "su" /\ Len(e.src) # 1 ->
               IF x.su = 0 THEN Link([x EXCEPT !.su = k], k) ELSE Failed(x)
          [] e.kind \in {"itx", "otx", "gpio"} -> Failed(x)
          [] OTHER -> Link(x, k)

(* One entity f that names entity k as a source. *)
Forward(x, k, f) ==
    LET e == x.ents[k]
        g == x.ents[f]
        s == ById(x.ents, e.src[1])
    IN  CASE f \in x.linked -> Failed(x)
          [] g.kind = "xu" /\ Len(g.src) # 1 -> Failed(x)
          [] g.kind = "xu" /\ IsOutput(e) ->
               IF s = 0 THEN x
               ELSE Link([x EXCEPT !.ents[f].src[1] = x.ents[s].id % ByteSize], f)
          [] g.kind = "xu" -> Link(x, f)
          [] g.kind \in {"ots", "otd"} /\ ~IsOutput(e) -> Link(x, f)
          [] OTHER -> x

(* uvc_scan_chain_forward *)
ScanChainForward(x, k, from) ==
    FoldLeft(LAMBDA y, f :
               IF ~y.ok \/ f = from \/ y.ents[k].id \notin ToSet(y.ents[f].src)
               THEN y ELSE Forward(y, k, f),
             x, [i \in 1 .. Len(x.ents) |-> i])

(* One input of a selector; what its forward scan returns is ignored. *)
SelectorInput(x, k, id) ==
    LET t == ById(x.ents, id)
    IN  IF t = 0 THEN Failed(x)
        ELSE IF ~IsInput(x.ents[t]) \/ t \in x.linked THEN Failed(x)
        ELSE [ScanChainForward(Link(x, t), t, k) EXCEPT !.ok = TRUE]

SourceId(e) == IF IsInput(e) THEN 0 ELSE e.src[1]

(* uvc_scan_chain_backward: the walk and the entity it goes on with. *)
ScanChainBackward(x, k) ==
    LET e == x.ents[k]
        next == ById(x.ents, SourceId(e))
    IN  IF e.kind = "su" /\ Len(e.src) # 1
        THEN [walk |-> FoldLeft(LAMBDA y, id :
                                  IF y.ok THEN SelectorInput(y, k, id) ELSE y,
                                [x EXCEPT !.su = k], e.src),
              next |-> 0]
        ELSE IF SourceId(e) = 0 THEN [walk |-> x, next |-> 0]
        ELSE [walk |-> IF next = 0 THEN Failed(x) ELSE x, next |-> next]

-----------------------------------------------------------------------------
(* uvc_scan_device: the next output terminal not yet in a chain. *)
Terminals == {k \in DOMAIN w.ents : k >= pos /\ IsOutput(w.ents[k])
                                    /\ k \notin w.linked}

ScanTerminal ==
    /\ pc = "scan" /\ Terminals # {}
    /\ at' = Min(Terminals) /\ prev' = 0
    /\ pos' = Min(Terminals) + 1
    /\ w' = [w EXCEPT !.list = <<>>, !.pu = 0, !.su = 0, !.ok = TRUE]
    /\ pc' = "walk"
    /\ UNCHANGED <<descs, gpio, chains, guessed>>

(* A failed walk drops its chain but leaves its entities linked. *)
Abandon(x) == /\ w' = [x EXCEPT !.list = <<>>] /\ at' = 0
              /\ pc' = "scan"
              /\ UNCHANGED <<prev, chains>>

(* One turn of uvc_scan_chain. *)
Walk ==
    /\ pc = "walk" /\ at # 0
    /\ LET a == ScanChainEntity(w, at)
           b == IF a.ok THEN ScanChainForward(a, at, prev) ELSE a
           c == ScanChainBackward(b, at)
       IN  IF at \in w.linked THEN Abandon(w)
           ELSE IF ~b.ok THEN Abandon(b)
           ELSE IF ~c.walk.ok THEN Abandon(c.walk)
           ELSE /\ w' = c.walk /\ prev' = at /\ at' = c.next
                /\ UNCHANGED <<pc, chains>>
    /\ UNCHANGED <<descs, gpio, pos, guessed>>

ChainFound ==
    /\ pc = "walk" /\ at = 0
    /\ chains' = Append(chains, w.list)
    /\ w' = [w EXCEPT !.list = <<>>] /\ pc' = "scan"
    /\ UNCHANGED <<descs, gpio, pos, at, prev, guessed>>

-----------------------------------------------------------------------------
(* uvc_scan_fallback *)

Ins == {k \in DOMAIN w.ents : IsInput(w.ents[k])}
Outs == {k \in DOMAIN w.ents : IsOutput(w.ents[k])}

(* The terminal, the units with two pads from last to first, the input. *)
Sensible ==
    LET units == {k \in DOMAIN w.ents : w.ents[k].kind \in {"pu", "xu"}
                                        /\ Len(w.ents[k].src) = 1}
    IN  <<Min(Outs)>> \o SetToSortSeq(units, LAMBDA a, b : a > b) \o <<Min(Ins)>>

Reconnect(ents, line) ==
    [k \in DOMAIN ents |->
       IF \E i \in 1 .. Len(line) - 1 : line[i] = k
       THEN [ents[k] EXCEPT !.src[1] =
               ents[line[(CHOOSE i \in 1 .. Len(line) - 1 : line[i] = k) + 1]].id
               % ByteSize]
       ELSE ents[k]]

FallbackWalk ==
    FoldLeft(LAMBDA x, k : IF ~x.ok THEN x ELSE ScanChainEntity(x, k),
             [w EXCEPT !.list = <<>>, !.pu = 0, !.su = 0, !.ok = TRUE], Sensible)

Fallback ==
    /\ pc = "scan" /\ Terminals = {} /\ chains = <<>>
    /\ IF Cardinality(Ins) = 1 /\ Cardinality(Outs) = 1 /\ FallbackWalk.ok
       THEN /\ chains' = <<Sensible>> /\ guessed' = TRUE
            /\ w' = [FallbackWalk EXCEPT !.ents = Reconnect(@, Sensible),
                                         !.list = <<>>]
            /\ pc' = "gpio"
       ELSE pc' = "nochain" /\ UNCHANGED <<chains, guessed, w>>
    /\ UNCHANGED <<descs, gpio, pos, at, prev>>

ScanEnd ==
    /\ pc = "scan" /\ Terminals = {} /\ chains # <<>>
    /\ pc' = "gpio"
    /\ UNCHANGED <<descs, gpio, pos, w, at, prev, chains, guessed>>

(* The GPIO unit joins the first chain. *)
AddGpio ==
    /\ pc = "gpio" /\ pc' = "done"
    /\ chains' = IF HasGpio THEN [chains EXCEPT ![1] = Append(@, Len(w.ents))]
                 ELSE chains
    /\ UNCHANGED <<descs, gpio, pos, w, at, prev, guessed>>

Over == pc \in {"done", "failed", "nochain"} /\ UNCHANGED vars

Next == \/ ParseControl \/ ParseGpio \/ ScanTerminal \/ Walk \/ ChainFound
        \/ Fallback \/ ScanEnd \/ AddGpio \/ Over

Spec == Init /\ [][Next]_vars

-----------------------------------------------------------------------------
(* Properties. *)

Kind(k) == w.ents[k].kind
All == IF pc = "walk" THEN Append(chains, w.list) ELSE chains

(* No entity is in two chains or twice in one, not even while a walk goes  *)
(* on: loops among the references end the walk, which therefore ends.      *)
ChainsDisjoint ==
    \A i, j \in 1 .. Len(All) : \A a \in 1 .. Len(All[i]), b \in 1 .. Len(All[j]) :
      All[i][a] = All[j][b] => i = j /\ a = b

(* Every chain has the structure the driver's control code takes for       *)
(* granted: it starts at an output terminal, it has at most one processing *)
(* unit and at most one selector of several inputs, whose inputs are input *)
(* terminals of the same chain, and single-input extension units; an       *)
(* external connector is in it only as an input of that selector.          *)
ChainStructure ==
    \A i \in 1 .. Len(chains) :
      LET c == ToSet(chains[i])
          multi == {k \in c : Kind(k) = "su" /\ Len(w.ents[k].src) # 1}
      IN  /\ Kind(chains[i][1]) \in {"ots", "otd"}
          /\ Cardinality({k \in c : Kind(k) = "pu"}) <= 1
          /\ Cardinality(multi) <= 1
          /\ \A k \in multi : \A id \in ToSet(w.ents[k].src) :
               ById(w.ents, id) \in c /\ IsInput(w.ents[ById(w.ents, id)])
          /\ \A k \in c : Kind(k) = "xu" => Len(w.ents[k].src) = 1
          /\ \A k \in c : Kind(k) # "otx"
          /\ \A k \in c : Kind(k) = "itx" =>
               \E m \in multi : w.ents[k].id \in ToSet(w.ents[m].src)

(* A chain is connected: the source of each of its entities is in the same *)
(* chain, unless the descriptor names none (or, in a chain put together by *)
(* the heuristic, the entity that became the source has no valid id).      *)
ChainConnected ==
    \A i \in 1 .. Len(chains) : \A k \in ToSet(chains[i]) :
      Kind(k) # "gpio" =>
      \A id \in ToSet(w.ents[k].src) :
        \/ id = 0 \/ ById(w.ents, id) \in ToSet(chains[i])
        \/ guessed /\ \E m \in ToSet(chains[i]) : w.ents[m].id = Invalid

(* A camera with one output terminal and one input terminal, both of types *)
(* the walk supports, and at most one processing unit gets a chain,        *)
(* however its units refer to one another: whatever a failed walk left     *)
(* behind, the heuristic succeeds.                                         *)
OneCameraOneChain ==
    pc = "nochain" =>
      \/ Cardinality(Ins) # 1 \/ Cardinality(Outs) # 1
      \/ \E k \in Outs \cup Ins : Kind(k) \in {"otx", "itx"}
      \/ Cardinality({k \in DOMAIN w.ents : Kind(k) = "pu"}) > 1


=============================================================================

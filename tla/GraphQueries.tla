---------------------------- MODULE GraphQueries ----------------------------
(***************************************************************************)
(* The read queries of one index (crates/orbit-graph/src/query: refs.rs,   *)
(* callees.rs, impact.rs, trace.rs).  An index holds symbols, a sequence   *)
(* whose positions are the row ids, and the rows of refs and relations in  *)
(* the order the statements sort them.  Files, qualified names and short   *)
(* names are positive numbers; an offset is a number and a line is ten of  *)
(* them.  A confidence is its rank, 1 (exact) to 4 (fuzzy_name).           *)
(***************************************************************************)
EXTENDS Naturals, Sequences, FiniteSets, FiniteSetsExt, SequencesExt

None == 0
Fuzzy == 4

VisibleAtFloor(conf, floor) == conf <= floor

(* The first of some row ids, in the order of the ids.                     *)
First(ids) == IF ids = {} THEN None ELSE Min(ids)

(* The row a selector file#name addresses: a qualified match before a      *)
(* short one.  Directories, files and modules address no symbol.           *)
ResolveTarget(ix, sel) ==
    LET hits == {i \in DOMAIN ix.symbols :
                   ix.symbols[i].file = sel.file /\ sel.name \in {ix.symbols[i].name, ix.symbols[i].qual}}
        exact == {i \in hits : ix.symbols[i].qual = sel.name}
    IN  IF sel.form # "symbol" THEN None
        ELSE First(IF exact # {} THEN exact ELSE hits)

(* A stored ref names its target; of two symbols with that name it means   *)
(* the hinted one, as long as the hint still has the name.                 *)
InboundTargetMatch(ix, id, r) ==
    /\ r.tqual = ix.symbols[id].qual
    /\ \/ r.hint = id
       \/ ~ (r.hint \in DOMAIN ix.symbols /\ ix.symbols[r.hint].qual = r.tqual)

QueryRefs(ix, id, floor) ==
    SelectSeq(ix.refs, LAMBDA r :
        /\ \/ InboundTargetMatch(ix, id, r)
           \/ floor = Fuzzy /\ r.conf = Fuzzy /\ r.tname = ix.symbols[id].name /\ r.kind # "runtime"
        /\ VisibleAtFloor(r.conf, floor))

(* What the floor hid, when it hid everything.                             *)
RefsFallback(ix, id, floor) ==
    IF QueryRefs(ix, id, floor) # <<>> \/ floor = Fuzzy THEN <<>>
    ELSE QueryRefs(ix, id, Fuzzy)

QueryRelations(ix, id, floor) ==
    SelectSeq(ix.relations, LAMBDA r : r.to = ix.symbols[id].qual /\ VisibleAtFloor(r.conf, floor))

(* The smallest symbol around a span, the oldest of several.               *)
Enclosing(ix, r) ==
    LET around == {i \in DOMAIN ix.symbols : /\ ix.symbols[i].file = r.file
                                             /\ ix.symbols[i].start <= r.start
                                             /\ ix.symbols[i].end >= r.end}
        Length(i) == ix.symbols[i].end - ix.symbols[i].start
    IN  First({i \in around : \A j \in around : Length(i) <= Length(j)})

(* The calls written inside a symbol.                                      *)
EdgesForSymbol(ix, id) ==
    SelectSeq(ix.refs, LAMBDA r : /\ r.file = ix.symbols[id].file /\ r.kind = "call"
                                  /\ r.start >= ix.symbols[id].start /\ r.end <= ix.symbols[id].end)

(* The hinted symbol if it still has the name, else the first that has it. *)
ResolveQualified(ix, qual, hint) ==
    IF hint \in DOMAIN ix.symbols /\ ix.symbols[hint].qual = qual THEN hint
    ELSE First({i \in DOMAIN ix.symbols : ix.symbols[i].qual = qual})

----------------------------------------------------------------------------
(* Impact.  A neighbour is its key: a symbol's row, the file of a call     *)
(* outside every symbol, or a name that nothing indexed has.               *)

NamedKey(ix, qual, hint) ==
    LET id == ResolveQualified(ix, qual, hint)
    IN  IF id = None THEN <<"unresolved", qual>> ELSE <<"symbol", id>>

Mapped(s, Op(_)) == [i \in DOMAIN s |-> Op(s[i])]

InboundRefNeighbors(ix, id, floor) ==
    Mapped(QueryRefs(ix, id, floor), LAMBDA r :
        LET e == Enclosing(ix, r) IN IF e = None THEN <<"file", r.file>> ELSE <<"symbol", e>>)

OutboundCallNeighbors(ix, id, floor) ==
    LET calls == SelectSeq(EdgesForSymbol(ix, id), LAMBDA r :
                    VisibleAtFloor(r.conf, floor) /\ r.tqual # None)
    IN  Mapped(calls, LAMBDA r : NamedKey(ix, r.tqual, r.hint))

RelationNeighbors(ix, id, floor, direction) ==
    LET qual == ix.symbols[id].qual
        In == SelectSeq(ix.relations, LAMBDA r : r.to = qual /\ VisibleAtFloor(r.conf, floor))
        Out == SelectSeq(ix.relations, LAMBDA r : r.from = qual /\ VisibleAtFloor(r.conf, floor))
        Ins == Mapped(In, LAMBDA r : NamedKey(ix, r.from, None))
        Outs == Mapped(Out, LAMBDA r : NamedKey(ix, r.to, None))
    IN  CASE direction = "inbound" -> Ins [] direction = "outbound" -> Outs
          [] direction = "both" -> Ins \o Outs

Neighbors(ix, id, floor, direction) ==
    (IF direction \in {"inbound", "both"} THEN InboundRefNeighbors(ix, id, floor) ELSE <<>>) \o
    (IF direction \in {"outbound", "both"} THEN OutboundCallNeighbors(ix, id, floor) ELSE <<>>) \o
    RelationNeighbors(ix, id, floor, direction)
=============================================================================

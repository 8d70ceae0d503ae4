--------------------------- MODULE MCTraderConfig ---------------------------
(* Four-bit integers.  A document sets at most two fields besides the        *)
(* objects that hold them: every field to every value, and every pair of     *)
(* fields to values that are good, bad or at a limit.                        *)
EXTENDS TraderConfig, TLC

MCText(s) == [type |-> "string", s |-> s]
MCInteger(n) == [type |-> IF n >= 0 THEN "unsigned" ELSE "signed", v |-> n]
MCObject == [type |-> "object"]

MCIntegers == {MCInteger(n) : n \in {-8, -1, 0, 1, 7, 8, 15}}

MCValues ==
    MCIntegers
      \cup {[type |-> "float"], [type |-> "bool", b |-> TRUE], MCObject}
      \cup {MCText(s) : s \in {"paper", "live", "md-only", "kalshi", "other"}}
      \cup {[type |-> "array", items |-> items] :
               items \in {<<>>, <<MCText("trade")>>, <<MCText("trade"), MCInteger(1)>>}}

MCParents(path) == {SubSeq(path, 1, n) : n \in 1..(Len(path) - 1)}

\* The document with these values, and with the objects around them.
MCDocument(values) ==
    [kind   |-> "object",
     values |-> [p \in UNION {MCParents(q) : q \in DOMAIN values} |-> MCObject] @@ values]

MCPairValues == {MCInteger(0), MCInteger(8), MCText("paper")}

MCDocuments ==
    {[kind |-> k] : k \in {"unreadable", "no_json", "no_object"}}
      \cup {MCDocument(p :> v) : p \in Paths, v \in MCValues}
      \cup {MCDocument(p :> v @@ q :> w) :
               p \in Paths, q \in Paths, v \in MCPairValues, w \in MCPairValues}
=============================================================================

-------------------------- MODULE MCKalshiParser ---------------------------
(* Six-bit integers and doubles with a mantissa of three bits: the limits   *)
(* are related as those of 64 and 53 bits are.                              *)
EXTENDS KalshiParser

Absent == [type |-> "absent"]
Number(n) == [type |-> "integer", v |-> n]
Text(s) == [type |-> "string", s |-> s]
Levels(seq) == [type |-> "array", items |-> seq]

\* numbers at every limit, and a value of the wrong type
MCNumbers == {Absent, Text("x")} \cup {Number(n) : n \in {-33, -32, -1, 0, 1, 31, 32}}

MCCounts ==
    MCNumbers
      \cup {Number(n) : n \in {7, 9, 33, 34, 35, 63, 64, 65}}
      \cup {[type |-> "float", halves |-> h] : h \in -2..75}
      \cup [type : {"decimal"}, negative : BOOLEAN,
            digits : {nullopt, 0, 5, 31, 32, 64}, fraction_is_zero : BOOLEAN]

MCBase ==
    [market_ticker |-> Text("m1"), seq |-> Absent, seq_id |-> Absent,
     yes |-> Levels(<<>>), no |-> Levels(<<>>),
     price |-> Number(1), delta |-> Number(-1), side |-> Text("yes"),
     yes_price |-> Absent, count |-> Number(1), count_fp |-> Absent,
     taker_side |-> Text("no")]

MCRoot(type, seq) == [type |-> Text(type), seq |-> seq, seq_id |-> Absent]

\* every place for a sequence number
MCSequenced ==
    LET numbers == {Absent, Number(-1), Number(1), Number(2)}
    IN  {[root |-> [type |-> Text(t), seq |-> a, seq_id |-> b],
          msg  |-> [MCBase EXCEPT !.seq = c, !.seq_id = d]] :
            t \in MessageTypes, a \in numbers, b \in numbers, c \in numbers, d \in numbers}

\* messages that are not for the pipeline
MCForeign ==
    {[root |-> [type |-> t, seq |-> Number(1), seq_id |-> Absent], msg |-> m] :
        t \in {Absent, Text("subscribed"), Text("trade"), Text("orderbook_delta")},
        m \in {nullopt, MCBase, [MCBase EXCEPT !.market_ticker = Text("")],
               [MCBase EXCEPT !.market_ticker = Number(1)]}}

MCTrades ==
    {[root |-> MCRoot("trade", Absent), msg |-> m] :
        m \in {[MCBase EXCEPT !.count = c, !.count_fp = f] :
                  c \in {Absent, Text("x"), Number(3), Number(-1), Number(32)}, f \in MCCounts}
              \cup {[MCBase EXCEPT !.yes_price = p, !.price = q, !.taker_side = s] :
                  p \in MCNumbers, q \in MCNumbers, s \in {Absent, Text("yes"), Text("x")}}}

MCDeltas ==
    {[root |-> MCRoot("orderbook_delta", Number(1)),
      msg  |-> [MCBase EXCEPT !.price = p, !.delta = d, !.side = s]] :
        p \in MCNumbers, d \in MCNumbers,
        s \in {Absent, Text("bid"), Text("ask"), Text("x")}}

MCSnapshots ==
    LET levels == {Absent, Levels(<<>>), Levels(<< <<Number(1)>> >>),
                   Levels(<< <<Number(1), Number(0)>>, <<Number(2), Number(31)>> >>),
                   Levels(<< <<Number(1), Number(2)>>, <<Number(2), Number(-1)>> >>),
                   Levels(<< <<Number(1), Number(32)>> >>)}
    IN  {[root |-> MCRoot("orderbook_snapshot", Number(1)),
          msg  |-> [MCBase EXCEPT !.yes = y, !.no = n]] : y \in levels, n \in levels}

MCMessages == MCSequenced \cup MCForeign \cup MCTrades \cup MCDeltas \cup MCSnapshots
=============================================================================

---------------------------- MODULE KalshiParser ----------------------------
(***************************************************************************)
(* The way of one message through the Kalshi extractor, the router's       *)
(* hand-over and the Kalshi parser, both of which read the JSON text for   *)
(* themselves.                                                             *)
(*                                                                         *)
(* A message is the record of its root and of its msg object; a field is a *)
(* JSON value with its type.  A float is given in halves and a decimal     *)
(* text by its parts.  simdjson is external: a getter of it succeeds on a  *)
(* value of its type and range.  Text that is no JSON object, the frame's  *)
(* ready-made ticker (the sink leaves it empty), timestamps and trade ids  *)
(* are left out.                                                           *)
(***************************************************************************)
EXTENDS Integers, Sequences, FiniteSetsExt

CONSTANTS
    IntBits,         \* 64: the width of std::int64_t
    MantissaBits,    \* 53: the precision of double
    CastOutOfRange,  \* what the cast of 2^63 to std::int64_t gives
    Messages,        \* the messages the exchange may send
    nullopt          \* std::nullopt

MaxInt == 2^(IntBits - 1) - 1
MinInt == -2^(IntBits - 1)

\* x86-64 gives the "integer indefinite" value.
ASSUME ParserAssumption ==
    /\ 0 < MantissaBits /\ MantissaBits < IntBits
    /\ CastOutOfRange = MinInt
    /\ nullopt \notin {"kMissingField", "kInvalidField", "kUnsupportedMessageType"}

VARIABLES
    stage,     \* "received", "routed", "dropped", "parsed", "failed"
    message,
    fields,    \* ExtractedFields, once routed
    result     \* NormalizedEvent, once parsed; or the parser's error

parserVars == <<stage, message, fields, result>>

\* Nothing ever clears the parser's flag.
strict_field_validation == TRUE

BookTypes == {"orderbook_snapshot", "orderbook_delta"}
MessageTypes == BookTypes \cup {"trade"}

-----------------------------------------------------------------------------
(* Values                                                                  *)

IsInt64(value) == value.type = "integer" /\ value.v \in MinInt..MaxInt
IsUint64(value) == value.type = "integer" /\ value.v \in 0..(2^IntBits - 1)
IsString(value) == value.type = "string"
IsArray(value) == value.type = "array"

\* The first of the values that is a sequence number; nullopt if there is none.
FirstSequence(values) ==
    LET numbers == {i \in DOMAIN values : IsUint64(values[i])}
    IN  IF numbers = {} THEN nullopt ELSE values[Min(numbers)].v

\* x >= 0 halves, rounded to the nearest double, ties to even
Double(x) ==
    IF x < 2^MantissaBits THEN x
    ELSE LET bits == CHOOSE b \in MantissaBits..2 * IntBits : 2^b <= x /\ x < 2^(b + 1)
             unit == 2^(bits + 1 - MantissaBits)
             rest == x % unit
             down == x - rest
         IN  IF 2 * rest < unit \/ (2 * rest = unit /\ (down \div unit) % 2 = 0)
             THEN down ELSE down + unit

\* parse_non_negative_decimal_string_to_int64, on a text of the form
\* [-]digits[.fraction]; digits is nullopt if there is none or one is no digit
DecimalCount(text) ==
    IF ~text.negative /\ text.digits # nullopt /\ text.fraction_is_zero
    THEN IF text.digits <= MaxInt THEN text.digits ELSE nullopt
    ELSE nullopt

\* Faulty variant: the fraction is cut off.
DoubleCount_Truncates(halves) ==
    LET count == Double(halves)
    IN  IF halves < 0 \/ count > Double(2 * MaxInt) THEN nullopt
        ELSE IF count \div 2 > MaxInt THEN CastOutOfRange ELSE count \div 2

\* The largest int64 is no double: the limit that count is compared with is 2^63,
\* which passes and does not fit.
DoubleCount(halves) ==
    LET count == Double(halves)
    IN  IF halves < 0 \/ count % 2 # 0 \/ count > Double(2 * MaxInt) THEN nullopt
        ELSE IF count \div 2 > MaxInt THEN CastOutOfRange ELSE count \div 2

\* the count, or nullopt
get_lot_count(msg) ==
    LET Counted(v) == IF v >= 0 THEN v ELSE nullopt
        fp == msg.count_fp
    IN  CASE IsInt64(msg.count)   -> Counted(msg.count.v)
          [] ~IsInt64(msg.count) /\ IsInt64(fp) -> Counted(fp.v)
          [] ~IsInt64(msg.count) /\ ~IsInt64(fp) /\ fp.type = "integer" ->
                 DoubleCount(2 * fp.v)
          [] ~IsInt64(msg.count) /\ fp.type = "float"   -> DoubleCount(fp.halves)
          [] ~IsInt64(msg.count) /\ fp.type = "decimal" -> DecimalCount(fp)
          [] OTHER -> nullopt

parse_book_side(token) ==
    CASE token \in {"yes", "bid"} -> "kBid"
      [] token \in {"no", "ask"}  -> "kAsk"
      [] OTHER                    -> "kUnknown"

parse_trade_side(token) ==
    CASE token \in {"yes", "buy"} -> "kBuy"
      [] token \in {"no", "sell"} -> "kSell"
      [] OTHER                    -> "kUnknown"

\* A level is an array that starts with a price and a quantity.
IsLevel(level) ==
    /\ Len(level) >= 2
    /\ \A i \in 1..2 : IsInt64(level[i]) /\ level[i].v >= 0

LevelsAreValid(array) == \A i \in DOMAIN array.items : IsLevel(array.items[i])

parse_levels(array) ==
    [i \in DOMAIN array.items |->
        [price_ticks |-> array.items[i][1].v, qty_lots |-> array.items[i][2].v]]

-----------------------------------------------------------------------------
(* The extractor and the router                                            *)

\* Faulty variant: the message's own number goes first.
extract_sequence_MsgFirst(root, msg) ==
    FirstSequence(<<msg.seq, msg.seq_id, root.seq, root.seq_id>>)

extract_sequence(root, msg) ==
    FirstSequence(<<root.seq, root.seq_id, msg.seq, msg.seq_id>>)

Extractable(m) ==
    /\ IsString(m.root.type) /\ m.root.type.s \in MessageTypes
    /\ m.msg # nullopt
    /\ IsString(m.msg.market_ticker) /\ m.msg.market_ticker.s # ""

Route ==
    /\ stage = "received"
    /\ IF Extractable(message)
       THEN /\ stage' = "routed"
            /\ fields' = [market_ticker |-> message.msg.market_ticker.s,
                          seq_id        |-> extract_sequence(message.root, message.msg)]
       ELSE /\ stage' = "dropped"
            /\ UNCHANGED fields
    /\ UNCHANGED <<message, result>>

-----------------------------------------------------------------------------
(* The parser                                                              *)

Failure(error) == [error |-> error]

Event(type, sequence, data) ==
    [error           |-> nullopt,
     type            |-> type,
     market_ticker   |-> fields.market_ticker,
     raw_sequence_id |-> sequence,
     data            |-> data]

\* set_sequence_from_root: the root's number, or else the extractor's
RootSequence(root) ==
    LET own == FirstSequence(<<root.seq, root.seq_id>>)
    IN  IF own # nullopt THEN own ELSE fields.seq_id

\* set_sequence_from_msg: a trade's own number goes first
TradeSequence(root, msg) ==
    LET own == FirstSequence(<<msg.seq, msg.seq_id>>)
    IN  IF own # nullopt THEN own ELSE RootSequence(root)

parse_snapshot(msg, sequence) ==
    IF sequence = nullopt \/ ~IsArray(msg.yes) THEN Failure("kMissingField")
    ELSE IF ~LevelsAreValid(msg.yes)        THEN Failure("kInvalidField")
    ELSE IF ~IsArray(msg.no)                THEN Failure("kMissingField")
    ELSE IF ~LevelsAreValid(msg.no)         THEN Failure("kInvalidField")
    ELSE Event("kSnapshot", sequence,
               [bids |-> parse_levels(msg.yes), asks |-> parse_levels(msg.no)])

parse_delta(msg, sequence) ==
    IF sequence = nullopt \/ ~IsInt64(msg.price) \/ ~IsInt64(msg.delta)
    THEN Failure("kMissingField")
    ELSE IF msg.price.v < 0          THEN Failure("kInvalidField")
    ELSE IF ~IsString(msg.side)      THEN Failure("kMissingField")
    ELSE IF parse_book_side(msg.side.s) = "kUnknown" /\ strict_field_validation
    THEN Failure("kInvalidField")
    ELSE Event("kDelta", sequence,
               [side           |-> parse_book_side(msg.side.s),
                price_ticks    |-> msg.price.v,
                delta_qty_lots |-> msg.delta.v])

parse_trade(msg, sequence) ==
    LET price     == IF IsInt64(msg.yes_price) THEN msg.yes_price ELSE msg.price
        qty       == get_lot_count(msg)
        aggressor == IF IsString(msg.taker_side)
                     THEN parse_trade_side(msg.taker_side.s) ELSE "kUnknown"
    IN  IF ~IsInt64(price) \/ qty = nullopt THEN Failure("kMissingField")
        ELSE IF price.v < 0 \/ qty < 0   THEN Failure("kInvalidField")
        ELSE IF strict_field_validation /\ aggressor = "kUnknown"
        THEN Failure(IF IsString(msg.taker_side) THEN "kInvalidField" ELSE "kMissingField")
        ELSE Event("kTrade", sequence,
                   [price_ticks |-> price.v, qty_lots |-> qty, aggressor |-> aggressor])

\* The parser looks for type and msg again, in the text.
parse(m) ==
    LET type == m.root.type
    IN  IF ~IsString(type)                            THEN Failure("kMissingField")
        ELSE IF type.s \notin MessageTypes            THEN Failure("kUnsupportedMessageType")
        ELSE IF m.msg = nullopt                          THEN Failure("kMissingField")
        ELSE CASE type.s = "orderbook_snapshot" -> parse_snapshot(m.msg, RootSequence(m.root))
               [] type.s = "orderbook_delta"    -> parse_delta(m.msg, RootSequence(m.root))
               [] type.s = "trade"              -> parse_trade(m.msg, TradeSequence(m.root, m.msg))

Parse ==
    /\ stage = "routed"
    /\ result' = parse(message)
    /\ stage' = IF result'.error = nullopt THEN "parsed" ELSE "failed"
    /\ UNCHANGED <<message, fields>>

-----------------------------------------------------------------------------
(* The specification                                                       *)

ParserInit ==
    /\ stage = "received"
    /\ message \in Messages
    /\ fields = nullopt /\ result = nullopt

ParserNext == Route \/ Parse

ParserSpec == ParserInit /\ [][ParserNext]_parserVars

-----------------------------------------------------------------------------
(* Properties                                                              *)

\* Two readers look for the sequence number of a book message, the extractor in
\* root and msg, the parser in root with the extractor's as a fallback.  They
\* agree, so that the number a book is ordered by is the one the message was
\* routed with; and a book event always has one.
SequencesAgree ==
    (stage = "parsed" /\ result.type # "kTrade") =>
        result.raw_sequence_id # nullopt /\ result.raw_sequence_id = fields.seq_id

\* The quantity of a trade is the count that was written, in whichever of the
\* forms: an integer, a float, or a decimal text.  A count with a fraction is
\* refused, never cut; one past the range of double's mantissa is off by no more
\* than its rounding; one that does not fit 64 bits is refused, also 2^63, which
\* get_lot_count lets through.
QtyIsWrittenCount ==
    (stage = "parsed" /\ result.type = "kTrade") =>
        LET value == IF IsInt64(message.msg.count) THEN message.msg.count
                     ELSE message.msg.count_fp
            halves == CASE value.type = "integer" -> 2 * value.v
                        [] value.type = "float"   -> value.halves
                        [] value.type = "decimal" -> 2 * value.digits
            off == 2 * result.data.qty_lots - halves
        IN  /\ result.data.qty_lots \in 0..MaxInt
            /\ (IF off >= 0 THEN off ELSE -off) * 2^MantissaBits <= halves
=============================================================================

---------------------------- MODULE TraderConfig ----------------------------
(***************************************************************************)
(* load_trader_config_from_file: the walk over the JSON document that      *)
(* fills a TraderRuntimeConfig and stops at the first field it refuses.    *)
(*                                                                         *)
(* A document maps the paths that are present to JSON values; a path is    *)
(* the sequence of its keys, and what holds a path is an object.  A        *)
(* configuration maps the same paths to what the code stores.  The JSON    *)
(* library is external: it keeps an integer as unsigned if it is not       *)
(* negative, and one that fits no 64 bits as a float.  Keys that the walk  *)
(* does not ask for have no effect.                                        *)
(***************************************************************************)
EXTENDS Integers, Sequences

CONSTANTS
    IntBits,    \* 64: the width of the integers
    Documents   \* the files there may be

ASSUME ConfigAssumption == IntBits \in Nat \ {0}

VARIABLES
    document,  \* what the file holds
    at,        \* the entry of Fields that is next
    config,    \* result.config
    result,    \* "reading", "ok" or "failed"
    error      \* what result.error names: a path, or what is wrong with the file

vars == <<document, at, config, result, error>>

MaxInt == 2^(IntBits - 1) - 1
MinInt == -2^(IntBits - 1)

-----------------------------------------------------------------------------
(* The fields, in the order of the walk                                    *)

Field(path, kind) == [path |-> path, kind |-> kind]

KalshiFields ==
    <<Field(<<"kalshi">>, "object"),
      Field(<<"kalshi", "endpoint">>, "string"),
      Field(<<"kalshi", "channels">>, "string_array"),
      Field(<<"kalshi", "credentials">>, "object"),
      Field(<<"kalshi", "credentials", "key_id">>, "string"),
      Field(<<"kalshi", "credentials", "private_key_pem">>, "string"),
      Field(<<"kalshi", "credentials", "key_id_env">>, "string"),
      Field(<<"kalshi", "credentials", "private_key_pem_env">>, "string")>>

MarketUniverseFields ==
    <<Field(<<"market_universe">>, "object"),
      Field(<<"market_universe", "tickers">>, "string_array")>>

RiskFields ==
    <<Field(<<"risk">>, "object"),
      Field(<<"risk", "shard">>, "object"),
      Field(<<"risk", "shard", "max_open_orders_per_market">>, "size"),
      Field(<<"risk", "shard", "max_working_qty_per_market">>, "qty"),
      Field(<<"risk", "shard", "max_abs_net_position_per_market">>, "qty"),
      Field(<<"risk", "oms_global">>, "object"),
      Field(<<"risk", "oms_global", "max_active_orders_global">>, "size"),
      Field(<<"risk", "oms_global", "max_active_orders_per_market">>, "size"),
      Field(<<"risk", "oms_global", "max_outstanding_qty_global">>, "qty"),
      Field(<<"risk", "oms_global", "max_outstanding_qty_per_market">>, "qty"),
      Field(<<"risk", "oms_portfolio">>, "object"),
      Field(<<"risk", "oms_portfolio", "max_abs_net_position_per_market">>, "qty"),
      Field(<<"risk", "oms_portfolio", "max_abs_position_gross_global">>, "qty"),
      Field(<<"risk", "oms_portfolio", "min_realized_pnl_ticks">>, "int64"),
      Field(<<"risk", "oms_portfolio", "enforce_realized_pnl_floor">>, "bool")>>

PipelineFields ==
    <<Field(<<"pipeline">>, "object"),
      Field(<<"pipeline", "source">>, "string"),
      Field(<<"pipeline", "exchange">>, "exchange"),
      Field(<<"pipeline", "frame_pool_capacity">>, "positive_size"),
      Field(<<"pipeline", "frame_queue_capacity">>, "positive_size"),
      Field(<<"pipeline", "shard_count">>, "positive_size"),
      Field(<<"pipeline", "per_shard_queue_capacity">>, "positive_size"),
      Field(<<"pipeline", "shard_idle_sleep_ms">>, "ms")>>

RuntimeFields ==
    <<Field(<<"runtime">>, "object"),
      Field(<<"runtime", "pump_batch_size">>, "positive_size"),
      Field(<<"runtime", "pump_idle_sleep_ms">>, "ms"),
      Field(<<"runtime", "execution_mode">>, "execution_mode")>>

Fields ==
    <<Field(<<"mode">>, "string")>> \o KalshiFields \o MarketUniverseFields
      \o RiskFields \o PipelineFields \o RuntimeFields

\* TraderRuntimeConfig{}.  "default" stands for any text, 1 for any positive size;
\* the limits are 0, which disables them.
DefaultOf(field) ==
    CASE field.path = <<"mode">> -> "dev"
      [] field.kind = "execution_mode"    -> "kLive"
      [] field.kind = "exchange"          -> "kKalshi"
      [] field.kind = "string" /\ field.path # <<"mode">> ->
             IF field.path[Len(field.path)] \in {"key_id", "private_key_pem"}
             THEN "" ELSE "default"
      [] field.path = <<"kalshi", "channels">> -> <<"trades">>
      [] field.path = <<"market_universe", "tickers">> -> <<>>
      [] field.kind = "bool"              -> FALSE
      [] field.kind \in {"size", "qty", "int64"}  -> 0
      [] field.kind \in {"positive_size", "ms"}   -> 1
      [] field.kind = "object"            -> "object"

-----------------------------------------------------------------------------
(* The checks of one value, and what is stored                             *)

IsInteger(value) == value.type \in {"unsigned", "signed"}

\* value.get<std::int64_t>(): an unsigned value is converted without a check
AsInt64(value) == ((value.v - MinInt) % 2^IntBits) + MinInt

parse_positive_size_t(value) == value.type = "unsigned" /\ value.v # 0

\* Faulty variant: any integer passes, and a negative one is converted.
parse_non_negative_size_t_Signed(value) == IsInteger(value)

parse_non_negative_size_t(value) == value.type = "unsigned"

parse_non_negative_ms(value) == IsInteger(value) /\ AsInt64(value) >= 0

parse_int64(value) == IsInteger(value)

parse_non_negative_qty(value) == parse_int64(value) /\ AsInt64(value) >= 0

parse_string_array(value) ==
    value.type = "array" /\ \A i \in DOMAIN value.items : value.items[i].type = "string"

ExchangeIds == [kalshi |-> "kKalshi", polymarket |-> "kPolymarket"]

parse_exchange_id(value) == value.type = "string" /\ value.s \in DOMAIN ExchangeIds

MarketDataOnlyNames == {"md-only", "md_only", "market-data-only", "market_data_only"}

parse_execution_mode(value) ==
    value.type = "string" /\ value.s \in {"live", "paper"} \cup MarketDataOnlyNames

Accepts(kind, value) ==
    CASE kind = "object"         -> value.type = "object"
      [] kind = "string"         -> value.type = "string"
      [] kind = "bool"           -> value.type = "bool"
      [] kind = "string_array"   -> parse_string_array(value)
      [] kind = "size"           -> parse_non_negative_size_t(value)
      [] kind = "positive_size"  -> parse_positive_size_t(value)
      [] kind = "ms"             -> parse_non_negative_ms(value)
      [] kind = "int64"          -> parse_int64(value)
      [] kind = "qty"            -> parse_non_negative_qty(value)
      [] kind = "exchange"       -> parse_exchange_id(value)
      [] kind = "execution_mode" -> parse_execution_mode(value)

Stored(kind, value) ==
    CASE kind = "object"         -> "object"
      [] kind = "string"         -> value.s
      [] kind = "bool"           -> value.b
      [] kind = "string_array"   -> [i \in DOMAIN value.items |-> value.items[i].s]
      [] kind \in {"size", "positive_size"} -> value.v % 2^IntBits
      [] kind \in {"ms", "int64", "qty"}    -> AsInt64(value)
      [] kind = "exchange"       -> ExchangeIds[value.s]
      [] kind = "execution_mode" -> CASE value.s = "live"  -> "kLive"
                                      [] value.s = "paper" -> "kPaper"
                                      [] OTHER             -> "kMarketDataOnly"

-----------------------------------------------------------------------------
(* The walk                                                                *)

\* The file cannot be opened, is no JSON text, or is no object.
RejectDocument ==
    /\ result = "reading" /\ at = 1
    /\ document.kind # "object"
    /\ result' = "failed" /\ error' = <<document.kind>>
    /\ UNCHANGED <<document, at, config>>

ReadField ==
    /\ result = "reading"
    /\ document.kind = "object"
    /\ at <= Len(Fields)
    /\ LET field == Fields[at]
       IN  IF field.path \notin DOMAIN document.values
           THEN at' = at + 1 /\ UNCHANGED <<config, result, error>>
           ELSE LET value == document.values[field.path]
                IN  IF Accepts(field.kind, value)
                    THEN /\ config' = [config EXCEPT ![field.path] = Stored(field.kind, value)]
                         /\ at' = at + 1 /\ UNCHANGED <<result, error>>
                    ELSE /\ result' = "failed" /\ error' = field.path
                         /\ UNCHANGED <<at, config>>
    /\ UNCHANGED document

Finish ==
    /\ result = "reading"
    /\ document.kind = "object"
    /\ at > Len(Fields)
    /\ result' = "ok"
    /\ UNCHANGED <<document, at, config, error>>

-----------------------------------------------------------------------------
(* The specification                                                       *)

FieldAt(path) == Fields[CHOOSE i \in DOMAIN Fields : Fields[i].path = path]
Paths == {Fields[i].path : i \in DOMAIN Fields}

Init ==
    /\ document \in Documents
    /\ at = 1
    /\ config = [path \in Paths |-> DefaultOf(FieldAt(path))]
    /\ result = "reading" /\ error = <<>>

Next == RejectDocument \/ ReadField \/ Finish

Spec == Init /\ [][Next]_vars

-----------------------------------------------------------------------------
(* Properties                                                              *)

\* A configuration that is accepted holds every number of the document as it was
\* written, and the default of every field that was not: no limit is lost in a
\* conversion.  The exception is a floor for the realized profit of 2^63 or more,
\* which parse_int64 converts to a negative one.
NumbersAreAsWritten ==
    result = "ok" =>
        \A path \in Paths :
            IF path \notin DOMAIN document.values
            THEN config[path] = DefaultOf(FieldAt(path))
            ELSE LET value == document.values[path]
                 IN  (IsInteger(value)
                        /\ ~(FieldAt(path).kind = "int64" /\ value.v > MaxInt))
                     => config[path] = value.v
=============================================================================

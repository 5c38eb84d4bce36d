------------------------------- MODULE Config -------------------------------
(***************************************************************************)
(* internal/config: what Validate accepts, and what the layers derive from *)
(* an accepted configuration, each on its own: the engine its largest      *)
(* value, the codec its bulk and element limits, the connection its        *)
(* request budget.                                                         *)
(*                                                                         *)
(* A configuration is a record.  A size is written as digits and a unit,   *)
(* or is Malformed; an address is one of the kinds the checks tell apart.  *)
(* The figures of the code are constants, related as they are there.       *)
(***************************************************************************)
EXTENDS Integers

CONSTANTS Kilo,             \* 1024
          Word,             \* 2^64
          MaxInt,           \* math.MaxInt
          Ceiling,          \* 16MB, the largest storage.max_value_size
          Framing,          \* 64KB: protocolFraming
          Margin,           \* 1MB: RequestBudgetMargin
          BulkMargin,       \* bulkMargin of the codec
          MinRequest,       \* minRequestBytes
          DefaultRequest,   \* defaultMaxRequestBytes
          MinOutput,        \* minOutputBuffer
          Million,          \* the sanity bound of the counted limits
          Second, TenMs,    \* the floors of the two durations
          MaxElements,      \* maxRequestElements
          Malformed, NoToken

ASSUME FiguresAssumption ==
    /\ {Kilo, Word, MaxInt, Ceiling, Framing, Margin, BulkMargin, MinRequest,
        DefaultRequest, MinOutput, Million, Second, TenMs, MaxElements} \subseteq Nat \ {0}
    /\ Framing <= Margin
    /\ Ceiling + Margin < Word /\ Ceiling + Margin < MaxInt
    /\ 3 * 7 <= MinRequest /\ 3 <= MaxElements

---------------------------------------------------------------------------
(* Sizes. *)

Multiplier == <<1, Kilo, Kilo * Kilo, Kilo * Kilo * Kilo, Kilo * Kilo * Kilo * Kilo>>

IsSize(s) == s # Malformed /\ s.digits < Word

\* The product is one of uint64: it wraps.
ParseSize(s) == (s.digits * Multiplier[s.unit]) % Word

---------------------------------------------------------------------------
(* Validate: a conjunction, though the code reports every conjunct that fails. *)

BindAddrOK(addr) == addr \notin {"blank", "malformed"}

PortOK(port) == port \in 1 .. 65535

ConnLimitsOK(c) ==
    /\ c.maxConnections \in 1 .. Million
    /\ c.idleTimeout = 0 \/ c.idleTimeout >= Second
    /\ c.maxPipeline \in 1 .. Million
    /\ IsSize(c.maxOutput)
    /\ ParseSize(c.maxOutput) # 0 => ParseSize(c.maxOutput) >= MinOutput

RequestSizeOK_Unframed(c) ==
    /\ IsSize(c.maxRequest)
    /\ ParseSize(c.maxRequest) # 0 /\ IsSize(c.maxValue)
          => ParseSize(c.maxRequest) >= ParseSize(c.maxValue)

RequestSizeOK(c) ==
    /\ IsSize(c.maxRequest)
    /\ ParseSize(c.maxRequest) # 0 /\ IsSize(c.maxValue)
          => ParseSize(c.maxRequest) >= (ParseSize(c.maxValue) + Framing) % Word

ServerOK(c) == BindAddrOK(c.clientAddr) /\ PortOK(c.clientPort) /\ ConnLimitsOK(c) /\ RequestSizeOK(c)

IsLoopback(addr) == addr \in {"loopback", "localhost"}

AdminExposureOK(c) == IsLoopback(c.adminAddr) \/ c.adminToken # NoToken

TokensSeparate(c) == c.adminToken = NoToken \/ c.adminToken # c.authToken

AdminOK(c) ==
    /\ BindAddrOK(c.adminAddr) /\ PortOK(c.adminPort)
    /\ c.adminPort # c.clientPort
    /\ AdminExposureOK(c) /\ TokensSeparate(c)

StorageOK(c) ==
    /\ c.shardCount \in 0 .. 4096
    /\ IsSize(c.maxMemory) /\ IsSize(c.maxValue)
    /\ ParseSize(c.maxValue) <= Ceiling

TTLOK(c) ==
    /\ c.checkInterval = 0 \/ c.checkInterval >= TenMs
    /\ c.batchSize \in 1 .. Million
    /\ c.active \/ c.lazy

TLSOK(c) == c.tls => c.certFile # "blank" /\ c.keyFile # "blank"

AuthOK(c) == c.auth => c.authToken # NoToken

Policies == {"lru", "lfu", "fifo", "none"}

EvictionOK(c) == c.policy \in Policies /\ c.sampleSize \in 1 .. 100

LoggingOK(c) ==
    /\ c.level \in {"debug", "info", "warn", "warning", "error", "fatal", "panic", "disabled", "off"}
    /\ c.format \in {"json", "console"}

Validate(c) ==
    /\ ServerOK(c) /\ AdminOK(c) /\ StorageOK(c) /\ TTLOK(c)
    /\ EvictionOK(c) /\ LoggingOK(c) /\ TLSOK(c) /\ AuthOK(c)

---------------------------------------------------------------------------
(* What the layers make of it. *)

\* policyFor takes the empty name for the default one.
CoreBuilds(c) == IsSize(c.maxMemory) /\ IsSize(c.maxValue) /\ c.policy \in Policies \cup {""}

LimitsRead(c) ==
    /\ IsSize(c.maxRequest) /\ IsSize(c.maxOutput)
    /\ ParseSize(c.maxRequest) = 0 => IsSize(c.maxValue)

Smaller(a, b) == IF a <= b THEN a ELSE b
Larger(a, b) == IF a >= b THEN a ELSE b

clampToInt(size) == Smaller(size, MaxInt)

RequestBudget(c) ==
    IF ParseSize(c.maxRequest) > 0
    THEN ParseSize(c.maxRequest)
    ELSE (ParseSize(c.maxValue) + Margin) % Word

\* connLimits, and the floor normalize holds it to.
MaxRequestBytes(c) ==
    LET budget == clampToInt(RequestBudget(c))
    IN Larger(IF budget <= 0 THEN DefaultRequest ELSE budget, MinRequest)

\* The engine refuses a value longer than this; the codec, a longer argument.
MaxValueSize(c) == ParseSize(c.maxValue)

MaxBulkLength(c) ==
    LET size == clampToInt(MaxValueSize(c))
    IN (IF size > 0 /\ size < Ceiling THEN size ELSE Ceiling) + BulkMargin

MaxMultiBulkLength(c) == Smaller(MaxElements, MaxRequestBytes(c) \div 7)

---------------------------------------------------------------------------

\* The largest value the engine stores gets past every limit on its way there
\* (validateRequestSize, RequestBudget, codecLimits).
LargestValueFits(c) ==
    /\ MaxRequestBytes(c) >= MaxValueSize(c) + Framing
    /\ MaxBulkLength(c) >= MaxValueSize(c)
    /\ MaxMultiBulkLength(c) >= 3
=============================================================================

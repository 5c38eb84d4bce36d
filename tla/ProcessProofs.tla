---------------------------- MODULE ProcessProofs ----------------------------
(***************************************************************************)
(* The life of the node, whatever configurations a file may hold, wherever *)
(* start-up fails and however the shutdown goes: NothingLeft, ProbesHonest *)
(* and AcceptedIsHonoured of Process; and PairsOnly of Reload, which runs  *)
(* beside it, for any number of renewals, saves and SIGHUPs.               *)
(***************************************************************************)
EXTENDS Process, Reload, SequenceTheorems, TLAPS

---------------------------------------------------------------------------
(* What validation is worth: Config's LargestValueFits. *)

LEMMA SizeType ==
    ASSUME NEW s, s.digits \in Nat, s.unit \in 1 .. 5
    PROVE  ParseSize(s) \in Nat /\ ParseSize(s) < Word
<1>1. Multiplier[s.unit] \in Nat
  <2>1. Kilo \in Nat
    BY FiguresAssumption
  <2>2. Kilo * Kilo \in Nat
    BY <2>1
  <2>3. Kilo * Kilo * Kilo \in Nat
    BY <2>1, <2>2
  <2>4. Kilo * Kilo * Kilo * Kilo \in Nat
    BY <2>1, <2>3
  <2> QED
    BY <2>1, <2>2, <2>3, <2>4 DEF Multiplier
<1>2. s.digits * Multiplier[s.unit] \in Nat
  BY <1>1
<1>3. Word \in Nat \ {0}
  BY FiguresAssumption
<1> QED
  BY <1>2, <1>3 DEF ParseSize

\* A configuration Validate accepts lets the largest value the engine stores
\* through the request budget and through both limits of the codec, whatever
\* the sizes say and although they wrap.
LEMMA ValidFits ==
    ASSUME NEW c \in Candidates, Validate(c)
    PROVE  LargestValueFits(c)
<1> DEFINE v == ParseSize(c.maxValue)
           r == ParseSize(c.maxRequest)
<1>1. IsSize(c.maxValue) /\ IsSize(c.maxRequest) /\ v <= Ceiling
  BY DEF Validate, ServerOK, StorageOK, RequestSizeOK
<1>2. c.maxValue.digits \in Nat /\ c.maxValue.unit \in 1 .. 5
  BY <1>1, CandidatesAssumption DEF IsSize, SizesOf
<1>3. c.maxRequest.digits \in Nat /\ c.maxRequest.unit \in 1 .. 5
  BY <1>1, CandidatesAssumption DEF IsSize, SizesOf
<1>4. v \in Nat /\ r \in Nat
  BY <1>2, <1>3, SizeType
<1>5. r # 0 => r >= (v + Framing) % Word
  BY <1>1 DEF Validate, ServerOK, RequestSizeOK
<1>6. (v + Framing) % Word = v + Framing /\ (v + Margin) % Word = v + Margin
  BY <1>1, <1>4, FiguresAssumption
<1> HIDE DEF v, r
<1>7. MaxRequestBytes(c) \in Nat /\ MaxRequestBytes(c) >= v + Framing
      /\ MaxRequestBytes(c) >= MinRequest
  <2>1. RequestBudget(c) = IF r > 0 THEN r ELSE v + Margin
    BY <1>6 DEF RequestBudget, v, r
  <2>2. RequestBudget(c) \in Nat /\ RequestBudget(c) >= v + Framing
    BY <2>1, <1>4, <1>5, <1>6, FiguresAssumption
  <2>3. clampToInt(RequestBudget(c)) \in Nat /\ clampToInt(RequestBudget(c)) >= v + Framing
    BY <2>2, <1>1, <1>4, FiguresAssumption DEF clampToInt, Smaller, v
  <2>4. clampToInt(RequestBudget(c)) > 0
    BY <2>3, <1>4, FiguresAssumption
  <2> DEFINE b == clampToInt(RequestBudget(c))
  <2>5. MaxRequestBytes(c) = Larger(b, MinRequest)
    BY <2>3, <2>4 DEF MaxRequestBytes
  <2> HIDE DEF b
  <2>6. b \in Nat /\ b >= v + Framing /\ MinRequest \in Nat /\ Framing \in Nat
    BY <2>3, FiguresAssumption DEF b
  <2> QED
    BY <2>5, <2>6, <1>4 DEF Larger
<1>8. MaxBulkLength(c) >= v
  <2>1. clampToInt(v) = v
    BY <1>1, <1>4, FiguresAssumption DEF clampToInt, Smaller, v
  <2> QED
    BY <2>1, <1>1, <1>4, FiguresAssumption DEF MaxBulkLength, MaxValueSize, v
<1>9. MaxMultiBulkLength(c) >= 3
  <2>1. MaxRequestBytes(c) \div 7 >= 3
    BY <1>7, FiguresAssumption
  <2> QED
    BY <2>1, <1>7, FiguresAssumption DEF MaxMultiBulkLength, Smaller
<1> QED
  BY <1>7, <1>8, <1>9 DEF LargestValueFits, MaxValueSize, v

LEMMA ValidStarts ==
    ASSUME NEW c \in Candidates, Validate(c)
    PROVE  /\ CoreBuilds(c) /\ LimitsRead(c)
           /\ c.active \/ c.lazy
           /\ IsLoopback(c.adminAddr) \/ c.adminToken \notin {NoToken, c.authToken}
           /\ c.adminPort # c.clientPort
<1>1. CoreBuilds(c)
  <2>1. IsSize(c.maxMemory) /\ IsSize(c.maxValue)
    BY DEF Validate, StorageOK
  <2>2. c.policy \in Policies
    BY DEF Validate, EvictionOK
  <2> QED
    BY <2>1, <2>2 DEF CoreBuilds
<1>2. LimitsRead(c)
  BY DEF Validate, ServerOK, StorageOK, RequestSizeOK, ConnLimitsOK, LimitsRead
<1>3. c.active \/ c.lazy
  BY DEF Validate, TTLOK
<1>4. IsLoopback(c.adminAddr) \/ c.adminToken \notin {NoToken, c.authToken}
  BY DEF Validate, AdminOK, AdminExposureOK, TokensSeparate
<1>5. c.adminPort # c.clientPort
  BY DEF Validate, AdminOK
<1> QED
  BY <1>1, <1>2, <1>3, <1>4, <1>5

---------------------------------------------------------------------------
(* What is open, and what is deferred, at each point of the main goroutine. *)

Core == {"admin", "cache", "sampler"}
Undo(b) == IF "watcher" \in b THEN <<"watcher", "sampler", "cache">> ELSE <<"sampler", "cache">>
Between(low, high) == low \subseteq open /\ open \subseteq low \cup high

\* From the binding of the client listener to its close, and phase and cfg then.
Up == {"watch", "serve", "ready", "wait", "unready", "drain"}
Chosen == {"secure", "admin", "core", "limits", "client", "expiry"} \cup Up

OpenAt ==
    /\ main \in {"config", "secure", "admin"} => open = {} /\ defers = <<>>
    /\ main = "core" => open = {"admin"} /\ defers = <<>>
    /\ main \in {"limits", "client"} => open = Core /\ defers = Undo({})
    /\ main = "expiry" => open = Core \cup {"client"} /\ defers = Undo({})
    /\ main = "watch" => Between(Core \cup {"client"}, {"expiry"}) /\ defers = Undo({})
    /\ main \in Up \ {"watch"} =>
          Between(Core \cup {"client"}, {"expiry", "watcher"}) /\ defers = Undo(open)
    /\ main \in {"draining", "stopTTL"} =>
          Between(Core, {"expiry", "watcher"}) /\ defers = Undo(open)
    /\ main = "stopAdmin" => Between(Core, {"watcher"}) /\ defers = Undo(open)
    /\ main = "failed" => \/ open = {"admin"} /\ defers = <<>>
                          \/ open = Core /\ defers = Undo({})
    /\ main = "unwind" => \/ open = {} /\ defers = <<>>
                          \/ open = {"cache"} /\ defers = <<"cache">>
                          \/ open = {"sampler", "cache"} /\ defers = Undo({})
                          \/ open = {"watcher", "sampler", "cache"} /\ defers = Undo(open)
    /\ main = "exited" => open = {} /\ defers = <<>>

Places == {"config", "draining", "stopTTL", "stopAdmin", "failed", "unwind", "exited"} \cup Chosen

PhaseAt == phase = "ready" => main \in {"wait", "unready"}

ConfigAt ==
    main \in Chosen =>
      /\ cfg \in Candidates /\ Validate(cfg)
      /\ main \in Up /\ cfg.active => "expiry" \in open

IInv == main \in Places /\ OpenAt /\ PhaseAt /\ ConfigAt

\* The inductive invariant gives the three properties.
LEMMA IInvGives == IInv => NothingLeft /\ ProbesHonest /\ AcceptedIsHonoured
<1> SUFFICES ASSUME IInv PROVE NothingLeft /\ ProbesHonest /\ AcceptedIsHonoured
  OBVIOUS
<1> USE DEF IInv
<1>1. NothingLeft
  BY DEF OpenAt, NothingLeft
<1>2. ProbesHonest
  <2>1. open \cap {"cache", "client", "expiry", "watcher"} # {} /\ main \notin {"unwind", "exited"}
          => "admin" \in open
    BY DEF OpenAt, Between, Core, Places, Chosen, Up
  <2>2. main \in {"draining", "stopTTL"} => "admin" \in open
    BY DEF OpenAt, Between, Core
  <2>3. phase = "ready" => {"client", "cache", "admin", "sampler"} \subseteq open
    BY DEF OpenAt, PhaseAt, Between, Core, Up
  <2>4. open \cap {"client", "expiry", "watcher"} # {} => "cache" \in open
    BY DEF OpenAt, Between, Core, Places, Chosen, Up
  <2> QED
    BY <2>1, <2>2, <2>3, <2>4 DEF ProbesHonest
<1>3. AcceptedIsHonoured
  <2>1. ASSUME main \in Chosen
        PROVE  /\ CoreBuilds(cfg) /\ LimitsRead(cfg) /\ LargestValueFits(cfg)
               /\ cfg.active \/ cfg.lazy
               /\ IsLoopback(cfg.adminAddr) \/ cfg.adminToken \notin {NoToken, cfg.authToken}
               /\ cfg.adminPort # cfg.clientPort
    BY <2>1, ValidFits, ValidStarts DEF ConfigAt
  <2>2. main \in {"secure", "admin", "core", "limits"} => CoreBuilds(cfg) /\ LimitsRead(cfg)
    BY <2>1 DEF Chosen
  <2>3. ASSUME phase = "ready"
        PROVE  /\ LargestValueFits(cfg)
               /\ cfg.lazy \/ "expiry" \in open \/ main \notin {"wait", "unready"}
               /\ IsLoopback(cfg.adminAddr) \/ cfg.adminToken \notin {NoToken, cfg.authToken}
               /\ cfg.adminPort # cfg.clientPort
    BY <2>1, <2>3 DEF PhaseAt, ConfigAt, Chosen, Up
  <2> QED
    BY <2>2, <2>3 DEF AcceptedIsHonoured
<1> QED
  BY <1>1, <1>2, <1>3

LEMMA IInvInit == Init => IInv
BY DEF Init, IInv, Places, OpenAt, PhaseAt, ConfigAt, Chosen, Up

LEMMA OnTop == ASSUME NEW a, NEW b, NEW c PROVE <<a>> \o <<b, c>> = <<a, b, c>>
<1> DEFINE S == {a, b, c}
<1>1. <<a>> \in Seq(S) /\ <<b, c>> \in Seq(S) /\ <<a, b, c>> \in Seq(S)
  OBVIOUS
<1>2. Len(<<a>>) = 1 /\ Len(<<b, c>>) = 2 /\ Len(<<a, b, c>>) = 3
  OBVIOUS
<1>3. <<a>> \o <<b, c>> \in Seq(S) /\ Len(<<a>> \o <<b, c>>) = 3
  BY <1>1, <1>2, ConcatProperties
<1>4. \A i \in 1 .. 3 : (<<a>> \o <<b, c>>)[i] = <<a, b, c>>[i]
  BY <1>1, <1>2, ConcatProperties
<1> QED
  BY <1>1, <1>2, <1>3, <1>4, SeqEqual

LEMMA Stack ==
    /\ <<"watcher">> \o <<"sampler", "cache">> = <<"watcher", "sampler", "cache">>
    /\ Head(<<"watcher", "sampler", "cache">>) = "watcher"
    /\ Tail(<<"watcher", "sampler", "cache">>) = <<"sampler", "cache">>
    /\ Head(<<"sampler", "cache">>) = "sampler" /\ Tail(<<"sampler", "cache">>) = <<"cache">>
    /\ Head(<<"cache">>) = "cache" /\ Tail(<<"cache">>) = <<>>
<1>1. <<"watcher">> \o <<"sampler", "cache">> = <<"watcher", "sampler", "cache">>
  BY OnTop
<1>2. Tail(<<"watcher", "sampler", "cache">>) = <<"sampler", "cache">>
  OBVIOUS
<1>3. Tail(<<"sampler", "cache">>) = <<"cache">>
  OBVIOUS
<1>4. Tail(<<"cache">>) = <<>>
  OBVIOUS
<1>5. /\ Head(<<"watcher", "sampler", "cache">>) = "watcher"
      /\ Head(<<"sampler", "cache">>) = "sampler" /\ Head(<<"cache">>) = "cache"
  OBVIOUS
<1> QED
  BY <1>1, <1>2, <1>3, <1>4, <1>5

USE DEF Goes, At

\* A step of the main goroutine moves IInv's parts for the place it leaves to
\* those for the place it reaches.
LEMMA StartKeeps == ASSUME IInv, Start PROVE IInv'
<1> USE DEF IInv, Places, OpenAt, PhaseAt, ConfigAt, Chosen, Up, Core, Undo, Between
<1>1. CASE LoadConfig
  BY <1>1 DEF LoadConfig
<1>2. CASE Secure
  BY <1>2 DEF Secure
<1>3. CASE BindAdmin
  BY <1>3 DEF BindAdmin
<1>4. CASE BuildCore
  BY <1>4 DEF BuildCore
<1>5. CASE ReadLimits
  BY <1>5 DEF ReadLimits
<1>6. CASE BindClient
  BY <1>6 DEF BindClient
<1>7. CASE StartExpiry
  BY <1>7 DEF StartExpiry
<1>8. CASE WatchConfig
  <2>1. defers' = <<"watcher", "sampler", "cache">>
    BY <1>8, Stack DEF WatchConfig
  <2> QED
    BY <1>8, <2>1 DEF WatchConfig
<1>9. CASE NoWatcher
  BY <1>9 DEF NoWatcher
<1>10. CASE ServeClient
  BY <1>10 DEF ServeClient
<1>11. CASE SetReady
  BY <1>11 DEF SetReady
<1>12. ASSUME NEW from \in {"config", "secure", "admin", "core", "limits", "client"}, Fail(from)
       PROVE  IInv'
  BY <1>12 DEF Fail
<1> QED
  BY <1>1, <1>2, <1>3, <1>4, <1>5, <1>6, <1>7, <1>8, <1>9, <1>10, <1>11, <1>12 DEF Start

LEMMA StopKeeps == ASSUME IInv, Stop PROVE IInv'
<1> USE DEF IInv, Places, OpenAt, PhaseAt, ConfigAt, Chosen, Up, Core, Undo, Between
<1>1. CASE Stopped
  BY <1>1 DEF Stopped
<1>2. CASE ServeEnded
  BY <1>2 DEF ServeEnded
<1>3. CASE Unready
  BY <1>3 DEF Unready
<1>4. CASE CloseClient
  BY <1>4 DEF CloseClient
<1>5. CASE Drained
  BY <1>5 DEF Drained, Ended
<1>6. CASE StopExpiry
  BY <1>6 DEF StopExpiry, Ended
<1>7. CASE StopAdmin
  BY <1>7 DEF StopAdmin, Ended
<1>8. CASE FailedStopAdmin
  BY <1>8 DEF FailedStopAdmin
<1>9. CASE Unwind
  <2>1. CASE defers = <<"cache">> /\ open = {"cache"}
    BY <1>9, <2>1, Stack DEF Unwind
  <2>2. CASE defers = <<"sampler", "cache">> /\ open = {"sampler", "cache"}
    BY <1>9, <2>2, Stack DEF Unwind
  <2>3. CASE defers = <<"watcher", "sampler", "cache">> /\ open = {"watcher", "sampler", "cache"}
    BY <1>9, <2>3, Stack DEF Unwind
  <2> QED
    BY <1>9, <2>1, <2>2, <2>3 DEF Unwind
<1>10. CASE Exit
  BY <1>10 DEF Exit
<1> QED
  BY <1>1, <1>2, <1>3, <1>4, <1>5, <1>6, <1>7, <1>8, <1>9, <1>10 DEF Stop

LEMMA OthersKeep ==
    ASSUME IInv, Signal \/ (\E s \in serving : ServeReturns(s)) \/ UNCHANGED vars
    PROVE  IInv'
<1> USE DEF IInv, Places, OpenAt, PhaseAt, ConfigAt, Chosen, Up, Core, Undo, Between
<1>1. CASE Signal
  BY <1>1 DEF Signal
<1>2. CASE \E s \in serving : ServeReturns(s)
  BY <1>2 DEF ServeReturns
<1>3. CASE UNCHANGED vars
  BY <1>3 DEF vars
<1> QED
  BY <1>1, <1>2, <1>3

---------------------------------------------------------------------------

LEMMA IInvHolds == Spec => []IInv
<1>1. Init => IInv
  BY IInvInit
<1>2. IInv /\ [Next]_vars => IInv'
  BY StartKeeps, StopKeeps, OthersKeep DEF Next, Main
<1> QED
  BY <1>1, <1>2, PTL DEF Spec

\* Wherever start-up fails, whichever listener ends first and whatever step of
\* the shutdown runs into its deadline, everything the process bound or started
\* has been told to stop when run returns (run, core.stop, core.close).
THEOREM NothingIsLeft == Spec => []NothingLeft
BY IInvHolds, IInvGives, PTL

\* The admin listener is up around everything it reports on, and the readiness
\* probe says yes only over an engine and a client listener (SetReady, shutdown).
THEOREM ProbesAreHonest == Spec => []ProbesHonest
BY IInvHolds, IInvGives, PTL

\* For every configuration file and all the figures of the code: one that
\* Validate accepts never fails a later step, lets the largest value through
\* every limit, keeps something reclaiming and the admin API guarded (Validate,
\* RequestBudget, connLimits, codecLimits).
THEOREM AcceptedIsHonouredAlways == Spec => []AcceptedIsHonoured
BY IInvHolds, IInvGives, PTL

---------------------------------------------------------------------------
(* The reloads of the certificate and the key: the pair handshakes get is one   *)
(* pair, although each of the three reloads reads the two files at different    *)
(* moments and the others run beside it.                                        *)

\* What a reload carries from the read of the key to the swap is a pair.
ReadingType ==
    reading \in [Reloaders -> [at : {"none", "cert", "swap"},
                               cert : Nat \cup {Broken}, key : Nat \cup {Broken}]]

FileType == file \in [Files -> [of : Nat, half : BOOLEAN]]

Matched == \A r \in Reloaders :
    reading[r].at = "swap" => reading[r].cert = reading[r].key /\ reading[r].cert # Broken

ReloadInv == ReadingType /\ FileType /\ Matched /\ PairsOnly

LEMMA ContentType == ASSUME FileType, NEW f \in Files PROVE Content(f) \in Nat \cup {Broken}
BY DEF FileType, Content

LEMMA ReloadInvInit == ASSUME ReloadInit PROVE ReloadInv
<1>1. First \in Nat /\ First # Broken
  BY BrokenAssumption DEF First
<1>2. ReadingType /\ Matched
  BY <1>1 DEF ReloadInit, ReadingType, Matched, NoReload
<1>3. FileType
  BY <1>1 DEF ReloadInit, FileType
<1>4. PairsOnly
  BY <1>1 DEF ReloadInit, PairsOnly
<1> QED
  BY <1>2, <1>3, <1>4 DEF ReloadInv

\* The first read of a reload, of whatever the certificate file holds then.
LEMMA ReadCertKeeps ==
    ASSUME ReloadInv, NEW r \in Reloaders, ReadCert(r), UNCHANGED <<file, served>>
    PROVE  ReloadInv'
<1>1. Content("cert") \in Nat \cup {Broken}
  BY ContentType DEF ReloadInv, Files
<1>2. First \in Nat
  BY DEF First
<1>3. ReadingType'
  BY <1>1, <1>2 DEF ReloadInv, ReadingType, ReadCert
<1>4. Matched'
  BY <1>1 DEF ReloadInv, ReadingType, Matched, ReadCert
<1> QED
  BY <1>3, <1>4 DEF ReloadInv, FileType, PairsOnly

\* The second read only goes on to the swap with the key of the certificate.
LEMMA ReadKeyKeeps == ASSUME ReloadInv, NEW r \in Reloaders, ReadKey(r) PROVE ReloadInv'
<1> DEFINE key == Content("key")
<1>1. key \in Nat \cup {Broken}
  BY ContentType DEF ReloadInv, Files
<1>2. First \in Nat
  BY DEF First
<1> HIDE DEF key
<1>3. CASE Usable(reading[r].cert, key)
  <2>1. reading' = [reading EXCEPT ![r] = [@ EXCEPT !.at = "swap", !.key = key]]
    BY <1>3 DEF ReadKey, key
  <2>2. ReadingType'
    BY <2>1, <1>1 DEF ReloadInv, ReadingType
  <2>3. Matched'
    BY <2>1, <1>1, <1>3 DEF ReloadInv, ReadingType, Matched, Usable
  <2> QED
    BY <2>2, <2>3 DEF ReadKey, ReloadInv, FileType, PairsOnly
<1>4. CASE ~Usable(reading[r].cert, key)
  <2>1. reading' = [reading EXCEPT ![r] = NoReload]
    BY <1>4 DEF ReadKey, key, Finish
  <2>2. ReadingType' /\ Matched'
    BY <2>1, <1>2 DEF ReloadInv, ReadingType, Matched, NoReload
  <2> QED
    BY <2>2 DEF ReadKey, ReloadInv, FileType, PairsOnly
<1> QED
  BY <1>3, <1>4

LEMMA SwapKeeps == ASSUME ReloadInv, NEW r \in Reloaders, Swap(r) PROVE ReloadInv'
<1>1. PairsOnly'
  BY DEF ReloadInv, Swap, Matched, PairsOnly
<1>2. ReadingType' /\ Matched'
  BY DEF ReloadInv, Swap, Finish, ReadingType, Matched, NoReload, First
<1> QED
  BY <1>1, <1>2 DEF ReloadInv, Swap, FileType

LEMMA RenewKeeps == ASSUME ReloadInv, NEW f \in Files, Renew(f) PROVE ReloadInv'
<1>1. PICK half \in BOOLEAN :
        file' = [file EXCEPT ![f] =
            IF @.half THEN [@ EXCEPT !.half = FALSE] ELSE [of |-> @.of + 1, half |-> half]]
  BY DEF Renew
<1>2. file[f] \in [of : Nat, half : BOOLEAN]
  BY DEF ReloadInv, FileType
<1>3. file'[f] \in [of : Nat, half : BOOLEAN]
  <2>1. CASE file[f].half
    BY <1>1, <1>2, <2>1 DEF ReloadInv, FileType
  <2>2. CASE ~file[f].half
    BY <1>1, <1>2, <2>2 DEF ReloadInv, FileType
  <2> QED
    BY <2>1, <2>2
<1>4. FileType'
  BY <1>1, <1>3 DEF ReloadInv, FileType
<1> QED
  BY <1>4 DEF ReloadInv, Renew, ReadingType, Matched, PairsOnly

\* The rest touches neither the files, nor a reload, nor what is served.
LEMMA ReloadOthers == ASSUME ReloadInv, UNCHANGED <<file, reading, served>> PROVE ReloadInv'
BY DEF ReloadInv, FileType, ReadingType, Matched, PairsOnly

LEMMA ReloadSteps == ASSUME ReloadInv, [ReloadNext]_reloadVars PROVE ReloadInv'
<1>1. CASE UNCHANGED reloadVars
  BY <1>1, ReloadOthers DEF reloadVars, pair
<1>2. CASE Truncate \/ Save \/ Hup
  BY <1>2, ReloadOthers DEF Truncate, Save, Hup, pair
<1>3. ASSUME NEW f \in Files, Renew(f) PROVE ReloadInv'
  BY <1>3, RenewKeeps
<1>4. CASE ConfigChanged \/ HupReceived \/ FilesDone
  BY <1>4, ReloadOthers DEF ConfigChanged, HupReceived, FilesDone, ReadConfig, pair
<1>5. CASE NextFile
  BY <1>5, ReadCertKeeps DEF NextFile, Reloaders
<1>6. ASSUME NEW g \in Loops, Build(g) \/ Leave(g) PROVE ReloadInv'
  BY <1>6, ReloadOthers DEF Build, Leave, pair
<1>7. ASSUME NEW f \in Files, FileChanged(f) PROVE ReloadInv'
  BY <1>7, ReloadOthers DEF FileChanged
<1>8. CASE StartWatching \/ StopWatching
  BY <1>8, ReloadOthers DEF StartWatching, StopWatching, pair
<1>9. ASSUME NEW f \in Files, TimerFires(f) PROVE ReloadInv'
  BY <1>9, ReadCertKeeps DEF TimerFires, Reloaders
<1>10. ASSUME NEW r \in Reloaders, Reload(r) PROVE ReloadInv'
  BY <1>10, ReadKeyKeeps, SwapKeeps DEF Reload
<1>11. ASSUME NEW n \in Calls, Apply(n) PROVE ReloadInv'
  BY <1>11, ReloadOthers DEF Apply, pair
<1> QED
  BY <1>1, <1>2, <1>3, <1>4, <1>5, <1>6, <1>7, <1>8, <1>9, <1>10, <1>11 DEF ReloadNext, Operator, Watch

\* Whatever is renewed when, by whichever of the two timers and SIGHUP a reload
\* runs and however the three interleave, the certificate handshakes get is
\* that of the key they get (CertificateKeeper.Reload, read, pair).
THEOREM PairsAlways == ReloadSpec => []PairsOnly
<1>1. ReloadInv => PairsOnly
  BY DEF ReloadInv
<1>2. ReloadInit => ReloadInv
  BY ReloadInvInit
<1>3. ReloadInv /\ [ReloadNext]_reloadVars => ReloadInv'
  BY ReloadSteps
<1> QED
  BY <1>1, <1>2, <1>3, PTL DEF ReloadSpec
=============================================================================

------------------------------- MODULE Process -------------------------------
(***************************************************************************)
(* cmd/atlascache: the main goroutine from loading its configuration to    *)
(* its exit, the two listeners it starts, the phase the readiness probe    *)
(* answers with, and what it has to take down again.                       *)
(*                                                                         *)
(* What is bound, started or watched is in open until it is told to stop;  *)
(* defers is the stack of deferred calls.  What happens inside the drain,  *)
(* the TTL manager and the watcher is theirs (Transport, Expiration,       *)
(* Reload): here each ends, or the deadline of the shutdown passes.        *)
(***************************************************************************)
EXTENDS Config, Sequences

CONSTANTS Candidates,   \* what configuration files may say
          Unloaded

SizesOf(c) == {c.maxMemory, c.maxValue, c.maxRequest, c.maxOutput}

ASSUME CandidatesAssumption ==
    \A c \in Candidates : \A s \in SizesOf(c) :
        s # Malformed => s.digits \in Nat /\ s.unit \in 1 .. 5

VARIABLES cfg,         \* the configuration loaded
          main,        \* where the main goroutine is
          open, defers,
          phase,       \* what /health/ready reports
          signalled,   \* the context of SIGTERM and SIGINT is done
          serving,     \* the goroutines of Serve that run
          serveErr,    \* the channel of two their results go to
          exitCode

vars == <<cfg, main, open, defers, phase, signalled, serving, serveErr, exitCode>>

Init ==
    /\ cfg = Unloaded /\ main = "config" /\ open = {} /\ defers = <<>>
    /\ phase = "starting" /\ signalled = FALSE
    /\ serving = {} /\ serveErr = <<>> /\ exitCode = 0

Goes(from, to) == main = from /\ main' = to
At(from, to) == Goes(from, to) /\ UNCHANGED cfg

---------------------------------------------------------------------------
(* run, in order. *)

\* What may go wrong outside the process may go wrong; what the configuration
\* decides does so only with a configuration that makes it.
CanFail(from) ==
    CASE from = "secure" -> cfg.tls
      [] from = "core" -> ~CoreBuilds(cfg)
      [] from = "limits" -> ~LimitsRead(cfg)
      [] OTHER -> from \in {"config", "admin", "client"}

Fail_StraightOut(from) ==
    /\ At(from, "unwind") /\ CanFail(from)
    /\ exitCode' = 1
    /\ UNCHANGED <<open, defers, phase, signalled, serving, serveErr>>

\* Below the binding of the admin listener a failure has to take it down.
Fail(from) ==
    /\ At(from, IF "admin" \in open THEN "failed" ELSE "unwind")
    /\ CanFail(from)
    /\ exitCode' = 1
    /\ UNCHANGED <<open, defers, phase, signalled, serving, serveErr>>

LoadConfig ==
    /\ Goes("config", "secure")
    /\ \E c \in Candidates : Validate(c) /\ cfg' = c
    /\ UNCHANGED <<open, defers, phase, signalled, serving, serveErr, exitCode>>

\* newSecurity: a pair that cannot be used stops the process (Fail).
Secure ==
    /\ At("secure", "admin")
    /\ UNCHANGED <<open, defers, phase, signalled, serving, serveErr, exitCode>>

BindAdmin ==
    /\ At("admin", "core")
    /\ open' = open \cup {"admin"} /\ serving' = serving \cup {"admin"}
    /\ UNCHANGED <<defers, phase, signalled, serveErr, exitCode>>

BuildCore ==
    /\ At("core", "limits")
    /\ open' = open \cup {"cache", "sampler"}
    /\ defers' = <<"sampler", "cache">>
    /\ UNCHANGED <<phase, signalled, serving, serveErr, exitCode>>

ReadLimits ==
    /\ At("limits", "client")
    /\ UNCHANGED <<open, defers, phase, signalled, serving, serveErr, exitCode>>

BindClient ==
    /\ At("client", "expiry")
    /\ open' = open \cup {"client"}
    /\ UNCHANGED <<defers, phase, signalled, serving, serveErr, exitCode>>

StartExpiry ==
    /\ At("expiry", "watch")
    /\ open' = IF cfg.active THEN open \cup {"expiry"} ELSE open
    /\ UNCHANGED <<defers, phase, signalled, serving, serveErr, exitCode>>

\* A watcher that does not start is not fatal.
WatchConfig ==
    /\ At("watch", "serve")
    /\ open' = open \cup {"watcher"}
    /\ defers' = <<"watcher">> \o defers
    /\ UNCHANGED <<phase, signalled, serving, serveErr, exitCode>>

NoWatcher ==
    /\ At("watch", "serve")
    /\ UNCHANGED <<open, defers, phase, signalled, serving, serveErr, exitCode>>

ServeClient ==
    /\ At("serve", "ready")
    /\ serving' = serving \cup {"client"}
    /\ UNCHANGED <<open, defers, phase, signalled, serveErr, exitCode>>

SetReady ==
    /\ At("ready", "wait")
    /\ phase' = "ready"
    /\ UNCHANGED <<open, defers, signalled, serving, serveErr, exitCode>>

---------------------------------------------------------------------------
(* The select, and the shutdown in its order. *)

Stopped ==
    /\ At("wait", "unready")
    /\ signalled
    /\ UNCHANGED <<open, defers, phase, signalled, serving, serveErr, exitCode>>

ServeEnded ==
    /\ At("wait", "unready")
    /\ serveErr # <<>>
    /\ exitCode' = IF Head(serveErr) = "failed" THEN 1 ELSE exitCode
    /\ serveErr' = Tail(serveErr)
    /\ UNCHANGED <<open, defers, phase, signalled, serving>>

\* stop() cancels the context the listeners were built with.
Unready ==
    /\ At("unready", "drain")
    /\ signalled' = TRUE
    /\ phase' = IF phase = "ready" THEN "stopping" ELSE phase
    /\ UNCHANGED <<open, defers, serving, serveErr, exitCode>>

CloseClient ==
    /\ At("drain", "draining")
    /\ open' = open \ {"client"}
    /\ UNCHANGED <<defers, phase, signalled, serving, serveErr, exitCode>>

\* A step of the shutdown ends, or its deadline passes: the steps after it run all the same.
Ended(from, to, closes) ==
    /\ At(from, to)
    /\ open' = open \ closes
    /\ exitCode' \in {exitCode, 1}
    /\ UNCHANGED <<defers, phase, signalled, serving, serveErr>>

Drained_AdminFirst == Ended("draining", "stopTTL", {"admin"})
Drained == Ended("draining", "stopTTL", {})
StopExpiry == Ended("stopTTL", "stopAdmin", {"expiry"})
StopAdmin == Ended("stopAdmin", "unwind", {"admin"})

FailedStopAdmin ==
    /\ At("failed", "unwind")
    /\ open' = open \ {"admin"}
    /\ UNCHANGED <<defers, phase, signalled, serving, serveErr, exitCode>>

Unwind ==
    /\ main = "unwind" /\ defers # <<>>
    /\ open' = open \ {Head(defers)} /\ defers' = Tail(defers)
    /\ UNCHANGED <<cfg, main, phase, signalled, serving, serveErr, exitCode>>

Exit ==
    /\ At("unwind", "exited") /\ defers = <<>>
    /\ UNCHANGED <<open, defers, phase, signalled, serving, serveErr, exitCode>>

---------------------------------------------------------------------------

Signal ==
    /\ main \notin {"config", "exited"} /\ ~signalled
    /\ signalled' = TRUE
    /\ UNCHANGED <<cfg, main, open, defers, phase, serving, serveErr, exitCode>>

\* Serve returns nil once its listener is closed or, the client's, once the
\* context is done, and an error when its listener fails.
ServeReturns(s) ==
    /\ s \in serving
    /\ serving' = serving \ {s}
    /\ serveErr' = Append(serveErr,
          IF s \notin open \/ (s = "client" /\ signalled) THEN "nil" ELSE "failed")
    /\ UNCHANGED <<cfg, main, open, defers, phase, signalled, exitCode>>

Start ==
    \/ LoadConfig \/ Secure \/ BindAdmin \/ BuildCore \/ ReadLimits \/ BindClient
    \/ StartExpiry \/ WatchConfig \/ NoWatcher \/ ServeClient \/ SetReady
    \/ \E from \in {"config", "secure", "admin", "core", "limits", "client"} : Fail(from)

Stop ==
    \/ Stopped \/ ServeEnded \/ Unready \/ CloseClient \/ Drained \/ StopExpiry
    \/ StopAdmin \/ FailedStopAdmin \/ Unwind \/ Exit

Main == Start \/ Stop \/ \E s \in serving : ServeReturns(s)

Next == Main \/ Signal

Spec == Init /\ [][Next]_vars

---------------------------------------------------------------------------

TypeOK ==
    /\ cfg \in Candidates \cup {Unloaded}
    /\ open \subseteq {"admin", "cache", "sampler", "client", "expiry", "watcher"}
    /\ defers \in Seq({"watcher", "sampler", "cache"})
    /\ phase \in {"starting", "ready", "stopping"}
    /\ signalled \in BOOLEAN /\ exitCode \in {0, 1}
    /\ serving \subseteq {"admin", "client"} /\ serveErr \in Seq({"nil", "failed"})

\* Wherever start-up fails and however the shutdown goes, everything the process
\* bound or started has been told to stop when run returns.
NothingLeft == main = "exited" => open = {}

\* The layers are nested: the admin listener answers from before there is an
\* engine until the client listener has drained and expiry has stopped, the
\* readiness probe says yes only while a client listener is open over an
\* engine, and nothing that uses the engine is told to stop after it.
ProbesHonest ==
    /\ open \cap {"cache", "client", "expiry", "watcher"} # {} /\ main \notin {"unwind", "exited"}
          => "admin" \in open
    /\ main \in {"draining", "stopTTL"} => "admin" \in open
    /\ phase = "ready" => {"client", "cache", "admin", "sampler"} \subseteq open
    /\ open \cap {"client", "expiry", "watcher"} # {} => "cache" \in open

\* A configuration that passes validation is honoured: it never fails a later
\* step of start-up, and in a node that is ready the largest value the engine
\* stores can be written, something reclaims expired keys, and an admin API
\* other hosts reach asks for a token no data client holds (Validate).
AcceptedIsHonoured ==
    /\ main \in {"secure", "admin", "core", "limits"} => CoreBuilds(cfg) /\ LimitsRead(cfg)
    /\ phase = "ready" =>
          /\ LargestValueFits(cfg)
          /\ cfg.lazy \/ "expiry" \in open \/ main \notin {"wait", "unready"}
          /\ IsLoopback(cfg.adminAddr) \/ cfg.adminToken \notin {NoToken, cfg.authToken}
          /\ cfg.adminPort # cfg.clientPort
=============================================================================

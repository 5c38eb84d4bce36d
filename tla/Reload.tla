------------------------------- MODULE Reload -------------------------------
(***************************************************************************)
(* Hot reload: the Watcher of internal/config (two goroutines, one for the *)
(* file system and one for SIGHUP, which share one Loader), the callback   *)
(* the composition root registers with it, and the CertificateKeeper of    *)
(* internal/server.                                                        *)
(*                                                                         *)
(* A configuration is its version: Defaults is what an empty file loads    *)
(* as, First what the process started with, and Validate refuses the       *)
(* versions in Rejected.  Broken is a file that does not parse.            *)
(*                                                                         *)
(* One assumption about time: a reload of the pair, some milliseconds of   *)
(* reading, is over before the settle delay (100 ms) of a timer armed      *)
(* while it ran.                                                           *)
(***************************************************************************)
EXTENDS Naturals, Sequences

CONSTANTS MaxDeeds,      \* bound: saves of the configuration and SIGHUPs, together
          MaxRotations,  \* bound: times the certificate and key are renewed
          Rejected,      \* versions Validate refuses
          Broken         \* content that does not parse

ASSUME ReloadBounds == MaxDeeds \in Nat /\ MaxRotations \in Nat
ASSUME BrokenAssumption == Broken \notin Nat

Defaults == 0
First == 1
Last == First + MaxDeeds
Newest == First + MaxRotations
Files == {"cert", "key"}
Loops == {"watch", "hup"}
Reloaders == Files \cup {"hup"}
Parts == <<"applied", "reported">>
Calls == 1 .. 2 * MaxDeeds

VARIABLES stage,     \* the watcher: before Start, running, stopped
          disk,      \* what the configuration file holds
          edits,     \* the last version written to it
          viper,     \* what the shared Loader read last
          calls,     \* callbacks running: the version, the next part to apply
          live,      \* the version each part of the node runs
          loop,      \* where each goroutine of the Watcher is
          changed,   \* file system events not read yet
          hups,      \* SIGHUPs sent
          sigCh,     \* whether one waits in the channel of one
          file,      \* what the certificate and the key file hold
          watched,   \* the files a watch was placed for
          armed,     \* the files whose settle timer runs
          before,    \* the reloads that were running when it was armed
          rest,      \* watches reloadFiles has not called yet
          reading,   \* reloads of the pair in progress
          served     \* the pair handshakes get

settings == <<disk, edits, viper, calls, live>>
pair == <<file, armed, before, reading, served>>
loops == <<loop, changed, sigCh, watched, rest>>
reloadVars == <<stage, settings, pair, loops, hups>>

Idle == [next |-> 0, cfg |-> First]
NoReload == [at |-> "none", cert |-> First, key |-> First]

\* The process has loaded its configuration and its pair and is still starting.
ReloadInit ==
    /\ stage = "starting"
    /\ disk = First /\ edits = First /\ viper = First
    /\ calls = [n \in Calls |-> Idle]
    /\ live = [p \in {Parts[i] : i \in 1 .. 2} |-> First]
    /\ loop = [g \in Loops |-> "off"]
    /\ changed = {} /\ hups = 0 /\ sigCh = FALSE
    /\ file = [f \in Files |-> [of |-> First, half |-> FALSE]]
    /\ watched = {} /\ armed = {} /\ before = [f \in Files |-> {}] /\ rest = {}
    /\ reading = [r \in Reloaders |-> NoReload]
    /\ served = [cert |-> First, key |-> First]

---------------------------------------------------------------------------
(* The operator saves the configuration, renews the pair, sends SIGHUP. *)

Deeds == (edits - First) + hups

Event(f) ==
    LET seen == IF f = "config" THEN loop["watch"] # "off" ELSE f \in watched
    IN changed' = IF seen THEN changed \cup {f} ELSE changed

\* A save in place truncates the file before it writes it.
Truncate ==
    /\ Deeds < MaxDeeds /\ disk = edits
    /\ disk' \in {Defaults, Broken}
    /\ Event("config")
    /\ UNCHANGED <<stage, edits, viper, calls, live, pair, loop, sigCh, watched, rest, hups>>

Save ==
    /\ Deeds < MaxDeeds
    /\ edits' = edits + 1 /\ disk' = edits + 1
    /\ Event("config")
    /\ UNCHANGED <<stage, viper, calls, live, pair, loop, sigCh, watched, rest, hups>>

\* Each file is renewed by a rename or in place, in two writes, and in either order.
Renew(f) ==
    /\ file[f].of < Newest \/ file[f].half
    /\ \A g \in Files : file[f].of <= file[g].of \/ file[f].half
    /\ \E half \in BOOLEAN :
          file' = [file EXCEPT ![f] =
              IF @.half THEN [@ EXCEPT !.half = FALSE] ELSE [of |-> @.of + 1, half |-> half]]
    /\ Event(f)
    /\ UNCHANGED <<stage, settings, armed, before, reading, served, loop, sigCh, watched, rest, hups>>

Hup ==
    /\ Deeds < MaxDeeds /\ loop["hup"] # "off"
    /\ hups' = hups + 1 /\ sigCh' = TRUE
    /\ UNCHANGED <<stage, settings, pair, loop, changed, watched, rest>>

---------------------------------------------------------------------------
(* The Watcher. *)

\* watchConfig: WatchFile for each file of the pair, and Start.
StartWatching ==
    /\ stage = "starting" /\ stage' = "watching"
    /\ loop' = [g \in Loops |-> "idle"]
    /\ watched' \in SUBSET Files
    /\ UNCHANGED <<settings, pair, changed, sigCh, rest, hups>>

\* reload reads the file into the Loader both goroutines share.
ReadConfig(g, next) ==
    /\ IF disk = Broken
       THEN UNCHANGED viper /\ loop' = [loop EXCEPT ![g] = next]
       ELSE viper' = disk /\ loop' = [loop EXCEPT ![g] = "build"]
    /\ UNCHANGED <<stage, disk, edits, calls, live, pair, hups, watched>>

ConfigChanged ==
    /\ loop["watch"] = "idle" /\ "config" \in changed
    /\ changed' = changed \ {"config"}
    /\ ReadConfig("watch", "idle")
    /\ UNCHANGED <<stage, sigCh, rest>>

\* reloadFiles runs whatever became of the configuration.
HupReceived ==
    /\ loop["hup"] = "idle" /\ sigCh
    /\ sigCh' = FALSE /\ rest' = watched
    /\ ReadConfig("hup", "files")
    /\ UNCHANGED changed

\* reload validates what it read and starts the callback on a goroutine of its own.
Spawn ==
    \E n \in Calls :
       /\ calls[n] = Idle /\ \A k \in Calls : k < n => calls[k] # Idle
       /\ calls' = [calls EXCEPT ![n] = [next |-> 1, cfg |-> viper]]

Build(g) ==
    /\ loop[g] = "build"
    /\ IF viper \in Rejected THEN UNCHANGED calls ELSE Spawn
    /\ loop' = [loop EXCEPT ![g] = IF g = "hup" THEN "files" ELSE "idle"]
    /\ UNCHANGED <<stage, disk, edits, viper, live, pair, changed, sigCh, watched, rest, hups>>

\* The callback: the eviction policy, the memory ceiling and the credentials,
\* each read on its own, in one step, and last what /config reports.
Apply(n) ==
    /\ calls[n] # Idle
    /\ live' = [live EXCEPT ![Parts[calls[n].next]] = calls[n].cfg]
    /\ calls' = [calls EXCEPT ![n] =
          IF @.next = Len(Parts) THEN Idle ELSE [@ EXCEPT !.next = @ + 1]]
    /\ UNCHANGED <<stage, disk, edits, viper, pair, loops, hups>>

\* schedule arms the timer of the file, or pushes it out.
Running == {r \in Reloaders : reading[r] # NoReload}

Schedule_UnlessReading(f) ==
    /\ armed' = IF reading[f] = NoReload THEN armed \cup {f} ELSE armed
    /\ before' = [before EXCEPT ![f] = Running]

Schedule(f) ==
    /\ armed' = armed \cup {f}
    /\ before' = [before EXCEPT ![f] = Running]

FileChanged(f) ==
    /\ loop["watch"] = "idle" /\ f \in changed
    /\ changed' = changed \ {f}
    /\ Schedule(f)
    /\ UNCHANGED <<stage, settings, file, reading, served, loop, sigCh, watched, rest, hups>>

---------------------------------------------------------------------------
(* CertificateKeeper.Reload, by the timer of a file or by SIGHUP. *)

Content(f) == IF file[f].half THEN Broken ELSE file[f].of

ReadCert(r) ==
    reading' = [reading EXCEPT ![r] = [at |-> "cert", cert |-> Content("cert"), key |-> First]]

TimerFires(f) ==
    /\ f \in armed
    /\ before[f] = {}
    /\ armed' = armed \ {f}
    /\ ReadCert(f)
    /\ UNCHANGED <<stage, settings, file, before, served, loops, hups>>

NextFile ==
    /\ loop["hup"] = "files" /\ reading["hup"] = NoReload
    /\ \E f \in rest : rest' = rest \ {f}
    /\ ReadCert("hup")
    /\ UNCHANGED <<stage, settings, file, armed, before, served, loop, changed, sigCh, watched, hups>>

FilesDone ==
    /\ loop["hup"] = "files" /\ reading["hup"] = NoReload /\ rest = {}
    /\ loop' = [loop EXCEPT !["hup"] = "idle"]
    /\ UNCHANGED <<stage, settings, pair, changed, sigCh, watched, rest, hups>>

Usable_Unpaired(c, k) == c # Broken /\ k # Broken
Usable(c, k) == c = k /\ c # Broken

Finish(r) ==
    /\ reading' = [reading EXCEPT ![r] = NoReload]
    /\ before' = [f \in Files |-> before[f] \ {r}]

ReadKey(r) ==
    LET key == Content("key") IN
    /\ reading[r].at = "cert"
    /\ IF Usable(reading[r].cert, key)
       THEN /\ reading' = [reading EXCEPT ![r] = [@ EXCEPT !.at = "swap", !.key = key]]
            /\ UNCHANGED before
       ELSE Finish(r)
    /\ UNCHANGED <<stage, settings, file, armed, served, loops, hups>>

Swap(r) ==
    /\ reading[r].at = "swap"
    /\ served' = [cert |-> reading[r].cert, key |-> reading[r].key]
    /\ Finish(r)
    /\ UNCHANGED <<stage, settings, file, armed, loops, hups>>

---------------------------------------------------------------------------

\* Stop closes done, stops the timers that are armed, and closes the events.
StopWatching ==
    /\ stage = "watching" /\ stage' = "stopped"
    /\ armed' = {}
    /\ UNCHANGED <<settings, file, before, reading, served, loops, hups>>

Leave(g) ==
    /\ stage = "stopped" /\ loop[g] = "idle"
    /\ loop' = [loop EXCEPT ![g] = "off"]
    /\ UNCHANGED <<stage, settings, pair, changed, sigCh, watched, rest, hups>>

---------------------------------------------------------------------------

Operator == Truncate \/ Save \/ Hup \/ \E f \in Files : Renew(f)

Watch == ConfigChanged \/ HupReceived \/ NextFile \/ FilesDone
         \/ (\E g \in Loops : Build(g)) \/ \E f \in Files : FileChanged(f)

Reload(r) == ReadKey(r) \/ Swap(r)

ReloadNext ==
    \/ Operator \/ Watch
    \/ StartWatching \/ StopWatching \/ \E g \in Loops : Leave(g)
    \/ \E f \in Files : TimerFires(f)
    \/ \E r \in Reloaders : Reload(r)
    \/ \E n \in Calls : Apply(n)

ReloadSpec == ReloadInit /\ [][ReloadNext]_reloadVars

\* The goroutines of the Watcher run, armed timers go off and reloads end;
\* nothing is assumed of the operator or of main.
ReloadFairSpec ==
    /\ ReloadSpec
    /\ WF_reloadVars(Watch)
    /\ \A f \in Files : WF_reloadVars(TimerFires(f))
    /\ \A r \in Reloaders : WF_reloadVars(Reload(r))

---------------------------------------------------------------------------

ReloadTypeOK ==
    /\ stage \in {"starting", "watching", "stopped"}
    /\ disk \in Defaults .. Last \cup {Broken} /\ edits \in First .. Last /\ viper \in Defaults .. Last
    /\ calls \in [Calls -> [next : 0 .. 2, cfg : Defaults .. Last]]
    /\ live \in [{Parts[i] : i \in 1 .. 2} -> Defaults .. Last]
    /\ loop \in [Loops -> {"off", "idle", "build", "files"}]
    /\ changed \subseteq Files \cup {"config"} /\ hups \in 0 .. MaxDeeds /\ sigCh \in BOOLEAN
    /\ file \in [Files -> [of : First .. Newest, half : BOOLEAN]]
    /\ watched \subseteq Files /\ armed \subseteq Files /\ rest \subseteq Files
    /\ before \in [Files -> SUBSET Reloaders]
    /\ served \in [cert : First .. Newest, key : First .. Newest]

\* The certificate handshakes get always belongs to the key they get: a pair
\* caught half written, or one file of the old pair with one of the new, is
\* never swapped in (CertificateKeeper.read and Reload).
PairsOnly == served.cert = served.key /\ served.cert # Broken

\* The reported configuration is the one the node runs whenever no callback
\* is running: "/config never reports a configuration that has not been
\* applied yet" (watchConfig).
ReportedIsApplied ==
    (\A n \in Calls : calls[n] = Idle) => live["applied"] = live["reported"]

\* A renewal whose last write the watcher was told of is served in the end and
\* from then on, whatever reloads of the old files were under way, unless the
\* files change again or the watcher stops (watchCertificates, schedule).
Settled == \A f \in Files : ~file[f].half /\ file[f].of = file["cert"].of
Watching == stage = "watching" /\ watched = Files
Noticed == (changed \cap Files) \cup armed # {}
RotationServed ==
    [](Noticed /\ Settled /\ Watching =>
          <>[](served.cert = file["cert"].of) \/ <>~(Settled /\ Watching))
=============================================================================

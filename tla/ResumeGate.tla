------------------------------ MODULE ResumeGate ------------------------------
(***************************************************************************)
(* fprintd across a sleep (integration/): the system-sleep hook marks the  *)
(* sensor as not ready and stops fprintd before the sleep, and             *)
(* re-enumerates the sensor and removes the mark after it; fprintd's start *)
(* waits in the gate while the mark is there, TIMEOUT at most. Between any *)
(* two commands of the hook the desktop may activate fprintd and claim the *)
(* sensor; the hook's commands may fail, and the hook may be killed at any *)
(* of them.                                                                *)
(***************************************************************************)
EXTENDS Naturals

CONSTANT Ticks    \* TIMEOUT * 10: 150 rounds of the gate

ASSUME TicksAssumption == Ticks \in Nat \ {0}

VARIABLES
  hook,      \* the hook's next command; "falling" and "asleep" between its
             \* two calls, "out" when no sleep is under way
  marker,    \* MARKER exists
  bus,       \* the sensor is "ready", "off" (authorized is 0) or "absent"
  unit,      \* fprintd.service: "inactive", "gate", "starting" or "running"
  waited,    \* the gate's
  claim,     \* on the sensor: "none", "fresh" or "stale", which is one from
             \* before a sleep or of a device that has left the bus since
  slips      \* for the properties: what went wrong since the hook last stopped
             \* fprintd

gateVars == <<hook, marker, bus, unit, waited, claim, slips>>

Slips == {"gave up", "cut", "no marker"}

GateInit ==
  /\ hook = "out" /\ marker = FALSE /\ bus = "ready"
  /\ unit = "inactive" /\ waited = 0 /\ claim = "none" /\ slips = {}

-----------------------------------------------------------------------------
(* fprintd and its gate: frozen while the system is asleep                  *)

service == <<unit, waited, claim>>

Awake == hook # "asleep"

\* A D-Bus activation: the ExecStartPre first.
Activate ==
  /\ Awake /\ unit = "inactive"
  /\ unit' = "gate" /\ waited' = 0
  /\ UNCHANGED <<hook, marker, bus, claim, slips>>

\* (slip) The rounds are not counted.
GateRoundUncounted ==
  /\ Awake /\ unit = "gate"
  /\ marker /\ waited < Ticks
  /\ UNCHANGED gateVars

GateRound ==
  /\ Awake /\ unit = "gate"
  /\ marker /\ waited < Ticks
  /\ waited' = waited + 1
  /\ UNCHANGED <<hook, marker, bus, unit, claim, slips>>

\* (slip) The gate lets fprintd start without looking.
GateOpensAlways ==
  /\ Awake /\ unit = "gate"
  /\ unit' = "starting"
  /\ UNCHANGED <<hook, marker, bus, waited, claim, slips>>

\* The sensor is ready, or the gate gives up and starts fprintd anyway.
GateOpens ==
  /\ Awake /\ unit = "gate"
  /\ ~marker \/ waited = Ticks
  /\ unit' = "starting"
  /\ slips' = IF marker THEN slips \cup {"gave up"} ELSE slips
  /\ UNCHANGED <<hook, marker, bus, waited, claim>>

Started ==
  /\ Awake /\ unit = "starting"
  /\ unit' = "running"
  /\ UNCHANGED <<hook, marker, bus, waited, claim, slips>>

Claim ==
  /\ Awake /\ unit = "running" /\ claim = "none" /\ bus = "ready"
  /\ claim' = "fresh"
  /\ UNCHANGED <<hook, marker, bus, unit, waited, slips>>

\* The client releases the sensor, or fprintd ends when it has no client.
Release ==
  /\ Awake /\ unit = "running"
  /\ \/ claim = "fresh" /\ unit' = unit
     \/ claim = "none" /\ unit' = "inactive"
  /\ claim' = "none"
  /\ UNCHANGED <<hook, marker, bus, waited, slips>>

-----------------------------------------------------------------------------
(* The hook, one command a step                                             *)

Outdated == IF claim = "none" THEN "none" ELSE "stale"

\* The system is about to sleep: `pre` begins.
Sleep ==
  /\ hook = "out"
  /\ hook' = "mark"
  /\ UNCHANGED <<marker, bus, service, slips>>

\* Nothing is done about a marker that cannot be written.
Mark ==
  /\ hook = "mark"
  /\ hook' = "stop"
  /\ marker' \in {TRUE, marker}
  /\ UNCHANGED <<bus, service, slips>>

\* fprintd, or its gate, is gone when systemctl returns.
Stop ==
  /\ hook = "stop"
  /\ hook' = "falling"
  /\ unit' = "inactive" /\ claim' = "none"
  /\ slips' = IF marker THEN {} ELSE {"no marker"}
  /\ UNCHANGED <<marker, bus, waited>>

Freeze ==
  /\ hook = "falling"
  /\ hook' = "asleep"
  /\ UNCHANGED <<marker, bus, service, slips>>

\* `post` begins; the sensor may have come back, gone, or be late.
Wake ==
  /\ hook = "asleep"
  /\ hook' = "find" /\ claim' = Outdated
  /\ bus' \in {bus, "absent"}
  /\ UNCHANGED <<marker, unit, waited, slips>>

\* An unauthorized device is still found.
Find ==
  /\ hook = "find"
  /\ hook' = IF bus = "absent" THEN "unmark" ELSE "deauthorize"
  /\ UNCHANGED <<marker, bus, service, slips>>

\* (slip) The sensor is not put back.
DeauthorizeOnly ==
  /\ hook = "deauthorize"
  /\ hook' = "unmark"
  /\ IF bus = "absent" THEN UNCHANGED <<bus, claim>>
     ELSE bus' = "off" /\ claim' = Outdated
  /\ UNCHANGED <<marker, unit, waited, slips>>

\* Nothing happens to a device that left after it was found.
Deauthorize ==
  /\ hook = "deauthorize"
  /\ hook' = "authorize"
  /\ IF bus = "absent" THEN UNCHANGED <<bus, claim>>
     ELSE bus' = "off" /\ claim' = Outdated
  /\ UNCHANGED <<marker, unit, waited, slips>>

Authorize ==
  /\ hook = "authorize"
  /\ hook' = "unmark"
  /\ bus' = IF bus = "off" THEN "ready" ELSE bus
  /\ UNCHANGED <<marker, service, slips>>

Unmark ==
  /\ hook = "unmark"
  /\ hook' = "out" /\ marker' = FALSE
  /\ UNCHANGED <<bus, service, slips>>

\* The hook is killed, or its stop of fprintd fails: the sleep, or what
\* follows it, goes on.
Cut ==
  /\ hook \notin {"out", "falling", "asleep"}
  /\ hook' = IF hook \in {"mark", "stop"} THEN "falling" ELSE "out"
  /\ slips' = slips \cup {"cut"}
  /\ UNCHANGED <<marker, bus, service>>

\* A sensor that was late, or is plugged again.
Appears ==
  /\ Awake /\ bus = "absent"
  /\ bus' = "ready"
  /\ UNCHANGED <<hook, marker, service, slips>>

Gate == GateRound \/ GateOpens

GateNext ==
  \/ Activate \/ Gate \/ Started \/ Claim \/ Release
  \/ Sleep \/ Mark \/ Stop \/ Freeze \/ Wake
  \/ Find \/ Deauthorize \/ Authorize \/ Unmark \/ Cut \/ Appears

GateSpec == GateInit /\ [][GateNext]_gateVars

\* The gate is a running script. Nothing is asked of the hook, nor of the user
\* who lets the system sleep and wakes it.
FairGateSpec == GateSpec /\ WF_gateVars(Gate)

-----------------------------------------------------------------------------
(* Properties                                                               *)

\* The scripts' state; the gate never waits longer than its TIMEOUT.
GateTypeOK ==
  /\ hook \in {"out", "mark", "stop", "falling", "asleep", "find",
              "deauthorize", "authorize", "unmark"}
  /\ marker \in BOOLEAN /\ bus \in {"ready", "off", "absent"}
  /\ unit \in {"inactive", "gate", "starting", "running"}
  /\ waited \in 0 .. Ticks /\ claim \in {"none", "fresh", "stale"}
  /\ slips \subseteq Slips

\* No claim from before a sleep, and none of a device that has left the bus,
\* is left to refuse the next one, however activations fall between the hook's
\* commands: unless, since the last time it stopped fprintd, the hook was cut
\* short, had no marker, or outlasted the gate. One complete `pre` clears what
\* earlier sleeps left.
NoStaleClaim == claim = "stale" => slips # {}

\* When the hook is over, neither its marker nor a sensor off the bus is left
\* of it, a sensor that was not found included, unless the hook was killed
\* first; the next complete sleep removes either.
HookLeavesNothing ==
  hook = "out" /\ (marker \/ bus = "off") => "cut" \in slips

\* A marker left by a hook that died does not keep fprintd from starting: the
\* gate ends, unless the system sleeps through it.
GateEnds == unit = "gate" ~> (unit # "gate" \/ hook = "asleep")
=============================================================================

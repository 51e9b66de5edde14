--------------------------- MODULE OutputControls ---------------------------
(***************************************************************************)
(* What clients may do to one output's light: wlr-output-power-management  *)
(* (on and off) and wlr-gamma-control (the colour ramp), with the DRM      *)
(* hooks of backend/udev.rs behind them, unplugging, and the VT switch     *)
(* that wakes every output.  Ramps are named by the control that set them. *)
(***************************************************************************)
EXTENDS Integers, FiniteSets, Tables

CONSTANTS
  Lights,       \* identities of the outputs connected at start
  GammaObjects,  \* zwlr_gamma_control_v1 objects
  PowerObjects,  \* zwlr_output_power_v1 objects
  NoControl      \* the output is in no map

ASSUME OutputControlsAssumption == NoControl \notin GammaObjects

VARIABLES
  present,    \* outputs that have a DRM surface
  dark,       \* ... whose SurfaceData is powered_off
  power,      \* tracked power: output -> BOOLEAN where an entry exists
  watchers,   \* WlrOutputPowerManagementState::controls, object -> output
  told,       \* what each power object was last told
  owner,      \* WlrGammaControlState::controls, output -> object
  valid,      \* gamma objects whose ControlData still has a target -> output
  gammas,    \* gamma objects the client has not destroyed
  ramp,       \* the ramp in the CRTC: NoControl stands for the identity
  refused     \* history: outputs whose hardware refused the last ramp

ocVars == <<present, dark, power, watchers, told, owner, valid, gammas, ramp, refused>>
powerVars == <<dark, power, watchers, told>>
gammaVars == <<owner, valid, gammas, ramp, refused>>

OcInit ==
  /\ present = Lights /\ dark = {} /\ power = <<>> /\ watchers = <<>> /\ told = <<>>
  /\ owner = [o \in Lights |-> NoControl] /\ valid = <<>> /\ gammas = {}
  /\ ramp = [o \in Lights |-> NoControl] /\ refused = {}

-----------------------------------------------------------------------------
IsOn(o) == o \in DOMAIN power => power[o]

\* Broadcast: everyone who watches o hears the new mode.
Tell(o, on) ==
  [p \in DOMAIN told |-> IF p \in DOMAIN watchers /\ watchers[p] = o THEN on ELSE told[p]]

\* WlrOutputPowerManagementState::set
SetPower(o, on) == power' = Entered(power, o, on) /\ told' = Tell(o, on)

\* GetOutputPower: an unplugged output may still resolve while objects hold it.
GetOutputPower(p, o) ==
  /\ p \notin DOMAIN watchers
  /\ o \in present \/ o \in Range(watchers)
  /\ watchers' = Entered(watchers, p, o)
  /\ told' = Entered(told, p, IsOn(o))
  /\ UNCHANGED <<present, dark, power, gammaVars>>

\* SetMode: the hook knows only outputs with a surface, and clear() may fail.
SetMode(p, on) ==
  /\ p \in DOMAIN watchers
  /\ \/ /\ watchers[p] \in present
        /\ dark' = IF on THEN dark \ {watchers[p]} ELSE dark \cup {watchers[p]}
        /\ SetPower(watchers[p], on)
     \/ /\ watchers[p] \notin present \/ ~on
        /\ UNCHANGED <<dark, power, told>>
  /\ UNCHANGED <<present, watchers, gammaVars>>

DestroyPower(p) ==
  /\ p \in DOMAIN watchers
  /\ watchers' = Without(watchers, {p}) /\ told' = Without(told, {p})
  /\ UNCHANGED <<present, dark, power, gammaVars>>

\* toggle_dpms: everything off if anything is on; `stuck` are refused clears.
ToggleDpms(stuck) ==
  LET on == ~ \E o \in present : IsOn(o)
      moved == IF on THEN present ELSE present \ stuck
  IN /\ dark' = IF on THEN dark \ moved ELSE dark \cup moved
     /\ power' = Overlaid(power, [o \in moved |-> on])
     /\ told' = [p \in DOMAIN told |->
                   IF p \in DOMAIN watchers /\ watchers[p] \in moved THEN on ELSE told[p]]
     /\ UNCHANGED <<present, watchers, gammaVars>>

\* ActivateSession: reset_state wakes every CRTC, force_on says so.
ActivateSession ==
  LET woken == {o \in present : o \in DOMAIN power /\ ~power[o]}
  IN /\ dark' = dark \ present
     /\ power' = Overlaid(power, [o \in present |-> TRUE])
     /\ told' = [p \in DOMAIN told |->
                   IF p \in DOMAIN watchers /\ watchers[p] \in woken THEN TRUE ELSE told[p]]
     /\ UNCHANGED <<present, watchers, gammaVars>>

-----------------------------------------------------------------------------
\* fail_control: the target is taken out, so that later requests do nothing.
FailControl(S) == Without(valid, S)

\* GetGammaControl: the new control takes the output from the old one.
GetGammaControl(g, o) ==
  /\ g \notin gammas
  /\ gammas' = gammas \cup {g}
  /\ IF o \in present
     THEN /\ owner' = [owner EXCEPT ![o] = g]
          /\ valid' = Entered(FailControl({owner[o]}), g, o)
     ELSE UNCHANGED <<owner, valid>>
  /\ UNCHANGED <<present, ramp, refused, powerVars>>

\* The set_gamma hook: `ok` needs a surface, and DRM may refuse even then.
Ramp(o, value, ok) ==
  /\ ok => o \in present
  /\ ramp' = IF ok THEN [ramp EXCEPT ![o] = value] ELSE ramp
  /\ refused' = IF ok THEN refused \ {o} ELSE refused \cup {o}

\* remove_if_current
Released(g, o) == IF owner[o] = g THEN [owner EXCEPT ![o] = NoControl] ELSE owner

\* SetGamma: a refused ramp ends the control without restoring the old one.
SetGamma(g, ok) ==
  /\ g \in DOMAIN valid
  /\ Ramp(valid[g], g, ok)
  /\ owner' = IF ok THEN owner ELSE Released(g, valid[g])
  /\ valid' = IF ok THEN valid ELSE FailControl({g})
  /\ UNCHANGED <<present, gammas, powerVars>>

\* destroyed: only the control that still owns the output resets its ramp.
DestroyGamma(g, ok) ==
  /\ g \in gammas
  /\ gammas' = gammas \ {g}
  /\ valid' = FailControl({g})
  /\ IF g \in DOMAIN valid /\ owner[valid[g]] = g
     THEN owner' = Released(g, valid[g]) /\ Ramp(valid[g], NoControl, ok)
     ELSE UNCHANGED <<owner, ramp, refused>>
  /\ UNCHANGED <<present, powerVars>>

\* Disconnected: both states drop the output, and its controls are failed.
Unplug(o) ==
  /\ o \in present
  /\ present' = present \ {o} /\ dark' = dark \ {o}
  /\ power' = Without(power, {o})
  /\ watchers' = Without(watchers, {p \in DOMAIN watchers : watchers[p] = o})
  /\ told' = Without(told, {p \in DOMAIN watchers : watchers[p] = o})
  /\ owner' = [owner EXCEPT ![o] = NoControl]
  /\ valid' = FailControl({owner[o]})
  /\ UNCHANGED <<gammas, ramp, refused>>

OcNext ==
  \/ \E p \in PowerObjects, o \in Lights : GetOutputPower(p, o)
  \/ \E p \in PowerObjects, on \in BOOLEAN : SetMode(p, on)
  \/ \E p \in PowerObjects : DestroyPower(p)
  \/ \E stuck \in SUBSET present : ToggleDpms(stuck)
  \/ ActivateSession
  \/ \E g \in GammaObjects, o \in Lights : GetGammaControl(g, o)
  \/ \E g \in GammaObjects, ok \in BOOLEAN : SetGamma(g, ok) \/ DestroyGamma(g, ok)
  \/ \E o \in Lights : Unplug(o)

OcSpec == OcInit /\ [][OcNext]_ocVars

-----------------------------------------------------------------------------
OcTypeOK ==
  /\ dark \subseteq present /\ present \subseteq Lights
  /\ DOMAIN watchers = DOMAIN told /\ DOMAIN watchers \subseteq PowerObjects
  /\ owner \in [Lights -> GammaObjects \cup {NoControl}]
  /\ DOMAIN valid \subseteq gammas /\ gammas \subseteq GammaObjects

(* Whoever watches an output's power knows whether it is lit: the tracked    *)
(* state, the last mode event and the CRTC agree through client requests,    *)
(* toggle-dpms, refused clears and the VT switch that wakes everything.      *)
PowerIsTold ==
  /\ \A o \in present : IsOn(o) <=> o \notin dark
  /\ \A p \in DOMAIN watchers : watchers[p] \in present => (told[p] <=> IsOn(watchers[p]))

(* One control at a time works on an output: exactly the owner in the map    *)
(* still has its target, so a replaced night light can neither set nor reset *)
(* the ramp of its successor.                                                *)
OneGammaControl ==
  \A o \in Lights : {g \in DOMAIN valid : valid[g] = o} = {owner[o]} \ {NoControl}

(* A ramp outlives its controls only where the hardware refused one.         *)
RampEndsWithControl ==
  \A o \in present : owner[o] = NoControl /\ ramp[o] # NoControl => o \in refused

(* Both controls agree with the hardware they stand for (the set and        *)
(* force_on of output power, the owner map of gamma control).               *)
ControlsAgree == OcTypeOK /\ PowerIsTold /\ OneGammaControl /\ RampEndsWithControl
=============================================================================

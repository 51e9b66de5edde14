-------------------------- MODULE OutputManagement --------------------------
(***************************************************************************)
(* wlr-output-management (handlers/wlr_output_management.rs) with the code *)
(* that changes the live desktop around it: hotplug in backend/udev.rs,    *)
(* the `output` blocks of a config reload, and the coordinate checks of    *)
(* tide_core/output_layout.rs.  An `Output` is an identity: a monitor that *)
(* is plugged again is a new one.  One axis stands for both, and `size` is *)
(* the logical size that mode, transform and scale give.                   *)
(***************************************************************************)
EXTENDS Integers, FiniteSets, FiniteSetsExt, Tables

CONSTANTS
  Outputs,     \* identities of the monitors that may be connected
  Managers,    \* clients of zwlr_output_manager_v1
  Configs,     \* zwlr_output_configuration_v1 objects
  CoordMax,    \* i32::MAX, scaled down
  Positions,   \* positions that a config file or a client asks for
  Sizes,       \* logical sizes of an output
  MaxSerial    \* bound: refreshes modelled

ASSUME OutputCoordAssumption ==
  /\ CoordMax \in Nat \ {0}
  /\ Positions \subseteq (-(CoordMax + 1))..CoordMax
  /\ Sizes \subseteq 1..CoordMax
  /\ MaxSerial \in Nat

\* A field of OutputChange that is None, or Some.
Keep == [keep |-> TRUE]
Put(x) == [keep |-> FALSE, to |-> x]
Optional(S) == {Keep} \cup {Put(x) : x \in S}
OutputChange == [position : Optional(Positions), size : Optional(Sizes),
                 mode : {"kept", "other"}]
NoChange == [position |-> Keep, size |-> Keep, mode |-> "kept"]
Disabled == [disabled |-> TRUE]
HeadOp == {Disabled} \cup [disabled : {FALSE}, change : OutputChange]

VARIABLES
  rects,     \* live outputs (space.outputs()) -> [loc, size]
  plugged,   \* identities that were ever connected
  serial,    \* current_serial
  view,      \* bound managers -> what their head objects last told them
  seen,      \* bound managers -> the serial of their last done event
  objects,   \* managers -> the outputs the client holds a head object for
  configs    \* live configuration objects -> ConfigurationInner, the owner, and
             \* (history) the desktop that had the serial it quotes

omVars == <<rects, plugged, serial, view, seen, objects, configs>>

Right(r) == r.loc + r.size
Rect(loc, size) == [loc |-> loc, size |-> size]

\* validate_desktop_layout: every edge, and the whole span, is a coordinate.
ValidDesktop(f) ==
  /\ \A o \in DOMAIN f : f[o].size > 0 /\ Right(f[o]) <= CoordMax
  /\ \A o, p \in DOMAIN f : Right(f[o]) - f[p].loc <= CoordMax

\* checked_output_delta: the translation of the windows is a coordinate.
DeltaFits(from, to) == to - from \in (-(CoordMax + 1))..CoordMax

\* resolve_output_position: the request, else the right edge, else the corner.
ResolvedPosition(o, requested, size) ==
  LET fits(p) == ValidDesktop(Entered(rects, o, Rect(p, size)))
      rights == {Right(r) : r \in Range(rects)}
      lefts == {r.loc : r \in Range(rects)}
      right == IF rights = {} THEN 0 ELSE Max(rights)
      left == IF lefts = {} THEN 0 ELSE Min(lefts)
  IN IF ~requested.keep /\ fits(requested.to) THEN requested.to
     ELSE IF right <= CoordMax /\ fits(right) THEN right
     ELSE Min({left, CoordMax - size})

\* proposed_output_layout: None when a change needs a modeset or a jump too far.
Proposed(changes) ==
  [o \in DOMAIN changes |->
     Rect(IF changes[o].position.keep THEN rects[o].loc ELSE changes[o].position.to,
          IF changes[o].size.keep THEN rects[o].size ELSE changes[o].size.to)]
ChangesSupported(changes) ==
  /\ \A o \in DOMAIN changes : /\ changes[o].mode # "other"
                               /\ DeltaFits(rects[o].loc, Proposed(changes)[o].loc)
  /\ ValidDesktop(Proposed(changes))

\* refresh: every bound manager gets heads, properties and a new done serial.
Refresh(desktop) ==
  /\ serial < MaxSerial
  /\ rects' = desktop
  /\ serial' = serial + 1
  /\ view' = [m \in DOMAIN view |-> desktop]
  /\ seen' = [m \in DOMAIN seen |-> serial + 1]
  /\ objects' = [m \in Managers |-> IF m \in DOMAIN view THEN objects[m] \cup DOMAIN desktop
                                                         ELSE objects[m]]

\* apply_output_changes: all of it or nothing.
ApplyChanges(changes) ==
  /\ ChangesSupported(changes)
  /\ Refresh(Proposed(changes))

OmInit ==
  /\ rects = <<>> /\ plugged = {} /\ serial = 0
  /\ view = <<>> /\ seen = <<>> /\ objects = [m \in Managers |-> {}] /\ configs = <<>>

\* create_surface: the resolved position may be refused by no desktop.
Connect(o, requested, size) ==
  /\ o \notin plugged
  /\ Refresh(Entered(rects, o, Rect(ResolvedPosition(o, requested, size), size)))
  /\ plugged' = plugged \cup {o}
  /\ UNCHANGED configs

\* Mutant of Disconnect: the managers are not refreshed.
DisconnectSilently(o) ==
  /\ o \in DOMAIN rects /\ rects' = Without(rects, {o})
  /\ UNCHANGED <<plugged, serial, view, seen, objects, configs>>

\* handle_connector_change, Disconnected: heads get `finished`, the rest a done.
Disconnect(o) ==
  /\ o \in DOMAIN rects
  /\ Refresh(Without(rects, {o}))
  /\ UNCHANGED <<plugged, configs>>

\* apply_output_blocks_live: outputs with a block are moved, others kept.
ReloadBlocks(blocks) ==
  /\ ApplyChanges([o \in DOMAIN rects |-> IF o \in DOMAIN blocks THEN blocks[o] ELSE NoChange])
  /\ UNCHANGED <<plugged, configs>>

BindManager(m) ==
  /\ m \notin DOMAIN view
  /\ view' = Entered(view, m, rects)
  /\ seen' = Entered(seen, m, serial)
  /\ objects' = [objects EXCEPT ![m] = @ \cup DOMAIN rects]
  /\ UNCHANGED <<rects, plugged, serial, configs>>

\* Request::Stop and the destructor of the manager.
StopManager(m) ==
  /\ m \in DOMAIN view
  /\ view' = Without(view, {m}) /\ seen' = Without(seen, {m})
  /\ UNCHANGED <<rects, plugged, serial, objects, configs>>

\* A head object is released; the next refresh introduces the head again.
ReleaseHead(m, o) ==
  /\ o \in objects[m]
  /\ objects' = [objects EXCEPT ![m] = @ \ {o}]
  /\ view' = IF m \in DOMAIN view THEN [view EXCEPT ![m] = Without(@, {o})] ELSE view
  /\ UNCHANGED <<rects, plugged, serial, seen, configs>>

\* A protocol error ends the client: all of its objects are destroyed.
Kill(m) ==
  /\ view' = Without(view, {m}) /\ seen' = Without(seen, {m})
  /\ objects' = [objects EXCEPT ![m] = {}]
  /\ configs' = Without(configs, {c \in DOMAIN configs : configs[c].owner = m})
  /\ UNCHANGED <<rects, plugged, serial>>

\* CreateConfiguration: the serial is the client's word, current or late.
CreateConfiguration(m, c, s) ==
  /\ m \in DOMAIN view /\ c \notin DOMAIN configs
  /\ configs' = Entered(configs, c, [owner |-> m, created |-> s, used |-> FALSE, ops |-> <<>>,
                                     against |-> IF s = serial THEN rects ELSE <<>>])
  /\ UNCHANGED <<rects, plugged, serial, view, seen, objects>>

DestroyConfiguration(c) ==
  /\ c \in DOMAIN configs
  /\ configs' = Without(configs, {c})
  /\ UNCHANGED <<rects, plugged, serial, view, seen, objects>>

\* The requests that fill a configuration before it is submitted: EnableHead
\* with SetPosition, SetScale, SetTransform and SetCustomMode, or DisableHead.
\* Each head and each field once, on heads the client still has objects for.
FillConfiguration(c, ops) ==
  /\ c \in DOMAIN configs /\ ~configs[c].used /\ configs[c].ops = <<>>
  /\ DOMAIN ops \subseteq objects[configs[c].owner]
  /\ configs' = [configs EXCEPT ![c].ops = ops]
  /\ UNCHANGED <<rects, plugged, serial, view, seen, objects>>

\* The same requests out of turn: a head after apply or test or a second time
\* (AlreadyUsed, AlreadyConfiguredHead), or a field a second time (AlreadySet).
MisuseConfiguration(c) ==
  /\ c \in DOMAIN configs
  /\ \/ configs[c].used /\ objects[configs[c].owner] # {}
     \/ DOMAIN configs[c].ops \cap objects[configs[c].owner] # {}
  /\ Kill(configs[c].owner)

\* Mutant of Stale: only the heads are compared, not the serial.
StaleHeads(c) == DOMAIN configs[c].ops \ DOMAIN rects # {}

\* finish_configuration up to the point where the whole batch is known to be
\* about the desktop as it stands.
Stale(c) ==
  \/ configs[c].created # serial
  \/ DOMAIN configs[c].ops \ DOMAIN rects # {}
Unconfigured(c) == configs[c].created = serial /\ DOMAIN rects \ DOMAIN configs[c].ops # {}
Requested(c) == [o \in DOMAIN configs[c].ops |-> configs[c].ops[o].change]
Accepts(c) ==
  /\ ~Stale(c) /\ ~Unconfigured(c)
  /\ \A o \in DOMAIN configs[c].ops : ~configs[c].ops[o].disabled
  /\ ChangesSupported(Requested(c))

\* Apply or Test, the second time a protocol error.  Nothing reads the
\* operations of a used configuration again.
FinishConfiguration(c, apply) ==
  /\ c \in DOMAIN configs
  /\ IF configs[c].used \/ Unconfigured(c) THEN Kill(configs[c].owner)
     ELSE /\ configs' = [configs EXCEPT ![c].used = TRUE, ![c].ops = <<>>]
          /\ UNCHANGED plugged
          /\ IF apply /\ Accepts(c) THEN ApplyChanges(Requested(c))
             ELSE UNCHANGED <<rects, serial, view, seen, objects>>

Blocks == UNION {[S -> {c \in OutputChange : c.mode = "kept" /\ ~c.size.keep}] :
                   S \in SUBSET DOMAIN rects}

OmNext ==
  \/ \E o \in Outputs, p \in Optional(Positions), s \in Sizes : Connect(o, p, s)
  \/ \E o \in Outputs : Disconnect(o)
  \/ \E b \in Blocks : ReloadBlocks(b)
  \/ \E m \in Managers : BindManager(m) \/ StopManager(m)
  \/ \E m \in Managers, o \in Outputs : ReleaseHead(m, o)
  \/ \E m \in Managers, c \in Configs, s \in {serial - 1, serial} \cap Nat : CreateConfiguration(m, c, s)
  \/ \E c \in Configs : DestroyConfiguration(c)
  \/ \E c \in Configs, S \in SUBSET Outputs : \E ops \in [S -> HeadOp] : FillConfiguration(c, ops)
  \/ \E c \in Configs : MisuseConfiguration(c)
  \/ \E c \in Configs, apply \in BOOLEAN : FinishConfiguration(c, apply)

OmSpec == OmInit /\ [][OmNext]_omVars

-----------------------------------------------------------------------------
OmTypeOK ==
  /\ DOMAIN rects \subseteq plugged /\ plugged \subseteq Outputs
  /\ serial \in 0..MaxSerial
  /\ DOMAIN view = DOMAIN seen /\ DOMAIN view \subseteq Managers
  /\ objects \in [Managers -> SUBSET Outputs]
  /\ DOMAIN configs \subseteq Configs

(* However outputs come, go, or move, the live desktop stays inside the     *)
(* coordinate domain that validate_desktop_layout protects, so that no      *)
(* later translation or automatic placement can overflow.                   *)
DesktopInDomain == ValidDesktop(rects)

(* Between two events every bound client has been told the desktop as it    *)
(* is, under the serial that a configuration must quote to be accepted:     *)
(* whoever changes an output has refreshed the managers.                    *)
ClientsSeeTheDesktop ==
  /\ \A m \in DOMAIN view :
       /\ seen[m] = serial
       /\ \A o \in DOMAIN view[m] : o \in DOMAIN rects /\ view[m][o] = rects[o]

(* A configuration that moves the desktop was written against exactly the   *)
(* desktop it replaces, speaks for every live head, and lands whole.        *)
ConfigurationsLandWhole ==
  [][\A c \in Configs :
       (c \in DOMAIN configs /\ c \in DOMAIN configs' /\ configs'[c].used /\ ~configs[c].used
          /\ rects' # rects)
       => /\ configs[c].against = rects
          /\ DOMAIN rects' = DOMAIN configs[c].ops
          /\ \A o \in DOMAIN rects' :
               LET ch == configs[c].ops[o].change
               IN /\ ch.position.keep \/ rects'[o].loc = ch.position.to
                  /\ ch.size.keep \/ rects'[o].size = ch.size.to]_omVars

(* What validate_desktop_layout and refresh are for: the desktop is valid,  *)
(* and every bound manager knows it.                                        *)
DesktopAgreed == OmTypeOK /\ DesktopInDomain /\ ClientsSeeTheDesktop
=============================================================================

-------------------------- MODULE WorkspaceMirror --------------------------
(***************************************************************************)
(* ext-workspace (handlers/ext_workspace.rs): the groups and workspaces a  *)
(* bar's manager has been told of, refreshed by a diff against the live    *)
(* outputs.  A handle is named by the manager it was announced through and *)
(* by the manager whose group object it entered.                           *)
(***************************************************************************)
EXTENDS Integers, FiniteSets, Sequences, SequencesExt, Tables

CONSTANTS
  Screens,      \* identities of the outputs that may be connected
  Numbers,      \* workspace numbers
  Strips,       \* ext_workspace_manager_v1 objects
  BarClients    \* Wayland clients, each of which may bind any number of them

ASSUME WorkspaceMirrorAssumption == Numbers \subseteq Nat \ {0} /\ 1 \in Numbers

VARIABLES
  desk,      \* live outputs -> [occupied, active]: what advertised_workspaces reads
  count,     \* config.workspace_count, 0 when not set
  strips,    \* `managers`, in the order they bound
  stripsPast,\* managers ever bound -> the client that bound each
  groups,    \* ExtWorkspaceState::groups: output -> [inst, ws]
  silent     \* (history) the desktop changed without a refresh since the last one

wmVars == <<desk, count, strips, stripsPast, groups, silent>>

\* advertised_workspaces, with the active bit: what refresh_ext_workspaces
\* hands to refresh.
Advertised(o) == desk[o].occupied \cup {desk[o].active} \cup {n \in Numbers : n <= count}
Desired == [o \in DOMAIN desk |-> [n \in Advertised(o) |-> n = desk[o].active]]

WmInit ==
  /\ desk = <<>> /\ count = 0 /\ strips = <<>> /\ stripsPast = <<>>
  /\ groups = <<>> /\ silent = FALSE

\* managers.iter().find(|(c, _)| c == client): the client's first manager.
FirstOf(client) == SelectInSeq(strips, LAMBDA m : stripsPast[m] = client)

\* A new workspace is created for every group object, through that manager.
NewHandles(holders, on) ==
  {[via |-> strips[FirstOf(stripsPast[g])], in |-> g, told |-> on] :
     g \in {h \in holders : FirstOf(stripsPast[h]) > 0}}

\* refresh: drop the groups of outputs that went, add those that came, then
\* leave, announce and update the workspaces of each.
RefreshBars(desired) ==
  LET holders(o) == IF o \in DOMAIN groups THEN groups[o].inst ELSE Range(strips)
      old(o, n) == o \in DOMAIN groups /\ n \in DOMAIN groups[o].ws
  IN [o \in DOMAIN desired |->
       [inst |-> holders(o),
        ws |-> [n \in DOMAIN desired[o] |->
          IF old(o, n)
          THEN [active |-> desired[o][n],
                inst |-> IF groups[o].ws[n].active = desired[o][n] THEN groups[o].ws[n].inst
                         ELSE {[i EXCEPT !.told = desired[o][n]] : i \in groups[o].ws[n].inst}]
          ELSE [active |-> desired[o][n], inst |-> NewHandles(holders(o), desired[o][n])]]]]

Refreshes == groups' = RefreshBars(Desired') /\ silent' = FALSE
StaysSilent == silent' = TRUE /\ UNCHANGED groups

-----------------------------------------------------------------------------
\* Hotplug, both ways; a switch, a moved or swapped workspace (one or two
\* outputs change at once), a reload of workspace_count: all refresh.
ConnectScreen(o) ==
  /\ o \notin DOMAIN desk
  /\ desk' = Entered(desk, o, [occupied |-> {}, active |-> 1])
  /\ UNCHANGED <<count, strips, stripsPast>> /\ Refreshes
DisconnectScreen(o) ==
  /\ o \in DOMAIN desk /\ desk' = Without(desk, {o})
  /\ UNCHANGED <<count, strips, stripsPast>> /\ Refreshes
SwitchScreen(o, n, occupied) ==
  /\ o \in DOMAIN desk
  /\ desk' = [desk EXCEPT ![o] = [occupied |-> occupied, active |-> n]]
  /\ UNCHANGED <<count, strips, stripsPast>> /\ Refreshes
ReloadCount(n) ==
  count' = n /\ UNCHANGED <<desk, strips, stripsPast>> /\ Refreshes

\* A window maps, closes or moves to a hidden workspace (move_to_workspace):
\* the populated set changes and nothing refreshes.
Populate(o, occupied) ==
  /\ o \in DOMAIN desk /\ occupied /= desk[o].occupied
  /\ desk' = [desk EXCEPT ![o].occupied = occupied]
  /\ StaysSilent /\ UNCHANGED <<count, strips, stripsPast>>

\* bind: the tracked groups and workspaces are replayed to the new manager.
BindStrip(m, client) ==
  /\ m \notin DOMAIN stripsPast /\ stripsPast' = Entered(stripsPast, m, client)
  /\ strips' = Append(strips, m)
  /\ groups' = [o \in DOMAIN groups |->
       [inst |-> groups[o].inst \cup {m},
        ws |-> [n \in DOMAIN groups[o].ws |->
                 [groups[o].ws[n] EXCEPT !.inst =
                    @ \cup {[via |-> m, in |-> m, told |-> groups[o].ws[n].active]}]]]]
  /\ UNCHANGED <<desk, count, silent>>

\* Stop: no more announcements; the group and workspace objects stay.
StopStrip(m) ==
  /\ \E i \in DOMAIN strips : strips[i] = m /\ strips' = RemoveAt(strips, i)
  /\ UNCHANGED <<desk, count, stripsPast, groups, silent>>

\* The client destroys every object of a manager it has stopped.
ReleaseStrip(m) ==
  /\ m \in DOMAIN stripsPast \ Range(strips)
  /\ groups' = [o \in DOMAIN groups |->
       [inst |-> groups[o].inst \ {m},
        ws |-> [n \in DOMAIN groups[o].ws |->
                 [groups[o].ws[n] EXCEPT !.inst = {i \in @ : i.via /= m /\ i.in /= m}]]]]
  /\ UNCHANGED <<desk, count, strips, stripsPast, silent>>

WmNext ==
  \/ \E o \in Screens : ConnectScreen(o) \/ DisconnectScreen(o)
  \/ \E o \in Screens, n \in Numbers, S \in SUBSET Numbers : SwitchScreen(o, n, S)
  \/ \E o \in Screens, S \in SUBSET Numbers : Populate(o, S)
  \/ \E n \in {0} \cup Numbers : ReloadCount(n)
  \/ \E m \in Strips, c \in BarClients : BindStrip(m, c)
  \/ \E m \in Strips : StopStrip(m) \/ ReleaseStrip(m)
WmSpec == WmInit /\ [][WmNext]_wmVars

-----------------------------------------------------------------------------
\* The handles of workspace n in the group object manager m holds of output o.
Shown(m, o, n) == {i \in groups[o].ws[n].inst : i.in = m}
OnlyOne(m) == \A k \in DOMAIN stripsPast : stripsPast[k] = stripsPast[m] => k = m

\* refresh's comment: exactly the changes are pushed to every bound manager.  So
\* the groups are the live outputs with their workspaces unless the desktop
\* changed silently; a bar, also one that stopped and keeps its objects, is told
\* of no workspace twice and of each the right state; and a bar that is its
\* client's only one is told of them all.
WorkspaceBars ==
  /\ ~silent =>
       /\ DOMAIN groups = DOMAIN desk
       /\ \A o \in DOMAIN groups : [n \in DOMAIN groups[o].ws |-> groups[o].ws[n].active] = Desired[o]
  /\ \A o \in DOMAIN groups : Range(strips) \subseteq groups[o].inst
  /\ \A o \in DOMAIN groups : \A n \in DOMAIN groups[o].ws, m \in DOMAIN stripsPast :
       /\ \A i, j \in Shown(m, o, n) : i = j
       /\ \A i \in Shown(m, o, n) :
            i.told = groups[o].ws[n].active /\ stripsPast[i.via] = stripsPast[m]
       /\ m \in Range(strips) /\ OnlyOne(m) => \E i \in Shown(m, o, n) : i.via = m
=============================================================================

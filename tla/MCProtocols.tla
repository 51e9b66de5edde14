----------------------------- MODULE MCProtocols -----------------------------
(***************************************************************************)
(* The protocol mirrors and client resources, checked side by side: `part` *)
(* picks the component that moves in a behaviour, and the others keep      *)
(* their initial state, so one run explores them all without their product.*)
(***************************************************************************)
EXTENDS OutputManagement, OutputControls, ToplevelMirror, WorkspaceMirror, Ipc, BufferCommits

CONSTANT Parts
VARIABLE part

\* One client draws on all surfaces.
OneDrawer == [s \in Surfaces |-> CHOOSE c \in Drawers : TRUE]
CornerPositions == {-(CoordMax + 1), 0}

allVars == <<omVars, ocVars, tmVars, wmVars, ipcVars, bcVars, part>>

ProtocolsInit ==
  /\ OmInit /\ OcInit /\ TmInit /\ WmInit /\ IpcInit /\ BcInit
  /\ part \in Parts

ProtocolsNext ==
  /\ UNCHANGED part
  /\ \/ part = "outputs" /\ OmNext /\ UNCHANGED <<ocVars, tmVars, wmVars, ipcVars, bcVars>>
     \/ part = "lights" /\ OcNext /\ UNCHANGED <<omVars, tmVars, wmVars, ipcVars, bcVars>>
     \/ part = "toplevels" /\ TmNext /\ UNCHANGED <<omVars, ocVars, wmVars, ipcVars, bcVars>>
     \/ part = "workspaces" /\ WmNext /\ UNCHANGED <<omVars, ocVars, tmVars, ipcVars, bcVars>>
     \/ part = "ipc" /\ IpcNext /\ UNCHANGED <<omVars, ocVars, tmVars, wmVars, bcVars>>
     \/ part = "commits" /\ BcNext /\ UNCHANGED <<omVars, ocVars, tmVars, wmVars, ipcVars>>

ProtocolsSpec == ProtocolsInit /\ [][ProtocolsNext]_allVars

-----------------------------------------------------------------------------
\* Taskbars list live windows under their titles and in the state last broadcast,
\* but for objects younger than that broadcast, and what was broadcast is the truth
\* but after a silent change; workspace bars are told of each workspace once and
\* rightly (the handles of wlr_foreign_toplevel.rs and ext_workspace.rs).
MirrorsAgree == TaskbarEntries /\ WorkspaceBars

\* Every client that arranges outputs or sets their power and gamma agrees with
\* the desktop and the hardware (the serials, modes and owners kept for them).
OutputsAgree == DesktopAgreed /\ ControlsAgree
=============================================================================

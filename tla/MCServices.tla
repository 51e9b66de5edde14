----------------------------- MODULE MCServices -----------------------------
(***************************************************************************)
(* The components with work of their own under way, checked side by side   *)
(* with their liveness: `part` picks the one that moves in a behaviour,    *)
(* and the others keep their initial state.                                *)
(***************************************************************************)
EXTENDS Capture, Screencast, CastFrames, CastPortal, ConfigReload

CONSTANTS Parts, d1, d2, a1, a2, s1, s2, t1, x1, x2, b1, p1, p2
VARIABLE part

EachItsOwn == s1 :> a1 @@ s2 :> a2
OfTheFirst == t1 :> d1

\* A main file and one it may include, in two directories; a text that does
\* not evaluate is a syntax error or a removed file.
Text(evaluates, includes, rev) == [evaluates |-> evaluates, includes |-> includes, rev |-> rev]
TwoDirectories == [f \in Files |-> IF f = MainFile THEN "config" ELSE "themes"]
TextsOfEach ==
  [f \in Files |->
     IF f = MainFile
     THEN {Text(TRUE, {}, 0), Text(TRUE, Files \ {MainFile}, 0), Text(FALSE, {}, 0)}
     ELSE {Text(TRUE, {}, 0), Text(TRUE, {}, 1), Text(FALSE, {}, 0)}]

serviceVars == <<cpVars, scVars, cfVars, cpoVars, crVars, part>>

InCapture == part = "capture" /\ UNCHANGED <<scVars, cfVars, cpoVars, crVars, part>>
InMutter == part = "mutter" /\ UNCHANGED <<cpVars, cfVars, cpoVars, crVars, part>>
InFrames == part = "frames" /\ UNCHANGED <<cpVars, scVars, cpoVars, crVars, part>>
InPortal == part = "portal" /\ UNCHANGED <<cpVars, scVars, cfVars, crVars, part>>
InReload == part = "reload" /\ UNCHANGED <<cpVars, scVars, cfVars, cpoVars, part>>

ServicesInit ==
  /\ CpInit /\ ScInit /\ CfInit /\ CpoInit /\ CrInit /\ part \in Parts
  /\ part # "reload" => \A f \in Files : disk[f] = Text(TRUE, {}, 0)

ServicesNext ==
  \/ InCapture /\ CpNext
  \/ InMutter /\ ScNext
  \/ InFrames /\ CfNext
  \/ InPortal /\ CpoNext
  \/ InReload /\ CrNext

\* The fairness of each component's own specification.  Only one of them moves,
\* so a condition can stand for one process of each.  What the others keep
\* comes last: TLC evaluates these conditions at every step of its graph, and
\* most fail at their first guard.
ServicesFairness ==
  /\ WF_serviceVars(\/ part = "capture" /\ ServeDisplay(d1) /\ InCapture
                    \/ part = "mutter" /\ ScService(x1) /\ InMutter
                    \/ part = "frames" /\ CfStream /\ InFrames
                    \/ part = "portal" /\ CpoStart(p1) /\ InPortal
                    \/ part = "reload" /\ CrLoop /\ InReload)
  /\ WF_serviceVars(\/ part = "capture" /\ ServeDisplay(d2) /\ InCapture
                    \/ part = "mutter" /\ ScService(x2) /\ InMutter
                    \/ part = "frames" /\ CfCompositor /\ InFrames
                    \/ part = "portal" /\ CpoStart(p2) /\ InPortal
                    \/ part = "reload" /\ WatcherSees("main") /\ InReload)
  /\ WF_serviceVars(\/ part = "capture" /\ FenceReached(s1) /\ InCapture
                    \/ part = "mutter" /\ Watch(b1) /\ InMutter
                    \/ part = "reload" /\ WatcherSees("theme") /\ InReload)
  /\ WF_serviceVars(\/ part = "capture" /\ FenceReached(s2) /\ InCapture
                    \/ part = "mutter" /\ ScWorkers /\ InMutter)

ServicesSpec == ServicesInit /\ [][ServicesNext]_serviceVars /\ ServicesFairness

-----------------------------------------------------------------------------
\* Screencasts of either service own what runs for them: every worker has a
\* session and every session a client, however starts, closes and departures
\* interleave, and every Start comes to one end.
CastsSettled == CastsOwned /\ StartsSettled

\* What the k-th shot, session, order, portal session or file waits for.
Waiting(k) ==
  \/ part = "capture" /\ shot[<<s1, s2>>[k]] = "asked"
  \/ part = "mutter" /\ OwnerLeft(<<x1, x2>>[k])
  \/ part = "frames" /\ (IF k = 1 THEN onOrder ELSE slot = "other" /\ looping)
  \/ part = "portal" /\ entry[<<p1, p2>>[k]] = "closed"
  \/ part = "reload" /\ <<"main", "theme">>[k] \in unread
Served(k) ==
  \/ part = "capture" /\ (shot[<<s1, s2>>[k]] # "asked" \/ ~drmActive)
  \/ part = "mutter" /\ NothingLeft(<<x1, x2>>[k])
  \/ part = "frames" /\ ((IF k = 1 THEN ~onOrder ELSE slot # "other") \/ ~looping)
  \/ part = "portal" /\ thread[<<p1, p2>>[k]] = "none"
  \/ part = "reload" /\ ChangeLanded(<<"main", "theme">>[k])

\* Nothing that was asked for is forgotten.  A client that asked for a frame
\* gets an answer, unless the session stays on another VT for ever; a client
\* that leaves takes its streams with it; every order of a stream is settled,
\* and a stream whose source changed size ends; a closed portal session's
\* thread goes away; and a save the watcher let through takes effect, whatever
\* reload was under way: the session comes to run that file as it stands on
\* disk, to leave it out, or to show why it cannot.
ServicesComplete == \A k \in 1..2 : Waiting(k) ~> Served(k)
=============================================================================

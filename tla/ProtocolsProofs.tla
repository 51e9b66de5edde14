--------------------------- MODULE ProtocolsProofs ---------------------------
(***************************************************************************)
(* Proofs about the protocol mirrors, for any outputs, windows, clients    *)
(* and objects: every client that arranges outputs or switches them off    *)
(* agrees with the desktop and the hardware, a configuration lands whole   *)
(* on the desktop it was written against, taskbars and workspace bars show *)
(* what there is, IPC subscribers are told every change in order, and each *)
(* surface commit is accounted for.                                        *)
(*                                                                         *)
(* Each theorem is about the specifications of the components, which the   *)
(* behaviours of MCProtocols implement.                                    *)
(***************************************************************************)
EXTENDS MCProtocols, FiniteSetTheorems, NaturalsInduction, WellFoundedInduction,
        SequenceTheorems, TLAPS

-----------------------------------------------------------------------------
(* Tables *)

LEMMA EnteredMaps ==
  ASSUME NEW f, NEW k, NEW v
  PROVE  /\ DOMAIN Entered(f, k, v) = DOMAIN f \cup {k}
         /\ Entered(f, k, v)[k] = v
         /\ \A x \in DOMAIN f : x # k => Entered(f, k, v)[x] = f[x]
  BY DEF Entered

LEMMA OverlaidMaps ==
  ASSUME NEW f, NEW g
  PROVE  /\ DOMAIN Overlaid(f, g) = DOMAIN f \cup DOMAIN g
         /\ \A x \in DOMAIN g : Overlaid(f, g)[x] = g[x]
         /\ \A x \in DOMAIN f \ DOMAIN g : Overlaid(f, g)[x] = f[x]
  BY DEF Overlaid

LEMMA WithoutMaps ==
  ASSUME NEW f, NEW S
  PROVE  /\ DOMAIN Without(f, S) = DOMAIN f \ S
         /\ \A x \in DOMAIN f \ S : Without(f, S)[x] = f[x]
  BY DEF Without, Restrict

-----------------------------------------------------------------------------
(* Power and gamma *)

OcTyped ==
  /\ \A o \in DOMAIN power : power[o] \in BOOLEAN
  /\ \A p \in DOMAIN told : told[p] \in BOOLEAN
  /\ \A p \in DOMAIN watchers : watchers[p] \in Lights
  /\ \A g \in DOMAIN valid : valid[g] \in Lights
  /\ ramp \in [Lights -> GammaObjects \cup {NoControl}]

OcInv == ControlsAgree /\ OcTyped

LEMMA OcInitInv == OcInit => OcInv
<1> SUFFICES ASSUME OcInit PROVE OcInv
  OBVIOUS
<1>1. OcTypeOK BY DEF OcInit, OcTypeOK
<1>2. OcTyped BY DEF OcInit, OcTyped
<1>3. PowerIsTold BY DEF OcInit, PowerIsTold, IsOn
<1>4. OneGammaControl BY DEF OcInit, OneGammaControl
<1>5. RampEndsWithControl BY DEF OcInit, RampEndsWithControl
<1> QED BY <1>1, <1>2, <1>3, <1>4, <1>5 DEF OcInv, ControlsAgree

\* Power requests leave the colour ramps alone, and the other way round.
LEMMA GammaStays ==
  ASSUME OcInv, UNCHANGED gammaVars, present' \subseteq present
  PROVE  OneGammaControl' /\ RampEndsWithControl'
  BY DEF OcInv, ControlsAgree, OneGammaControl, RampEndsWithControl, gammaVars

LEMMA PowerStays ==
  ASSUME OcInv, UNCHANGED <<present, powerVars>>
  PROVE  PowerIsTold'
  BY DEF OcInv, ControlsAgree, PowerIsTold, IsOn, powerVars

LEMMA GetOutputPowerKeeps ==
  ASSUME OcInv, NEW p \in PowerObjects, NEW o \in Lights, GetOutputPower(p, o)
  PROVE  OcInv'
<1> USE DEF OcInv, ControlsAgree
<1>0. PICK b \in BOOLEAN : b = IsOn(o)
  <2>1. IsOn(o) \in BOOLEAN BY DEF IsOn
  <2> QED BY ONLY <2>1, Zenon
<1>1. /\ watchers' = Entered(watchers, p, o) /\ told' = Entered(told, p, b)
      /\ UNCHANGED <<present, dark, power, gammaVars>>
  BY <1>0, Zenon DEF GetOutputPower
<1>2. /\ DOMAIN watchers' = DOMAIN watchers \cup {p} /\ DOMAIN told' = DOMAIN told \cup {p}
      /\ watchers'[p] = o /\ told'[p] = b
      /\ \A q \in DOMAIN watchers : q # p => watchers'[q] = watchers[q]
      /\ \A q \in DOMAIN told : q # p => told'[q] = told[q]
  <2>1. /\ watchers' = [x \in DOMAIN watchers \cup {p} |-> IF x = p THEN o ELSE watchers[x]]
        /\ told' = [x \in DOMAIN told \cup {p} |-> IF x = p THEN b ELSE told[x]]
    BY <1>1 DEF Entered
  <2> QED BY ONLY <2>1
<1>4. OcTypeOK' BY <1>1, <1>2 DEF OcTypeOK, gammaVars
<1>5. OcTyped' BY <1>1, <1>2 DEF OcTyped, OcTypeOK, gammaVars
<1>6. PowerIsTold'
  <2>1. \A x : IsOn(x)' <=> IsOn(x) BY <1>1 DEF IsOn
  <2>2. \A x \in present' : IsOn(x)' <=> x \notin dark' BY <1>1, <2>1 DEF PowerIsTold
  <2>3. ASSUME NEW q \in DOMAIN watchers', watchers'[q] \in present'
        PROVE  told'[q] <=> IsOn(watchers[q])'
    <3>1. CASE q = p
      <4>1. told'[q] = b /\ watchers'[q] = o BY <1>2, <3>1
      <4>2. IsOn(watchers[q])' <=> IsOn(o) BY <1>1, <4>1 DEF IsOn
      <4> QED BY ONLY <1>0, <4>1, <4>2, Zenon
    <3>2. CASE q # p
      <4>1. /\ told'[q] = told[q] /\ watchers'[q] = watchers[q] /\ q \in DOMAIN watchers
            /\ watchers[q] \in present
        BY <1>1, <1>2, <2>3, <3>2 DEF OcTypeOK
      <4>2. told[q] <=> IsOn(watchers[q]) BY <4>1, Zenon DEF PowerIsTold
      <4>3. IsOn(watchers[q])' <=> IsOn(watchers[q]) BY <1>1, <4>1 DEF IsOn
      <4> QED BY ONLY <4>1, <4>2, <4>3, Zenon
    <3> QED BY <3>1, <3>2
  <2> QED BY ONLY <2>2, <2>3, Zenon DEF PowerIsTold
<1> QED BY <1>1, <1>4, <1>5, <1>6, GammaStays

\* Whoever sets the power of the lights in S to `on` and tells those who watch one
\* leaves everyone told.
LEMMA SetAndTold ==
  ASSUME OcInv, NEW S \in SUBSET present, NEW on \in BOOLEAN,
         dark' = (IF on THEN dark \ S ELSE dark \cup S),
         power' = Overlaid(power, [o \in S |-> on]),
         told' = [p \in DOMAIN told |-> IF p \in DOMAIN watchers /\ watchers[p] \in S THEN on ELSE told[p]],
         UNCHANGED <<present, watchers, gammaVars>>
  PROVE  OcInv'
<1> USE DEF OcInv, ControlsAgree
<1>1. /\ DOMAIN power' = DOMAIN power \cup S
      /\ \A o \in S : power'[o] = on
      /\ \A o \in DOMAIN power \ S : power'[o] = power[o]
  <2> DEFINE g == [o \in S |-> on]
  <2>1. DOMAIN g = S /\ \A o \in S : g[o] = on OBVIOUS
  <2> HIDE DEF g
  <2>2. power' = Overlaid(power, g) BY DEF g
  <2>3. power' = [x \in DOMAIN power \cup S |-> IF x \in S THEN g[x] ELSE power[x]]
    BY <2>1, <2>2 DEF Overlaid
  <2> QED BY ONLY <2>1, <2>3
<1>2. OcTypeOK' BY DEF OcTypeOK, gammaVars
<1>3. OcTyped' BY <1>1 DEF OcTyped, gammaVars
<1>4. \A o : IsOn(o)' <=> (IF o \in S THEN on ELSE IsOn(o))
  <2> SUFFICES ASSUME NEW o PROVE IsOn(o)' <=> (IF o \in S THEN on ELSE IsOn(o))
    OBVIOUS
  <2>1. CASE o \in S BY <1>1, <2>1 DEF IsOn
  <2>2. CASE o \notin S BY <1>1, <2>2 DEF IsOn
  <2> QED BY <2>1, <2>2
<1>5. PowerIsTold'
  <2>1. ASSUME NEW o \in present' PROVE IsOn(o)' <=> o \notin dark'
    <3>1. o \in present /\ (IsOn(o) <=> o \notin dark) BY DEF PowerIsTold
    <3> QED BY <1>4, <3>1
  <2>2. ASSUME NEW p \in DOMAIN watchers', watchers'[p] \in present'
        PROVE  told'[p] <=> IsOn(watchers[p])'
    <3>1. /\ p \in DOMAIN told /\ (told[p] <=> IsOn(watchers[p]))
          /\ watchers'[p] = watchers[p] /\ p \in DOMAIN watchers
      BY <2>2 DEF PowerIsTold, OcTypeOK
    <3>2. told'[p] = IF watchers[p] \in S THEN on ELSE told[p] BY <3>1
    <3>3. CASE watchers[p] \in S
      <4>1. told'[p] = on BY <3>2, <3>3
      <4>2. IsOn(watchers[p])' <=> on BY <1>4, <3>1, <3>3 DEF IsOn
      <4> QED BY ONLY <3>1, <4>1, <4>2, Zenon
    <3>4. CASE watchers[p] \notin S
      <4>1. told'[p] = told[p] BY <3>2, <3>4
      <4>2. IsOn(watchers[p])' <=> IsOn(watchers[p]) BY <1>4, <3>1, <3>4 DEF IsOn
      <4> QED BY ONLY <3>1, <4>1, <4>2, Zenon
    <3> QED BY <3>3, <3>4
  <2> QED BY ONLY <2>1, <2>2, Zenon DEF PowerIsTold
<1> QED BY <1>2, <1>3, <1>5, GammaStays

LEMMA SetModeKeeps ==
  ASSUME OcInv, NEW p \in PowerObjects, NEW on \in BOOLEAN, SetMode(p, on)
  PROVE  OcInv'
<1>1. CASE /\ watchers[p] \in present /\ SetPower(watchers[p], on)
           /\ dark' = IF on THEN dark \ {watchers[p]} ELSE dark \cup {watchers[p]}
  <2> DEFINE S == {watchers[p]}
             lit == [o \in S |-> on]
  <2>1. Entered(power, watchers[p], on) = Overlaid(power, lit)
    <3>1. DOMAIN lit = {watchers[p]} /\ lit[watchers[p]] = on OBVIOUS
    <3> HIDE DEF lit
    <3>2. Overlaid(power, lit) =
            [x \in DOMAIN power \cup {watchers[p]} |-> IF x \in {watchers[p]} THEN lit[x] ELSE power[x]]
      BY <3>1 DEF Overlaid
    <3>3. \A x \in DOMAIN power \cup {watchers[p]} :
            (IF x = watchers[p] THEN on ELSE power[x])
              = (IF x \in {watchers[p]} THEN lit[x] ELSE power[x])
      BY <3>1
    <3> QED BY ONLY <3>2, <3>3, Zenon DEF Entered
  <2>2. told' = [q \in DOMAIN told |-> IF q \in DOMAIN watchers /\ watchers[q] \in S THEN on ELSE told[q]]
    BY <1>1 DEF SetPower, Tell
  <2>3. power' = Overlaid(power, [o \in S |-> on]) BY <1>1, <2>1 DEF SetPower
  <2>4. UNCHANGED <<present, watchers, gammaVars>> BY DEF SetMode
  <2>5. S \in SUBSET present /\ dark' = IF on THEN dark \ S ELSE dark \cup S BY <1>1
  <2> HIDE DEF S
  <2> QED BY <2>2, <2>3, <2>4, <2>5, SetAndTold
<1>2. CASE UNCHANGED <<dark, power, told>>
  <2> USE DEF OcInv, ControlsAgree
  <2>1. UNCHANGED <<present, watchers, gammaVars, powerVars>> BY <1>2 DEF SetMode, powerVars
  <2>2. OcTypeOK' /\ OcTyped' BY <2>1 DEF OcTypeOK, OcTyped, gammaVars, powerVars
  <2> QED BY <2>1, <2>2, GammaStays, PowerStays
<1> QED BY <1>1, <1>2 DEF SetMode

LEMMA DestroyPowerKeeps ==
  ASSUME OcInv, NEW p \in PowerObjects, DestroyPower(p)
  PROVE  OcInv'
<1> USE DEF OcInv, ControlsAgree
<1>1. /\ watchers' = Without(watchers, {p}) /\ told' = Without(told, {p})
      /\ UNCHANGED <<present, dark, power, gammaVars>>
  BY DEF DestroyPower
<1>2. /\ DOMAIN watchers' = DOMAIN watchers \ {p} /\ DOMAIN told' = DOMAIN told \ {p}
      /\ \A q \in DOMAIN watchers' : watchers'[q] = watchers[q]
      /\ \A q \in DOMAIN told' : told'[q] = told[q]
  BY <1>1 DEF Without, Restrict
<1>3. OcTypeOK' /\ OcTyped' BY <1>1, <1>2 DEF OcTypeOK, OcTyped, gammaVars
<1>4. PowerIsTold'
  <2>1. \A o \in present' : IsOn(o)' <=> o \notin dark' BY <1>1 DEF PowerIsTold, IsOn
  <2>2. ASSUME NEW q \in DOMAIN watchers', watchers'[q] \in present'
        PROVE  told'[q] <=> IsOn(watchers[q])'
    <3>1. /\ q \in DOMAIN watchers /\ watchers[q] \in present /\ told'[q] = told[q]
          /\ watchers'[q] = watchers[q] /\ power' = power
      BY <1>1, <1>2, <2>2 DEF OcTypeOK
    <3>2. told[q] <=> IsOn(watchers[q]) BY <3>1, Zenon DEF PowerIsTold
    <3>3. IsOn(watchers[q])' <=> IsOn(watchers[q]) BY <3>1 DEF IsOn
    <3> QED BY ONLY <3>1, <3>2, <3>3, Zenon
  <2> QED BY ONLY <2>1, <2>2, Zenon DEF PowerIsTold
<1> QED BY <1>1, <1>3, <1>4, GammaStays

LEMMA ToggleDpmsKeeps ==
  ASSUME OcInv, NEW stuck \in SUBSET present, ToggleDpms(stuck)
  PROVE  OcInv'
<1> DEFINE on == ~ \E o \in present : IsOn(o)
<1>1. on \in BOOLEAN OBVIOUS
<1>2. PICK b \in BOOLEAN : b = on BY ONLY <1>1, Zenon
<1> DEFINE moved == IF b THEN present ELSE present \ stuck
<1>3. /\ dark' = IF b THEN dark \ moved ELSE dark \cup moved
      /\ power' = Overlaid(power, [o \in moved |-> b])
      /\ told' = [p \in DOMAIN told |-> IF p \in DOMAIN watchers /\ watchers[p] \in moved THEN b ELSE told[p]]
      /\ UNCHANGED <<present, watchers, gammaVars>>
  BY <1>2, Zenon DEF ToggleDpms
<1>4. moved \in SUBSET present OBVIOUS
<1> HIDE DEF on, moved
<1> QED BY <1>3, <1>4, SetAndTold

LEMMA ActivateSessionKeeps ==
  ASSUME OcInv, ActivateSession
  PROVE  OcInv'
<1> DEFINE woken == {o \in present : o \in DOMAIN power /\ ~power[o]}
<1>1. /\ dark' = dark \ present /\ power' = Overlaid(power, [o \in present |-> TRUE])
      /\ told' = [p \in DOMAIN told |-> IF p \in DOMAIN watchers /\ watchers[p] \in woken THEN TRUE ELSE told[p]]
      /\ UNCHANGED <<present, watchers, gammaVars>>
  BY DEF ActivateSession
<1>2. ASSUME NEW p \in DOMAIN told
      PROVE  (IF p \in DOMAIN watchers /\ watchers[p] \in woken THEN TRUE ELSE told[p])
               = (IF p \in DOMAIN watchers /\ watchers[p] \in present THEN TRUE ELSE told[p])
  <2>1. CASE p \in DOMAIN watchers /\ watchers[p] \in present /\ watchers[p] \notin woken
    <3>1. IsOn(watchers[p]) BY <2>1 DEF IsOn
    <3>2. told[p] <=> IsOn(watchers[p])
      BY <2>1, Zenon DEF OcInv, ControlsAgree, PowerIsTold
    <3>3. told[p] \in BOOLEAN BY DEF OcInv, OcTyped
    <3>4. told[p] = TRUE BY ONLY <3>1, <3>2, <3>3, Zenon
    <3> QED BY <2>1, <3>4
  <2>2. CASE ~(p \in DOMAIN watchers /\ watchers[p] \in present /\ watchers[p] \notin woken)
    BY <2>2
  <2> QED BY <2>1, <2>2
<1> HIDE DEF woken
<1>3. told' = [p \in DOMAIN told |-> IF p \in DOMAIN watchers /\ watchers[p] \in present THEN TRUE ELSE told[p]]
  BY ONLY <1>1, <1>2, Zenon
<1>4. dark' = IF TRUE THEN dark \ present ELSE dark \cup present BY <1>1
<1>5. TRUE \in BOOLEAN /\ present \in SUBSET present OBVIOUS
<1> QED BY <1>1, <1>3, <1>4, <1>5, SetAndTold

LEMMA GetGammaControlKeeps ==
  ASSUME OcInv, NEW g \in GammaObjects, NEW o \in Lights, GetGammaControl(g, o)
  PROVE  OcInv'
<1> USE DEF OcInv, ControlsAgree
<1>1. g \notin gammas /\ gammas' = gammas \cup {g} /\ UNCHANGED <<present, ramp, refused, powerVars>>
  BY DEF GetGammaControl
<1>2. PowerIsTold' BY <1>1, PowerStays
<1>3. CASE o \in present
  <2>1. owner' = [owner EXCEPT ![o] = g] /\ valid' = Entered(Without(valid, {owner[o]}), g, o)
    BY <1>3 DEF GetGammaControl, FailControl
  <2>2. /\ DOMAIN valid' = (DOMAIN valid \ {owner[o]}) \cup {g} /\ valid'[g] = o
        /\ \A h \in DOMAIN valid' : h # g => valid'[h] = valid[h]
    BY <2>1 DEF Entered, Without, Restrict
  <2>3. g # NoControl /\ g \notin DOMAIN valid
    BY <1>1, OutputControlsAssumption DEF OcTypeOK
  <2>4. OcTypeOK' BY <1>1, <2>1, <2>2 DEF OcTypeOK, powerVars
  <2>5. OcTyped' BY <1>1, <2>2 DEF OcTyped, powerVars
  <2>6. owner'[o] = g /\ \A q \in Lights : q # o => owner'[q] = owner[q]
    BY <2>1 DEF OcTypeOK
  <2>7. ASSUME NEW q \in Lights PROVE {h \in DOMAIN valid' : valid'[h] = q} = {owner'[q]} \ {NoControl}
    <3>1. /\ {h \in DOMAIN valid : valid[h] = q} = {owner[q]} \ {NoControl}
          /\ {h \in DOMAIN valid : valid[h] = o} = {owner[o]} \ {NoControl}
      BY DEF OneGammaControl
    <3>2. CASE q = o BY <2>2, <2>3, <2>6, <3>1, <3>2
    <3>3. CASE q # o BY <2>2, <2>3, <2>6, <3>1, <3>3
    <3> QED BY <3>2, <3>3
  <2>8. RampEndsWithControl' BY <1>1, <2>3, <2>6 DEF RampEndsWithControl, OcTypeOK
  <2> QED BY <1>2, <2>4, <2>5, <2>7, <2>8 DEF OneGammaControl
<1>4. CASE o \notin present
  <2>1. UNCHANGED <<owner, valid>> BY <1>4 DEF GetGammaControl
  <2>2. OcTypeOK' /\ OcTyped' BY <1>1, <2>1 DEF OcTypeOK, OcTyped, powerVars
  <2>3. OneGammaControl' /\ RampEndsWithControl'
    BY <1>1, <2>1 DEF OneGammaControl, RampEndsWithControl
  <2> QED BY <1>2, <2>2, <2>3
<1> QED BY <1>3, <1>4

\* A control that ends gives its output up where it still owned it.
LEMMA ControlEnds ==
  ASSUME OcInv, NEW g \in GammaObjects, valid' = FailControl({g}),
         IF g \in DOMAIN valid THEN owner' = Released(g, valid[g]) ELSE owner' = owner
  PROVE  /\ owner' \in [Lights -> GammaObjects \cup {NoControl}]
         /\ DOMAIN valid' = DOMAIN valid \ {g} /\ \A h \in DOMAIN valid' : valid'[h] = valid[h]
         /\ OneGammaControl'
         /\ \A o \in Lights : owner'[o] = owner[o] \/ (g \in DOMAIN valid /\ o = valid[g] /\ owner[o] = g)
<1> USE DEF OcInv, ControlsAgree
<1>1. DOMAIN valid' = DOMAIN valid \ {g} /\ \A h \in DOMAIN valid' : valid'[h] = valid[h]
  BY DEF FailControl, Without, Restrict
<1>2. g # NoControl BY OutputControlsAssumption
<1>3. CASE g \notin DOMAIN valid
  BY <1>1, <1>3 DEF OneGammaControl, OcTypeOK
<1>4. CASE g \in DOMAIN valid
  <2>1. valid[g] \in Lights BY <1>4 DEF OcTyped
  <2>2. {h \in DOMAIN valid : valid[h] = valid[g]} = {owner[valid[g]]} \ {NoControl}
    BY <2>1 DEF OneGammaControl
  <2>3. owner[valid[g]] = g BY <1>4, <2>2
  <2>4. owner' = [owner EXCEPT ![valid[g]] = NoControl] BY <1>4, <2>3 DEF Released
  <2>5. \A q \in Lights : owner'[q] = IF q = valid[g] THEN NoControl ELSE owner[q]
    BY <2>1, <2>4 DEF OcTypeOK
  <2>6. owner' \in [Lights -> GammaObjects \cup {NoControl}] BY <2>4 DEF OcTypeOK
  <2>7. ASSUME NEW q \in Lights PROVE {h \in DOMAIN valid' : valid'[h] = q} = {owner'[q]} \ {NoControl}
    <3>1. {h \in DOMAIN valid : valid[h] = q} = {owner[q]} \ {NoControl} BY DEF OneGammaControl
    <3>2. CASE q = valid[g] BY <1>1, <2>3, <2>5, <3>1, <3>2
    <3>3. CASE q # valid[g] BY <1>1, <2>5, <3>1, <3>3
    <3> QED BY <3>2, <3>3
  <2> QED BY <1>1, <1>4, <2>3, <2>5, <2>6, <2>7 DEF OneGammaControl
<1> QED BY <1>3, <1>4

\* The hook that sets a ramp, or that the hardware refuses
LEMMA RampKeeps ==
  ASSUME OcInv, NEW o \in Lights, NEW value \in GammaObjects \cup {NoControl}, NEW ok \in BOOLEAN,
         Ramp(o, value, ok)
  PROVE  /\ ramp' \in [Lights -> GammaObjects \cup {NoControl}]
         /\ \A q \in Lights : q # o => ramp'[q] = ramp[q] /\ (q \in refused' <=> q \in refused)
         /\ ok => ramp'[o] = value
         /\ ~ok => o \in refused'
<1>1. ramp \in [Lights -> GammaObjects \cup {NoControl}] BY DEF OcInv, OcTyped
<1>2. CASE ok BY <1>1, <1>2 DEF Ramp
<1>3. CASE ~ok BY <1>1, <1>3 DEF Ramp
<1> QED BY <1>2, <1>3

LEMMA SetGammaKeeps ==
  ASSUME OcInv, NEW g \in GammaObjects, NEW ok \in BOOLEAN, SetGamma(g, ok)
  PROVE  OcInv'
<1> USE DEF OcInv, ControlsAgree
<1>1. /\ g \in DOMAIN valid /\ Ramp(valid[g], g, ok) /\ UNCHANGED <<present, gammas, powerVars>>
      /\ owner' = IF ok THEN owner ELSE Released(g, valid[g])
      /\ valid' = IF ok THEN valid ELSE FailControl({g})
  BY DEF SetGamma
<1>2. valid[g] \in Lights /\ owner[valid[g]] = g
  <2>1. valid[g] \in Lights BY <1>1 DEF OcTyped
  <2>2. g \in {h \in DOMAIN valid : valid[h] = valid[g]} BY <1>1
  <2> QED BY <2>1, <2>2 DEF OneGammaControl
<1>3. /\ ramp' \in [Lights -> GammaObjects \cup {NoControl}]
      /\ \A q \in Lights : q # valid[g] => ramp'[q] = ramp[q] /\ (q \in refused' <=> q \in refused)
      /\ ok => ramp'[valid[g]] = g
      /\ ~ok => valid[g] \in refused'
  BY <1>1, <1>2, RampKeeps
<1>4. PowerIsTold' BY <1>1, PowerStays
<1>5. CASE ok
  <2>1. UNCHANGED <<owner, valid>> BY <1>1, <1>5
  <2>2. OcTypeOK' /\ OcTyped' BY <1>1, <1>3, <2>1 DEF OcTypeOK, OcTyped, powerVars
  <2>3. OneGammaControl' BY <2>1 DEF OneGammaControl
  <2>4. g # NoControl BY OutputControlsAssumption
  <2>5. RampEndsWithControl'
    BY <1>1, <1>2, <1>3, <2>1, <2>4 DEF RampEndsWithControl, OcTypeOK
  <2> QED BY <1>4, <2>2, <2>3, <2>5
<1>6. CASE ~ok
  <2>1. /\ owner' \in [Lights -> GammaObjects \cup {NoControl}]
        /\ DOMAIN valid' = DOMAIN valid \ {g} /\ \A h \in DOMAIN valid' : valid'[h] = valid[h]
        /\ OneGammaControl'
        /\ \A o \in Lights : owner'[o] = owner[o] \/ (g \in DOMAIN valid /\ o = valid[g] /\ owner[o] = g)
    BY <1>1, <1>6, ControlEnds
  <2>2. OcTypeOK' /\ OcTyped' BY <1>1, <1>3, <2>1 DEF OcTypeOK, OcTyped, powerVars
  <2>3. RampEndsWithControl'
    BY <1>1, <1>2, <1>3, <1>6, <2>1 DEF RampEndsWithControl, OcTypeOK
  <2> QED BY <1>4, <2>1, <2>2, <2>3
<1> QED BY <1>5, <1>6

LEMMA DestroyGammaKeeps ==
  ASSUME OcInv, NEW g \in GammaObjects, NEW ok \in BOOLEAN, DestroyGamma(g, ok)
  PROVE  OcInv'
<1> USE DEF OcInv, ControlsAgree
<1>1. /\ gammas' = gammas \ {g} /\ valid' = FailControl({g}) /\ UNCHANGED <<present, powerVars>>
  BY DEF DestroyGamma
<1>2. PowerIsTold' BY <1>1, PowerStays
<1>3. CASE g \in DOMAIN valid /\ owner[valid[g]] = g
  <2>1. owner' = Released(g, valid[g]) /\ Ramp(valid[g], NoControl, ok)
    BY <1>3 DEF DestroyGamma
  <2>2. valid[g] \in Lights BY <1>3 DEF OcTyped
  <2>3. /\ owner' \in [Lights -> GammaObjects \cup {NoControl}]
        /\ DOMAIN valid' = DOMAIN valid \ {g} /\ \A h \in DOMAIN valid' : valid'[h] = valid[h]
        /\ OneGammaControl'
        /\ \A o \in Lights : owner'[o] = owner[o] \/ (g \in DOMAIN valid /\ o = valid[g] /\ owner[o] = g)
    BY <1>1, <1>3, <2>1, ControlEnds
  <2>4. /\ ramp' \in [Lights -> GammaObjects \cup {NoControl}]
        /\ \A q \in Lights : q # valid[g] => ramp'[q] = ramp[q] /\ (q \in refused' <=> q \in refused)
        /\ ok => ramp'[valid[g]] = NoControl
        /\ ~ok => valid[g] \in refused'
    BY <2>1, <2>2, RampKeeps
  <2>5. OcTypeOK' /\ OcTyped' BY <1>1, <2>3, <2>4 DEF OcTypeOK, OcTyped, powerVars
  <2>6. RampEndsWithControl'
    BY <1>1, <2>2, <2>3, <2>4 DEF RampEndsWithControl, OcTypeOK
  <2> QED BY <1>2, <2>3, <2>5, <2>6
<1>4. CASE ~(g \in DOMAIN valid /\ owner[valid[g]] = g)
  <2>1. UNCHANGED <<owner, ramp, refused>> BY <1>4 DEF DestroyGamma
  <2>2. g \notin DOMAIN valid
    <3> SUFFICES ASSUME g \in DOMAIN valid PROVE FALSE
      OBVIOUS
    <3>1. valid[g] \in Lights BY DEF OcTyped
    <3>2. g \in {h \in DOMAIN valid : valid[h] = valid[g]} OBVIOUS
    <3> QED BY <1>4, <3>1, <3>2 DEF OneGammaControl
  <2>3. /\ DOMAIN valid' = DOMAIN valid \ {g} /\ \A h \in DOMAIN valid' : valid'[h] = valid[h]
        /\ OneGammaControl'
    BY <1>1, <2>1, <2>2, ControlEnds
  <2>4. OcTypeOK' /\ OcTyped' BY <1>1, <2>1, <2>2, <2>3 DEF OcTypeOK, OcTyped, powerVars
  <2>5. RampEndsWithControl' BY <1>1, <2>1 DEF RampEndsWithControl
  <2> QED BY <1>2, <2>3, <2>4, <2>5
<1> QED BY <1>3, <1>4

LEMMA UnplugLightKeeps ==
  ASSUME OcInv, NEW o \in Lights, Unplug(o)
  PROVE  OcInv'
<1> USE DEF OcInv, ControlsAgree
<1> DEFINE gone == {p \in DOMAIN watchers : watchers[p] = o}
<1>1. /\ o \in present /\ present' = present \ {o} /\ dark' = dark \ {o} /\ power' = Without(power, {o})
      /\ watchers' = Without(watchers, gone) /\ told' = Without(told, gone)
      /\ owner' = [owner EXCEPT ![o] = NoControl] /\ valid' = Without(valid, {owner[o]})
      /\ UNCHANGED <<gammas, ramp, refused>>
  BY DEF Unplug, FailControl
<1>2. /\ DOMAIN power' = DOMAIN power \ {o} /\ \A q \in DOMAIN power' : power'[q] = power[q]
      /\ DOMAIN watchers' = DOMAIN watchers \ gone /\ \A p \in DOMAIN watchers' : watchers'[p] = watchers[p]
      /\ DOMAIN told' = DOMAIN told \ gone /\ \A p \in DOMAIN told' : told'[p] = told[p]
      /\ DOMAIN valid' = DOMAIN valid \ {owner[o]} /\ \A h \in DOMAIN valid' : valid'[h] = valid[h]
  BY <1>1 DEF Without, Restrict
<1>3. \A q \in Lights : owner'[q] = IF q = o THEN NoControl ELSE owner[q]
  BY <1>1 DEF OcTypeOK
<1>4. OcTypeOK' BY <1>1, <1>2 DEF OcTypeOK
<1>5. OcTyped' BY <1>1, <1>2 DEF OcTyped
<1>6. \A q : q # o => (IsOn(q)' <=> IsOn(q)) BY <1>2 DEF IsOn
<1>7. PowerIsTold'
  <2>1. \A q \in present' : IsOn(q)' <=> q \notin dark' BY <1>1, <1>6 DEF PowerIsTold
  <2>2. ASSUME NEW p \in DOMAIN watchers', watchers'[p] \in present'
        PROVE  told'[p] <=> IsOn(watchers[p])'
    <3>1. /\ p \in DOMAIN watchers /\ watchers[p] \in present /\ watchers[p] # o
          /\ told'[p] = told[p] /\ watchers'[p] = watchers[p]
      BY <1>1, <1>2, <2>2 DEF OcTypeOK
    <3>2. told[p] <=> IsOn(watchers[p]) BY <3>1, Zenon DEF PowerIsTold
    <3>3. IsOn(watchers[p])' <=> IsOn(watchers[p]) BY <1>2, <3>1 DEF IsOn
    <3> QED BY ONLY <3>1, <3>2, <3>3, Zenon
  <2> QED BY ONLY <2>1, <2>2, Zenon DEF PowerIsTold
<1>8. OneGammaControl'
  <2> SUFFICES ASSUME NEW q \in Lights
               PROVE  {h \in DOMAIN valid' : valid'[h] = q} = {owner'[q]} \ {NoControl}
    BY DEF OneGammaControl
  <2>1. /\ {h \in DOMAIN valid : valid[h] = q} = {owner[q]} \ {NoControl}
        /\ {h \in DOMAIN valid : valid[h] = o} = {owner[o]} \ {NoControl}
    BY DEF OneGammaControl
  <2>2. CASE q = o BY <1>2, <1>3, <2>1, <2>2
  <2>3. CASE q # o BY <1>2, <1>3, <2>1, <2>3
  <2> QED BY <2>2, <2>3
<1>9. RampEndsWithControl' BY <1>1, <1>3 DEF RampEndsWithControl, OcTypeOK
<1> QED BY <1>4, <1>5, <1>7, <1>8, <1>9

LEMMA OcStep == OcInv /\ [OcNext]_ocVars => OcInv'
<1> SUFFICES ASSUME OcInv, [OcNext]_ocVars PROVE OcInv'
  OBVIOUS
<1>1. CASE UNCHANGED ocVars
  <2>1. UNCHANGED <<present, powerVars, gammaVars>> BY <1>1 DEF ocVars, powerVars, gammaVars
  <2>2. OcTypeOK' /\ OcTyped'
    BY <2>1 DEF OcInv, ControlsAgree, OcTypeOK, OcTyped, powerVars, gammaVars
  <2> QED BY <2>1, <2>2, PowerStays, GammaStays DEF OcInv, ControlsAgree
<1> QED
  BY <1>1, GetOutputPowerKeeps, SetModeKeeps, DestroyPowerKeeps, ToggleDpmsKeeps,
     ActivateSessionKeeps, GetGammaControlKeeps, SetGammaKeeps, DestroyGammaKeeps, UnplugLightKeeps
  DEF OcNext

-----------------------------------------------------------------------------
(* Configurations of the desktop *)

ConfigRecord(k) ==
  /\ DOMAIN k = {"owner", "created", "used", "ops", "against"}
  /\ k.owner \in Managers /\ k.created \in Int /\ k.used \in BOOLEAN
  /\ \A o \in DOMAIN k.ops : k.ops[o] \in HeadOp

RectRecords(f) == \A o \in DOMAIN f : f[o] \in [loc : Int, size : Int]

OmTyped == RectRecords(rects) /\ \A c \in DOMAIN configs : ConfigRecord(configs[c])

\* A configuration that quotes the current serial was written against the
\* desktop as it stands.
Quoted ==
  \A c \in DOMAIN configs :
    /\ configs[c].created <= serial
    /\ configs[c].created = serial => configs[c].against = rects

OmInv == DesktopAgreed /\ OmTyped /\ Quoted

LEMMA LeastOf ==
  ASSUME NEW S \in SUBSET Int, S # {}, NEW b \in Int, \A x \in S : b <= x
  PROVE  Min(S) \in S /\ \A x \in S : Min(S) <= x
<1> DEFINE N == {n \in Nat : b + n \in S}
<1>1. N \in SUBSET Nat /\ N # {}
  <2>1. PICK x \in S : TRUE OBVIOUS
  <2>2. x - b \in N BY <2>1
  <2> QED BY <2>2
<1>2. \E d \in N : \A e \in N : ~ (<<e, d>> \in OpToRel(<, Nat))
  <2> HIDE DEF N
  <2> QED BY <1>1, NatLessThanWellFounded, WFMin
<1>3. PICK d \in N : \A e \in N : ~ (e < d)
  <2> HIDE DEF N
  <2> QED BY <1>1, <1>2, Zenon DEF OpToRel
<1>4. b + d \in S /\ \A x \in S : b + d <= x
  <2>1. ASSUME NEW x \in S PROVE b + d <= x
    <3>1. x - b \in N BY <2>1
    <3> QED BY <1>3, <3>1
  <2> QED BY <2>1
<1>5. \E x \in S : \A y \in S : x <= y BY <1>4
<1> QED BY ONLY <1>5 DEF Min

LEMMA GreatestOf ==
  ASSUME NEW S \in SUBSET Int, S # {}, NEW b \in Int, \A x \in S : x <= b
  PROVE  Max(S) \in S /\ \A x \in S : x <= Max(S)
<1> DEFINE N == {n \in Nat : b - n \in S}
<1>1. N \in SUBSET Nat /\ N # {}
  <2>1. PICK x \in S : TRUE OBVIOUS
  <2>2. b - x \in N BY <2>1
  <2> QED BY <2>2
<1>2. \E d \in N : \A e \in N : ~ (<<e, d>> \in OpToRel(<, Nat))
  <2> HIDE DEF N
  <2> QED BY <1>1, NatLessThanWellFounded, WFMin
<1>3. PICK d \in N : \A e \in N : ~ (e < d)
  <2> HIDE DEF N
  <2> QED BY <1>1, <1>2, Zenon DEF OpToRel
<1>4. b - d \in S /\ \A x \in S : x <= b - d
  <2>1. ASSUME NEW x \in S PROVE x <= b - d
    <3>1. b - x \in N BY <2>1
    <3>2. x \in Int /\ d \in Int /\ ~ (b - x < d) BY <1>3, <3>1
    <3> QED BY ONLY b \in Int, <3>2
  <2>2. b - d \in S BY <1>3
  <2> QED BY <2>1, <2>2
<1>5. \E x \in S : \A y \in S : y <= x BY <1>4
<1> QED BY ONLY <1>5 DEF Max

\* The right edge, and the left one where nothing else fits.
LEMMA EdgesOf ==
  ASSUME RectRecords(rects), ValidDesktop(rects), DOMAIN rects # {}
  PROVE  /\ Max({Right(r) : r \in Range(rects)}) \in Int
         /\ \E o \in DOMAIN rects : Min({r.loc : r \in Range(rects)}) = rects[o].loc
         /\ \A o \in DOMAIN rects : Min({r.loc : r \in Range(rects)}) <= rects[o].loc
<1> DEFINE rights == {Right(r) : r \in Range(rects)}
           lefts == {r.loc : r \in Range(rects)}
<1>0. CoordMax \in Int BY OutputCoordAssumption
<1>1. rights \in SUBSET Int /\ lefts \in SUBSET Int BY DEF RectRecords, Range, Right
<1>2. PICK q \in DOMAIN rects : TRUE OBVIOUS
<1>3. Right(rects[q]) \in rights /\ rects[q].loc \in lefts BY <1>2 DEF Range
<1>4. \A x \in rights : x <= CoordMax BY DEF ValidDesktop, Range
<1>5. \A x \in lefts : Right(rects[q]) - CoordMax <= x
  <2> SUFFICES ASSUME NEW o \in DOMAIN rects PROVE Right(rects[q]) - CoordMax <= rects[o].loc
    BY DEF Range
  <2>1. Right(rects[q]) - rects[o].loc <= CoordMax BY <1>2 DEF ValidDesktop
  <2>2. Right(rects[q]) \in Int /\ rects[o].loc \in Int BY <1>2 DEF RectRecords, Right
  <2> QED BY <1>0, <2>1, <2>2
<1>6. Right(rects[q]) - CoordMax \in Int BY <1>0, <1>1, <1>3
<1>7. \A o \in DOMAIN rects : rects[o].loc \in lefts BY DEF Range
<1>8. \A x \in lefts : \E o \in DOMAIN rects : x = rects[o].loc BY DEF Range
<1> HIDE DEF rights, lefts
<1>9. Max(rights) \in rights BY <1>0, <1>1, <1>3, <1>4, GreatestOf
<1>10. Min(lefts) \in lefts /\ \A x \in lefts : Min(lefts) <= x
  BY <1>1, <1>3, <1>5, <1>6, LeastOf
<1>11. Max(rights) \in Int BY <1>1, <1>9
<1>12. /\ \E o \in DOMAIN rects : Min(lefts) = rects[o].loc
       /\ \A o \in DOMAIN rects : Min(lefts) <= rects[o].loc
  BY <1>7, <1>8, <1>10
<1> QED BY <1>11, <1>12 DEF rights, lefts

\* Wherever a new output is placed, the desktop stays in its domain.
LEMMA ResolvedFits ==
  ASSUME RectRecords(rects), ValidDesktop(rects), NEW o, o \notin DOMAIN rects,
         NEW requested \in Optional(Positions), NEW size \in Sizes
  PROVE  /\ ResolvedPosition(o, requested, size) \in Int
         /\ ValidDesktop(Entered(rects, o, Rect(ResolvedPosition(o, requested, size), size)))
<1> DEFINE fits(p) == ValidDesktop(Entered(rects, o, Rect(p, size)))
           rights == {Right(r) : r \in Range(rects)}
           lefts == {r.loc : r \in Range(rects)}
           right == IF rights = {} THEN 0 ELSE Max(rights)
           left == IF lefts = {} THEN 0 ELSE Min(lefts)
           floor == Min({left, CoordMax - size})
<1>1. ResolvedPosition(o, requested, size)
        = IF ~requested.keep /\ fits(requested.to) THEN requested.to
          ELSE IF right <= CoordMax /\ fits(right) THEN right ELSE floor
  BY DEF ResolvedPosition
<1>2. CoordMax \in Int /\ size \in Int /\ 1 <= size /\ size <= CoordMax
  BY OutputCoordAssumption
<1>3. ~requested.keep => requested.to \in Int
  BY OutputCoordAssumption DEF Optional, Keep, Put
<1>4. /\ right \in Int /\ left \in Int
      /\ \A q \in DOMAIN rects : left <= rects[q].loc
      /\ (left = 0 /\ DOMAIN rects = {}) \/ \E q \in DOMAIN rects : left = rects[q].loc
  <2>1. CASE DOMAIN rects = {}
    <3>1. rights = {} /\ lefts = {} BY <2>1 DEF Range
    <3> QED BY <2>1, <3>1
  <2>2. CASE DOMAIN rects # {}
    <3>1. rights # {} /\ lefts # {} BY <2>2 DEF Range
    <3>2. right = Max(rights) /\ left = Min(lefts) BY <3>1
    <3>3. /\ Max(rights) \in Int
          /\ \E q \in DOMAIN rects : Min(lefts) = rects[q].loc
          /\ \A q \in DOMAIN rects : Min(lefts) <= rects[q].loc
      BY <2>2, EdgesOf
    <3>4. \A q \in DOMAIN rects : rects[q].loc \in Int BY DEF RectRecords
    <3> HIDE DEF rights, lefts, right, left
    <3> QED BY <3>2, <3>3, <3>4
  <2> QED BY <2>1, <2>2
<1> HIDE DEF rights, lefts, right, left
<1>5. floor \in Int /\ floor <= left /\ floor <= CoordMax - size /\ (floor = left \/ floor = CoordMax - size)
  <2>1. {left, CoordMax - size} \in SUBSET Int /\ {left, CoordMax - size} # {} BY <1>2, <1>4
  <2>2. \E b \in Int : b <= left /\ b <= CoordMax - size
    <3>1. CASE left <= CoordMax - size BY <1>2, <1>4, <3>1
    <3>2. CASE ~(left <= CoordMax - size) BY <1>2, <1>4, <3>2
    <3> QED BY <3>1, <3>2
  <2>3. PICK b \in Int : b <= left /\ b <= CoordMax - size BY <2>2
  <2>4. \A x \in {left, CoordMax - size} : b <= x BY <2>3
  <2>5. floor \in {left, CoordMax - size} /\ \A x \in {left, CoordMax - size} : floor <= x
    BY <2>1, <2>4, LeastOf
  <2> QED BY <2>1, <2>5
<1> HIDE DEF floor
<1>6. fits(floor)
  <2> DEFINE g == Entered(rects, o, Rect(floor, size))
  <2>1. /\ DOMAIN g = DOMAIN rects \cup {o}
        /\ g[o] = Rect(floor, size)
        /\ \A q \in DOMAIN rects : g[q] = rects[q]
    BY DEF Entered
  <2>2. \A q \in DOMAIN rects : rects[q].loc \in Int /\ rects[q].size \in Int
    BY DEF RectRecords
  <2>3. /\ g[o].loc = floor /\ g[o].size = size /\ Right(g[o]) = floor + size
        /\ \A q \in DOMAIN rects : Right(rects[q]) = rects[q].loc + rects[q].size
    BY <2>1 DEF Right, Rect
  <2>4. /\ \A q \in DOMAIN rects : rects[q].size > 0 /\ Right(rects[q]) <= CoordMax
        /\ \A p, q \in DOMAIN rects : Right(rects[p]) - rects[q].loc <= CoordMax
    BY DEF ValidDesktop
  <2>5. \A q \in DOMAIN rects : Right(rects[q]) \in Int BY <2>2, <2>3
  <2> HIDE DEF g
  <2>6. \A q \in DOMAIN g : g[q].size > 0 /\ Right(g[q]) <= CoordMax
    BY <1>2, <1>5, <2>1, <2>3, <2>4
  <2>7. ASSUME NEW p \in DOMAIN g, NEW q \in DOMAIN g PROVE Right(g[p]) - g[q].loc <= CoordMax
    <3>1. CASE p = o /\ q = o BY <1>2, <1>5, <2>3, <3>1
    <3>2. CASE p = o /\ q # o
      <4>1. q \in DOMAIN rects /\ g[q].loc = rects[q].loc /\ rects[q].loc \in Int /\ left <= rects[q].loc
        BY <1>4, <2>1, <2>2, <3>2
      <4> QED BY <1>2, <1>4, <1>5, <2>3, <3>2, <4>1
    <3>3. CASE p # o /\ q = o
      <4>1. /\ p \in DOMAIN rects /\ Right(g[p]) = Right(rects[p]) /\ Right(rects[p]) \in Int
            /\ Right(rects[p]) <= CoordMax
        BY <2>1, <2>4, <2>5, <3>3
      <4>2. CASE floor = CoordMax - size BY <1>2, <2>3, <3>3, <4>1, <4>2
      <4>3. CASE floor = left
        <5>1. PICK r \in DOMAIN rects : left = rects[r].loc BY <1>4, <4>1
        <5>2. Right(rects[p]) - rects[r].loc <= CoordMax BY <2>4, <4>1, <5>1
        <5> QED BY <2>3, <3>3, <4>1, <4>3, <5>1, <5>2
      <4> QED BY <1>5, <4>2, <4>3
    <3>4. CASE p # o /\ q # o BY <2>1, <2>4, <3>4
    <3> QED BY <3>1, <3>2, <3>3, <3>4
  <2>8. ValidDesktop(g) BY <2>6, <2>7 DEF ValidDesktop
  <2> QED BY <2>8 DEF g
<1> QED
  <2>1. CASE ~requested.keep /\ fits(requested.to) BY <1>1, <1>3, <2>1
  <2>2. CASE ~(~requested.keep /\ fits(requested.to)) /\ right <= CoordMax /\ fits(right)
    BY <1>1, <1>4, <2>2
  <2>3. CASE ~(~requested.keep /\ fits(requested.to)) /\ ~(right <= CoordMax /\ fits(right))
    BY <1>1, <1>5, <1>6, <2>3
  <2> QED BY <2>1, <2>2, <2>3

LEMMA ProposedIs ==
  ASSUME OmInv, NEW changes, \A o \in DOMAIN changes : o \in DOMAIN rects /\ changes[o] \in OutputChange
  PROVE  /\ DOMAIN Proposed(changes) = DOMAIN changes
         /\ RectRecords(Proposed(changes))
<1>1. \A o \in DOMAIN rects : rects[o].loc \in Int /\ rects[o].size \in Int
  BY DEF OmInv, OmTyped, RectRecords
<1>2. Positions \subseteq Int /\ Sizes \subseteq Int BY OutputCoordAssumption
<1>3. ASSUME NEW o \in DOMAIN changes
      PROVE  /\ ~changes[o].position.keep => changes[o].position.to \in Int
             /\ ~changes[o].size.keep => changes[o].size.to \in Int
  <2>1. changes[o].position \in Optional(Positions) /\ changes[o].size \in Optional(Sizes)
    BY DEF OutputChange
  <2> QED BY <1>2, <2>1 DEF Optional, Keep, Put
<1>4. DOMAIN Proposed(changes) = DOMAIN changes BY DEF Proposed
<1>5. ASSUME NEW o \in DOMAIN changes PROVE Proposed(changes)[o] \in [loc : Int, size : Int]
  <2>1. o \in DOMAIN rects OBVIOUS
  <2> QED BY <1>1, <1>3, <2>1 DEF Proposed, Rect
<1> QED BY <1>4, <1>5 DEF RectRecords

\* A refresh for a desktop in the domain tells everyone; the configurations
\* that it leaves quote an older serial.
LEMMA RefreshKeeps ==
  ASSUME OmInv, NEW d, RectRecords(d), ValidDesktop(d), Refresh(d), DOMAIN d \subseteq plugged',
         plugged' \subseteq Outputs, DOMAIN configs' \subseteq Configs,
         \A c \in DOMAIN configs' : ConfigRecord(configs'[c]) /\ configs'[c].created <= serial
  PROVE  OmInv'
<1> USE DEF OmInv, DesktopAgreed
<1>1. /\ serial < MaxSerial /\ rects' = d /\ serial' = serial + 1
      /\ view' = [m \in DOMAIN view |-> d] /\ seen' = [m \in DOMAIN seen |-> serial + 1]
      /\ objects' = [m \in Managers |-> IF m \in DOMAIN view THEN objects[m] \cup DOMAIN d ELSE objects[m]]
  BY DEF Refresh
<1>2. MaxSerial \in Nat /\ serial \in 0..MaxSerial BY OutputCoordAssumption DEF OmTypeOK
<1>3. OmTypeOK' BY <1>1, <1>2 DEF OmTypeOK
<1>4. DesktopInDomain' BY <1>1 DEF DesktopInDomain, ValidDesktop, Right
<1>5. ClientsSeeTheDesktop' BY <1>1 DEF ClientsSeeTheDesktop, OmTypeOK
<1>6. OmTyped' BY <1>1 DEF OmTyped, RectRecords, ConfigRecord
<1>7. Quoted'
  <2> SUFFICES ASSUME NEW c \in DOMAIN configs'
               PROVE  configs'[c].created <= serial' /\ configs'[c].created # serial'
    BY DEF Quoted
  <2>1. configs'[c].created \in Int /\ configs'[c].created <= serial BY DEF ConfigRecord
  <2> QED BY <1>1, <1>2, <2>1
<1> QED BY <1>3, <1>4, <1>5, <1>6, <1>7

LEMMA ConnectKeeps ==
  ASSUME OmInv, NEW o \in Outputs, NEW requested \in Optional(Positions), NEW size \in Sizes,
         Connect(o, requested, size)
  PROVE  OmInv'
<1> USE DEF OmInv, DesktopAgreed
<1> DEFINE p == ResolvedPosition(o, requested, size)
           d == Entered(rects, o, Rect(p, size))
<1>1. Refresh(d) /\ plugged' = plugged \cup {o} /\ configs' = configs /\ o \notin DOMAIN rects
  BY DEF Connect, OmTypeOK
<1>2. RectRecords(rects) /\ ValidDesktop(rects) BY DEF OmTyped, DesktopInDomain
<1>3. p \in Int /\ ValidDesktop(d) BY <1>1, <1>2, ResolvedFits
<1>4. size \in Int BY OutputCoordAssumption
<1> HIDE DEF p
<1>5. DOMAIN d = DOMAIN rects \cup {o} /\ RectRecords(d)
  BY <1>2, <1>3, <1>4 DEF Entered, RectRecords, Rect
<1> HIDE DEF d
<1>6. DOMAIN d \subseteq plugged' /\ plugged' \subseteq Outputs BY <1>1, <1>5 DEF OmTypeOK
<1>7. \A c \in DOMAIN configs' : ConfigRecord(configs'[c]) /\ configs'[c].created <= serial
  BY <1>1 DEF OmTyped, Quoted
<1>8. DOMAIN configs' \subseteq Configs BY <1>1 DEF OmTypeOK
<1> QED BY ONLY OmInv, <1>1, <1>3, <1>5, <1>6, <1>7, <1>8, RefreshKeeps

LEMMA DisconnectKeeps ==
  ASSUME OmInv, NEW o \in Outputs, Disconnect(o)
  PROVE  OmInv'
<1> USE DEF OmInv, DesktopAgreed
<1> DEFINE d == Without(rects, {o})
<1>1. Refresh(d) /\ plugged' = plugged /\ configs' = configs
  BY DEF Disconnect
<1>2. /\ DOMAIN d = DOMAIN rects \ {o} /\ \A q \in DOMAIN d : d[q] = rects[q]
  BY DEF Without, Restrict
<1> HIDE DEF d
<1>3. RectRecords(d) BY <1>2 DEF OmTyped, RectRecords
<1>4. ValidDesktop(d) BY <1>2 DEF DesktopInDomain, ValidDesktop
<1>5. DOMAIN d \subseteq plugged' /\ plugged' \subseteq Outputs BY <1>1, <1>2 DEF OmTypeOK
<1>6. \A c \in DOMAIN configs' : ConfigRecord(configs'[c]) /\ configs'[c].created <= serial
  BY <1>1 DEF OmTyped, Quoted
<1>7. DOMAIN configs' \subseteq Configs BY <1>1 DEF OmTypeOK
<1> QED BY ONLY OmInv, <1>1, <1>3, <1>4, <1>5, <1>6, <1>7, RefreshKeeps

\* apply_output_changes, whoever asks for it
LEMMA ApplyKeeps ==
  ASSUME OmInv, NEW changes, \A o \in DOMAIN changes : o \in DOMAIN rects /\ changes[o] \in OutputChange,
         ApplyChanges(changes), plugged' = plugged, DOMAIN configs' \subseteq Configs,
         \A c \in DOMAIN configs' : ConfigRecord(configs'[c]) /\ configs'[c].created <= serial
  PROVE  OmInv'
<1> DEFINE d == Proposed(changes)
<1>1. Refresh(d) /\ ValidDesktop(d) BY DEF ApplyChanges, ChangesSupported
<1>2. DOMAIN d = DOMAIN changes /\ RectRecords(d) BY ProposedIs
<1> HIDE DEF d
<1>3. DOMAIN d \subseteq plugged' /\ plugged' \subseteq Outputs
  BY <1>2 DEF OmInv, DesktopAgreed, OmTypeOK
<1> QED BY <1>1, <1>2, <1>3, RefreshKeeps

LEMMA ReloadBlocksKeeps ==
  ASSUME OmInv, NEW blocks \in Blocks, ReloadBlocks(blocks)
  PROVE  OmInv'
<1> DEFINE changes == [o \in DOMAIN rects |-> IF o \in DOMAIN blocks THEN blocks[o] ELSE NoChange]
<1>1. ApplyChanges(changes) /\ plugged' = plugged /\ configs' = configs BY DEF ReloadBlocks
<1>2. \A o \in DOMAIN blocks : blocks[o] \in OutputChange
  <2>1. PICK S \in SUBSET DOMAIN rects : blocks \in [S -> {c \in OutputChange : c.mode = "kept" /\ ~c.size.keep}]
    BY DEF Blocks
  <2> QED BY <2>1
<1>3. NoChange \in OutputChange
  <2>1. Keep \in Optional(Positions) /\ Keep \in Optional(Sizes) BY DEF Optional
  <2>2. "kept" \in {"kept", "other"} OBVIOUS
  <2> QED BY <2>1, <2>2 DEF NoChange, OutputChange
<1>4. \A o \in DOMAIN changes : o \in DOMAIN rects /\ changes[o] \in OutputChange BY <1>2, <1>3
<1> HIDE DEF changes
<1>5. \A c \in DOMAIN configs' : ConfigRecord(configs'[c]) /\ configs'[c].created <= serial
  BY <1>1 DEF OmInv, OmTyped, Quoted
<1>6. DOMAIN configs' \subseteq Configs BY <1>1 DEF OmInv, DesktopAgreed, OmTypeOK
<1> QED BY <1>1, <1>4, <1>5, <1>6, ApplyKeeps

\* What the desktop is stays, and what the managers know of it.
LEMMA DesktopStays ==
  ASSUME OmInv, UNCHANGED <<rects, plugged, serial>>, DOMAIN view' = DOMAIN seen', DOMAIN view' \subseteq Managers,
         objects' \in [Managers -> SUBSET Outputs], DOMAIN configs' \subseteq Configs,
         \A c \in DOMAIN configs' : /\ ConfigRecord(configs'[c]) /\ configs'[c].created <= serial
                                    /\ configs'[c].created = serial => configs'[c].against = rects,
         \A m \in DOMAIN view' :
           /\ seen'[m] = serial
           /\ \A o \in DOMAIN view'[m] : o \in DOMAIN rects /\ view'[m][o] = rects[o]
  PROVE  OmInv'
<1> USE DEF OmInv, DesktopAgreed
<1>1. OmTypeOK' BY DEF OmTypeOK
<1>2. DesktopInDomain' BY DEF DesktopInDomain, ValidDesktop, Right
<1>3. ClientsSeeTheDesktop' BY DEF ClientsSeeTheDesktop
<1>4. OmTyped' BY DEF OmTyped, RectRecords, ConfigRecord
<1>5. Quoted' BY DEF Quoted
<1> QED BY <1>1, <1>2, <1>3, <1>4, <1>5

\* What OmInv says of the managers and of the configurations
LEMMA OmFacts ==
  ASSUME OmInv
  PROVE  /\ DOMAIN view = DOMAIN seen /\ DOMAIN view \subseteq Managers
         /\ objects \in [Managers -> SUBSET Outputs] /\ DOMAIN rects \subseteq Outputs
         /\ DOMAIN configs \subseteq Configs /\ serial \in Int
         /\ \A c \in DOMAIN configs : /\ ConfigRecord(configs[c]) /\ configs[c].created <= serial
                                      /\ configs[c].created = serial => configs[c].against = rects
         /\ \A m \in DOMAIN view :
              /\ seen[m] = serial
              /\ \A o \in DOMAIN view[m] : o \in DOMAIN rects /\ view[m][o] = rects[o]
<1>1. OmTypeOK /\ ClientsSeeTheDesktop /\ OmTyped /\ Quoted BY DEF OmInv, DesktopAgreed
<1>2. serial \in Int BY <1>1, OutputCoordAssumption DEF OmTypeOK
<1> QED BY <1>1, <1>2 DEF OmTypeOK, ClientsSeeTheDesktop, OmTyped, Quoted

LEMMA BindManagerKeeps ==
  ASSUME OmInv, NEW m \in Managers, BindManager(m)
  PROVE  OmInv'
<1>1. /\ view' = Entered(view, m, rects) /\ seen' = Entered(seen, m, serial)
      /\ objects' = [objects EXCEPT ![m] = @ \cup DOMAIN rects]
      /\ UNCHANGED <<rects, plugged, serial, configs>>
  BY DEF BindManager
<1>2. /\ DOMAIN view' = DOMAIN view \cup {m} /\ view'[m] = rects
      /\ \A n \in DOMAIN view : n # m => view'[n] = view[n]
  BY <1>1 DEF Entered
<1>3. /\ DOMAIN seen' = DOMAIN seen \cup {m} /\ seen'[m] = serial
      /\ \A n \in DOMAIN seen : n # m => seen'[n] = seen[n]
  BY <1>1 DEF Entered
<1>4. objects' \in [Managers -> SUBSET Outputs] BY <1>1, OmFacts
<1>5. \A n \in DOMAIN view' : /\ seen'[n] = serial
                              /\ \A o \in DOMAIN view'[n] : o \in DOMAIN rects /\ view'[n][o] = rects[o]
  BY <1>2, <1>3, OmFacts
<1> QED BY <1>1, <1>2, <1>3, <1>4, <1>5, OmFacts, DesktopStays

LEMMA StopManagerKeeps ==
  ASSUME OmInv, NEW m \in Managers, StopManager(m)
  PROVE  OmInv'
<1>1. /\ view' = Without(view, {m}) /\ seen' = Without(seen, {m})
      /\ UNCHANGED <<rects, plugged, serial, objects, configs>>
  BY DEF StopManager
<1>2. /\ DOMAIN view' = DOMAIN view \ {m} /\ \A n \in DOMAIN view' : view'[n] = view[n]
      /\ DOMAIN seen' = DOMAIN seen \ {m} /\ \A n \in DOMAIN seen' : seen'[n] = seen[n]
  BY <1>1 DEF Without, Restrict
<1>3. \A n \in DOMAIN view' : /\ seen'[n] = serial
                              /\ \A o \in DOMAIN view'[n] : o \in DOMAIN rects /\ view'[n][o] = rects[o]
  BY <1>2, OmFacts
<1> QED BY <1>1, <1>2, <1>3, OmFacts, DesktopStays

LEMMA ReleaseHeadKeeps ==
  ASSUME OmInv, NEW m \in Managers, NEW o \in Outputs, ReleaseHead(m, o)
  PROVE  OmInv'
<1>1. /\ objects' = [objects EXCEPT ![m] = @ \ {o}]
      /\ view' = IF m \in DOMAIN view THEN [view EXCEPT ![m] = Without(view[m], {o})] ELSE view
      /\ UNCHANGED <<rects, plugged, serial, seen, configs>>
  BY DEF ReleaseHead
<1>2. DOMAIN view' = DOMAIN view /\ \A n \in DOMAIN view : n # m => view'[n] = view[n]
  BY <1>1
<1>3. m \in DOMAIN view => view'[m] = Without(view[m], {o}) BY <1>1
<1>4. /\ DOMAIN Without(view[m], {o}) = DOMAIN view[m] \ {o}
      /\ \A q \in DOMAIN view[m] \ {o} : Without(view[m], {o})[q] = view[m][q]
  BY WithoutMaps
<1>5. \A n \in DOMAIN view' : /\ seen'[n] = serial
                              /\ \A q \in DOMAIN view'[n] : q \in DOMAIN rects /\ view'[n][q] = rects[q]
  <2> SUFFICES ASSUME NEW n \in DOMAIN view
               PROVE  /\ seen'[n] = serial
                      /\ \A q \in DOMAIN view'[n] : q \in DOMAIN rects /\ view'[n][q] = rects[q]
    BY <1>2
  <2>1. seen[n] = serial /\ \A q \in DOMAIN view[n] : q \in DOMAIN rects /\ view[n][q] = rects[q]
    BY OmFacts
  <2>2. CASE n = m BY <1>1, <1>3, <1>4, <2>1, <2>2
  <2>3. CASE n # m BY <1>1, <1>2, <2>1, <2>3
  <2> QED BY <2>2, <2>3
<1>6. objects' \in [Managers -> SUBSET Outputs] BY <1>1, OmFacts
<1> QED BY <1>1, <1>2, <1>5, <1>6, OmFacts, DesktopStays

LEMMA KillKeeps ==
  ASSUME OmInv, NEW m \in Managers, Kill(m), plugged' = plugged
  PROVE  OmInv'
<1> DEFINE gone == {c \in DOMAIN configs : configs[c].owner = m}
<1>1. /\ view' = Without(view, {m}) /\ seen' = Without(seen, {m})
      /\ objects' = [objects EXCEPT ![m] = {}] /\ configs' = Without(configs, gone)
      /\ UNCHANGED <<rects, serial>>
  BY DEF Kill
<1> HIDE DEF gone
<1>2. /\ DOMAIN view' = DOMAIN view \ {m} /\ \A n \in DOMAIN view' : view'[n] = view[n]
      /\ DOMAIN seen' = DOMAIN seen \ {m} /\ \A n \in DOMAIN seen' : seen'[n] = seen[n]
      /\ DOMAIN configs' = DOMAIN configs \ gone /\ \A c \in DOMAIN configs' : configs'[c] = configs[c]
  BY <1>1 DEF Without, Restrict
<1>3. \A n \in DOMAIN view' : /\ seen'[n] = serial
                              /\ \A o \in DOMAIN view'[n] : o \in DOMAIN rects /\ view'[n][o] = rects[o]
  BY <1>2, OmFacts
<1>4. objects' \in [Managers -> SUBSET Outputs] BY <1>1, OmFacts
<1>5. /\ DOMAIN configs' \subseteq Configs
      /\ \A c \in DOMAIN configs' : /\ ConfigRecord(configs'[c]) /\ configs'[c].created <= serial
                                    /\ configs'[c].created = serial => configs'[c].against = rects
  BY <1>2, OmFacts
<1> QED BY <1>1, <1>2, <1>3, <1>4, <1>5, OmFacts, DesktopStays

LEMMA CreateConfigurationKeeps ==
  ASSUME OmInv, NEW m \in Managers, NEW c \in Configs, NEW s \in Int, s <= serial,
         CreateConfiguration(m, c, s)
  PROVE  OmInv'
<1> DEFINE k == [owner |-> m, created |-> s, used |-> FALSE, ops |-> <<>>,
                 against |-> IF s = serial THEN rects ELSE <<>>]
<1>1. configs' = Entered(configs, c, k) /\ UNCHANGED <<rects, plugged, serial, view, seen, objects>>
  BY DEF CreateConfiguration
<1>2. ConfigRecord(k) /\ k.created <= serial /\ (k.created = serial => k.against = rects)
  <2>1. DOMAIN k.ops = {} OBVIOUS
  <2> QED BY <2>1 DEF ConfigRecord
<1> HIDE DEF k
<1>3. /\ DOMAIN configs' = DOMAIN configs \cup {c} /\ configs'[c] = k
      /\ \A e \in DOMAIN configs : e # c => configs'[e] = configs[e]
  BY <1>1 DEF Entered
<1>4. /\ DOMAIN configs' \subseteq Configs
      /\ \A e \in DOMAIN configs' : /\ ConfigRecord(configs'[e]) /\ configs'[e].created <= serial
                                    /\ configs'[e].created = serial => configs'[e].against = rects
  BY <1>2, <1>3, OmFacts
<1> QED BY <1>1, <1>4, OmFacts, DesktopStays

LEMMA DestroyConfigurationKeeps ==
  ASSUME OmInv, NEW c \in Configs, DestroyConfiguration(c)
  PROVE  OmInv'
<1>1. configs' = Without(configs, {c}) /\ UNCHANGED <<rects, plugged, serial, view, seen, objects>>
  BY DEF DestroyConfiguration
<1>2. DOMAIN configs' \subseteq DOMAIN configs /\ \A e \in DOMAIN configs' : configs'[e] = configs[e]
  BY <1>1 DEF Without, Restrict
<1> QED BY <1>1, <1>2, OmFacts, DesktopStays

LEMMA FillConfigurationKeeps ==
  ASSUME OmInv, NEW c \in Configs, NEW S \in SUBSET Outputs, NEW ops \in [S -> HeadOp],
         FillConfiguration(c, ops)
  PROVE  /\ OmInv'
         /\ DOMAIN configs' = DOMAIN configs
         /\ \A e \in DOMAIN configs : configs'[e].used = configs[e].used
<1>1. /\ c \in DOMAIN configs /\ configs' = [configs EXCEPT ![c].ops = ops]
      /\ UNCHANGED <<rects, plugged, serial, view, seen, objects>>
  BY DEF FillConfiguration
<1>2. ConfigRecord(configs[c]) BY <1>1, OmFacts
<1>3. /\ DOMAIN configs' = DOMAIN configs
      /\ \A e \in DOMAIN configs : e # c => configs'[e] = configs[e]
      /\ configs'[c] = [configs[c] EXCEPT !.ops = ops]
  BY <1>1
<1>4. /\ ConfigRecord(configs'[c]) /\ configs'[c].created = configs[c].created
      /\ configs'[c].against = configs[c].against /\ configs'[c].used = configs[c].used
  BY <1>2, <1>3 DEF ConfigRecord
<1>5. \A e \in DOMAIN configs' : /\ ConfigRecord(configs'[e]) /\ configs'[e].created <= serial
                                 /\ configs'[e].created = serial => configs'[e].against = rects
  BY <1>1, <1>3, <1>4, OmFacts
<1>6. OmInv' BY <1>1, <1>3, <1>5, OmFacts, DesktopStays
<1> QED BY <1>3, <1>4, <1>6

LEMMA MisuseConfigurationKeeps ==
  ASSUME OmInv, NEW c \in Configs, MisuseConfiguration(c)
  PROVE  OmInv'
<1>1. c \in DOMAIN configs /\ Kill(configs[c].owner) BY DEF MisuseConfiguration
<1>2. configs[c].owner \in Managers BY <1>1, OmFacts DEF ConfigRecord
<1>3. plugged' = plugged BY <1>1 DEF Kill
<1> QED BY <1>1, <1>2, <1>3, KillKeeps

\* Submitting a configuration uses it up.
LEMMA SubmittedIsUsed ==
  ASSUME OmInv, NEW c \in DOMAIN configs,
         configs' = [configs EXCEPT ![c].used = TRUE, ![c].ops = <<>>]
  PROVE  /\ DOMAIN configs' = DOMAIN configs
         /\ \A e \in DOMAIN configs : /\ ConfigRecord(configs'[e])
                                      /\ configs'[e].created = configs[e].created
                                      /\ configs'[e].against = configs[e].against
         /\ \A e \in DOMAIN configs : e # c => configs'[e] = configs[e]
<1>1. ConfigRecord(configs[c]) BY OmFacts
<1>2. /\ DOMAIN configs' = DOMAIN configs
      /\ \A e \in DOMAIN configs : e # c => configs'[e] = configs[e]
      /\ configs'[c] = [configs[c] EXCEPT !.used = TRUE, !.ops = <<>>]
  OBVIOUS
<1>3. DOMAIN configs'[c] = DOMAIN configs[c] BY <1>2
<1>4. /\ configs'[c].owner = configs[c].owner /\ configs'[c].created = configs[c].created
      /\ configs'[c].against = configs[c].against
  BY <1>2, <1>1 DEF ConfigRecord
<1>5. configs'[c].used = TRUE /\ configs'[c].ops = <<>> BY <1>2, <1>1 DEF ConfigRecord
<1>6. ConfigRecord(configs'[c])
  <2>1. DOMAIN configs'[c].ops = {} BY <1>5
  <2> QED BY <1>1, <1>3, <1>4, <1>5, <2>1 DEF ConfigRecord
<1>7. \A e \in DOMAIN configs : ConfigRecord(configs[e]) BY OmFacts
<1> QED BY <1>2, <1>4, <1>6, <1>7

\* An accepted configuration says for every live output what it wants.
LEMMA AcceptedIsWhole ==
  ASSUME OmInv, NEW c \in DOMAIN configs, Accepts(c)
  PROVE  /\ configs[c].against = rects /\ DOMAIN configs[c].ops = DOMAIN rects
         /\ DOMAIN Requested(c) = DOMAIN rects
         /\ \A o \in DOMAIN rects : /\ Requested(c)[o] = configs[c].ops[o].change
                                    /\ Requested(c)[o] \in OutputChange
<1>1. configs[c].created = serial /\ DOMAIN configs[c].ops = DOMAIN rects
  BY DEF Accepts, Stale, Unconfigured
<1>2. configs[c].against = rects /\ ConfigRecord(configs[c]) BY <1>1, OmFacts
<1>3. DOMAIN Requested(c) = DOMAIN rects BY <1>1 DEF Requested
<1>4. ASSUME NEW o \in DOMAIN rects
      PROVE  Requested(c)[o] = configs[c].ops[o].change /\ Requested(c)[o] \in OutputChange
  <2>1. Requested(c)[o] = configs[c].ops[o].change BY <1>1 DEF Requested
  <2>2. configs[c].ops[o] \in HeadOp /\ ~configs[c].ops[o].disabled
    BY <1>1, <1>2 DEF ConfigRecord, Accepts
  <2>3. configs[c].ops[o] \in [disabled : {FALSE}, change : OutputChange]
    <3>1. \/ configs[c].ops[o] = Disabled
          \/ configs[c].ops[o] \in [disabled : {FALSE}, change : OutputChange]
      BY ONLY <2>2, Zenon DEF HeadOp
    <3>2. Disabled.disabled = TRUE BY DEF Disabled
    <3>3. configs[c].ops[o] # Disabled BY ONLY <2>2, <3>2
    <3> QED BY ONLY <3>1, <3>3
  <2> QED BY <2>1, <2>3
<1> QED BY <1>1, <1>2, <1>3, <1>4

LEMMA FinishConfigurationKeeps ==
  ASSUME OmInv, NEW c \in Configs, NEW apply \in BOOLEAN, FinishConfiguration(c, apply)
  PROVE  OmInv'
<1>1. c \in DOMAIN configs BY DEF FinishConfiguration
<1>2. CASE configs[c].used \/ Unconfigured(c)
  <2>1. Kill(configs[c].owner) BY <1>2 DEF FinishConfiguration
  <2>2. configs[c].owner \in Managers BY <1>1, OmFacts DEF ConfigRecord
  <2>3. plugged' = plugged BY <2>1 DEF Kill
  <2> QED BY <2>1, <2>2, <2>3, KillKeeps
<1>3. CASE ~(configs[c].used \/ Unconfigured(c))
  <2>1. configs' = [configs EXCEPT ![c].used = TRUE, ![c].ops = <<>>] /\ plugged' = plugged
    BY <1>3 DEF FinishConfiguration
  <2>2. DOMAIN configs' \subseteq Configs BY <1>1, <2>1, OmFacts
  <2>3. /\ DOMAIN configs' = DOMAIN configs
        /\ \A e \in DOMAIN configs : /\ ConfigRecord(configs'[e])
                                     /\ configs'[e].created = configs[e].created
                                     /\ configs'[e].against = configs[e].against
    BY ONLY OmInv, <1>1, <2>1, SubmittedIsUsed
  <2>4. CASE apply /\ Accepts(c)
    <3>1. ApplyChanges(Requested(c)) BY <1>3, <2>4 DEF FinishConfiguration
    <3>2. \A o \in DOMAIN Requested(c) : o \in DOMAIN rects /\ Requested(c)[o] \in OutputChange
      BY <1>1, <2>4, AcceptedIsWhole
    <3>3. \A e \in DOMAIN configs' : ConfigRecord(configs'[e]) /\ configs'[e].created <= serial
      BY <2>3, OmFacts
    <3> QED BY ONLY OmInv, <2>1, <2>2, <3>1, <3>2, <3>3, ApplyKeeps
  <2>5. CASE ~(apply /\ Accepts(c))
    <3>1. UNCHANGED <<rects, serial, view, seen, objects>> BY <1>3, <2>5 DEF FinishConfiguration
    <3>2. \A e \in DOMAIN configs' : /\ ConfigRecord(configs'[e]) /\ configs'[e].created <= serial
                                     /\ configs'[e].created = serial => configs'[e].against = rects
      BY <2>3, OmFacts
    <3> QED BY <2>1, <2>2, <3>1, <3>2, OmFacts, DesktopStays
  <2> QED BY <2>4, <2>5
<1> QED BY <1>2, <1>3

LEMMA OmInitInv == OmInit => OmInv
<1> SUFFICES ASSUME OmInit PROVE OmInv
  OBVIOUS
<1>1. DOMAIN rects = {} /\ DOMAIN view = {} /\ DOMAIN seen = {} /\ DOMAIN configs = {}
  BY DEF OmInit
<1>2. serial \in 0..MaxSerial BY OutputCoordAssumption DEF OmInit
<1>3. OmTypeOK BY <1>1, <1>2 DEF OmInit, OmTypeOK
<1>4. DesktopInDomain /\ ClientsSeeTheDesktop /\ OmTyped /\ Quoted
  BY <1>1 DEF DesktopInDomain, ValidDesktop, ClientsSeeTheDesktop, OmTyped, RectRecords, Quoted
<1> QED BY <1>3, <1>4 DEF OmInv, DesktopAgreed

LEMMA OmStep == OmInv /\ [OmNext]_omVars => OmInv'
<1> SUFFICES ASSUME OmInv, [OmNext]_omVars PROVE OmInv'
  OBVIOUS
<1>1. CASE UNCHANGED omVars BY <1>1, OmFacts, DesktopStays DEF omVars
<1>2. ASSUME NEW m \in Managers, NEW c \in Configs, NEW s \in {serial - 1, serial} \cap Nat,
             CreateConfiguration(m, c, s)
      PROVE  OmInv'
  <2>1. s \in Int /\ s <= serial BY OmFacts
  <2> QED BY <1>2, <2>1, CreateConfigurationKeeps
<1> QED
  BY <1>1, <1>2, ConnectKeeps, DisconnectKeeps, ReloadBlocksKeeps, BindManagerKeeps, StopManagerKeeps,
     ReleaseHeadKeeps, DestroyConfigurationKeeps, FillConfigurationKeeps, MisuseConfigurationKeeps,
     FinishConfigurationKeeps
  DEF OmNext

\* The steps that leave every live configuration as used as it was.
LEMMA UsedStays ==
  ASSUME OmInv, \/ UNCHANGED configs
                \/ \E m \in Managers : Kill(m)
                \/ \E m \in Managers, c \in Configs, s \in Int : CreateConfiguration(m, c, s)
                \/ \E c \in Configs : DestroyConfiguration(c)
  PROVE  \A c \in DOMAIN configs \cap DOMAIN configs' : configs'[c] = configs[c]
<1>1. CASE \E m \in Managers : Kill(m)
  <2>1. PICK m \in Managers : Kill(m) BY <1>1
  <2> QED BY <2>1 DEF Kill, Without, Restrict
<1>2. CASE \E m \in Managers, c \in Configs, s \in Int : CreateConfiguration(m, c, s)
  <2>1. PICK m \in Managers, c \in Configs, s \in Int : CreateConfiguration(m, c, s) BY <1>2
  <2> QED BY <2>1 DEF CreateConfiguration, Entered
<1>3. CASE \E c \in Configs : DestroyConfiguration(c)
  BY <1>3 DEF DestroyConfiguration, Without, Restrict
<1> QED BY <1>1, <1>2, <1>3

\* The desktop that a configuration moves is the one it was written against.
LEMMA FinishLandsWhole ==
  ASSUME OmInv, NEW c \in Configs, NEW apply \in BOOLEAN, FinishConfiguration(c, apply),
         NEW e \in DOMAIN configs \cap DOMAIN configs', configs'[e].used, ~configs[e].used,
         rects' # rects
  PROVE  /\ configs[e].against = rects
         /\ DOMAIN rects' = DOMAIN configs[e].ops
         /\ \A o \in DOMAIN rects' :
              LET ch == configs[e].ops[o].change
              IN /\ ch.position.keep \/ rects'[o].loc = ch.position.to
                 /\ ch.size.keep \/ rects'[o].size = ch.size.to
<1>1. c \in DOMAIN configs BY DEF FinishConfiguration
<1>2. ~(configs[c].used \/ Unconfigured(c))
  <2> SUFFICES ASSUME configs[c].used \/ Unconfigured(c) PROVE FALSE
    OBVIOUS
  <2>1. Kill(configs[c].owner) BY DEF FinishConfiguration
  <2>2. configs[c].owner \in Managers BY <1>1, OmFacts DEF ConfigRecord
  <2>3. configs'[e] = configs[e] BY <2>1, <2>2, UsedStays
  <2> QED BY <2>3
<1>3. configs' = [configs EXCEPT ![c].used = TRUE, ![c].ops = <<>>]
  BY <1>2 DEF FinishConfiguration
<1>4. e = c
  <2>1. e # c => configs'[e] = configs[e] BY ONLY OmInv, <1>1, <1>3, SubmittedIsUsed
  <2> QED BY <2>1
<1>5. Accepts(c) /\ ApplyChanges(Requested(c)) BY <1>2 DEF FinishConfiguration
<1>6. /\ configs[c].against = rects /\ DOMAIN configs[c].ops = DOMAIN rects
      /\ DOMAIN Requested(c) = DOMAIN rects
      /\ \A o \in DOMAIN rects : Requested(c)[o] = configs[c].ops[o].change
  BY <1>1, <1>5, AcceptedIsWhole
<1>7. rects' = Proposed(Requested(c)) BY <1>5 DEF ApplyChanges, Refresh
<1>8. DOMAIN rects' = DOMAIN rects BY <1>6, <1>7 DEF Proposed
<1>9. ASSUME NEW o \in DOMAIN rects'
      PROVE  LET ch == configs[e].ops[o].change
             IN /\ ch.position.keep \/ rects'[o].loc = ch.position.to
                /\ ch.size.keep \/ rects'[o].size = ch.size.to
  <2>1. configs[e].ops[o].change = Requested(c)[o] BY <1>4, <1>6, <1>8
  <2>2. /\ Requested(c)[o].position.keep \/ rects'[o].loc = Requested(c)[o].position.to
        /\ Requested(c)[o].size.keep \/ rects'[o].size = Requested(c)[o].size.to
    BY <1>6, <1>7, <1>8 DEF Proposed, Rect
  <2> QED BY <2>1, <2>2
<1> QED BY <1>4, <1>6, <1>8, <1>9

(* A configuration that moves the desktop was written against exactly the   *)
(* desktop it replaces, speaks for every live head, and lands whole: the    *)
(* serial and the heads that finish_configuration compares before anything  *)
(* is applied are enough, whatever clients, hotplug and reloads did since.  *)
THEOREM ConfigurationsAreWhole == OmSpec => ConfigurationsLandWhole
<1>1. OmInit => OmInv BY OmInitInv
<1>2. OmInv /\ [OmNext]_omVars => OmInv' BY OmStep
<1>3. OmInv /\ [OmNext]_omVars =>
        [\A c \in Configs :
           (c \in DOMAIN configs /\ c \in DOMAIN configs' /\ configs'[c].used /\ ~configs[c].used
              /\ rects' # rects)
           => /\ configs[c].against = rects
              /\ DOMAIN rects' = DOMAIN configs[c].ops
              /\ \A o \in DOMAIN rects' :
                   LET ch == configs[c].ops[o].change
                   IN /\ ch.position.keep \/ rects'[o].loc = ch.position.to
                      /\ ch.size.keep \/ rects'[o].size = ch.size.to]_omVars
  <2> SUFFICES ASSUME OmInv, OmNext, NEW e \in Configs, e \in DOMAIN configs, e \in DOMAIN configs',
                      configs'[e].used, ~configs[e].used, rects' # rects
               PROVE  /\ configs[e].against = rects
                      /\ DOMAIN rects' = DOMAIN configs[e].ops
                      /\ \A o \in DOMAIN rects' :
                           LET ch == configs[e].ops[o].change
                           IN /\ ch.position.keep \/ rects'[o].loc = ch.position.to
                              /\ ch.size.keep \/ rects'[o].size = ch.size.to
    OBVIOUS
  <2>1. CASE \E c \in Configs, apply \in BOOLEAN : FinishConfiguration(c, apply)
    <3>1. PICK c \in Configs, apply \in BOOLEAN : FinishConfiguration(c, apply) BY <2>1
    <3> QED BY <3>1, FinishLandsWhole
  <2>2. CASE \E c \in Configs, S \in SUBSET Outputs : \E ops \in [S -> HeadOp] : FillConfiguration(c, ops)
    <3>1. PICK c \in Configs, S \in SUBSET Outputs : \E ops \in [S -> HeadOp] : FillConfiguration(c, ops)
      BY <2>2
    <3>2. PICK ops \in [S -> HeadOp] : FillConfiguration(c, ops) BY <3>1
    <3>3. configs'[e].used = configs[e].used BY <3>2, FillConfigurationKeeps
    <3> QED BY <3>3
  <2>3. ASSUME \/ UNCHANGED configs
               \/ \E m \in Managers : Kill(m)
               \/ \E m \in Managers, c \in Configs, s \in Int : CreateConfiguration(m, c, s)
               \/ \E c \in Configs : DestroyConfiguration(c)
        PROVE  FALSE
    BY <2>3, UsedStays
  <2>4. CASE \E c \in Configs : MisuseConfiguration(c)
    <3>1. PICK c \in Configs : MisuseConfiguration(c) BY <2>4
    <3>2. configs[c].owner \in Managers /\ Kill(configs[c].owner)
      BY <3>1, OmFacts DEF MisuseConfiguration, ConfigRecord
    <3> QED BY <2>3, <3>2
  <2>5. CASE \E m \in Managers, c \in Configs, s \in {serial - 1, serial} \cap Nat : CreateConfiguration(m, c, s)
    <3>1. PICK m \in Managers, c \in Configs, s \in {serial - 1, serial} \cap Nat : CreateConfiguration(m, c, s)
      BY <2>5
    <3>2. s \in Int OBVIOUS
    <3> QED BY <2>3, <3>1, <3>2
  <2>6. CASE \E c \in Configs : DestroyConfiguration(c) BY <2>3, <2>6
  <2>7. CASE UNCHANGED configs BY <2>3, <2>7
  <2>8. \/ UNCHANGED configs
        \/ \E m \in Managers, c \in Configs, s \in {serial - 1, serial} \cap Nat : CreateConfiguration(m, c, s)
        \/ \E c \in Configs : DestroyConfiguration(c)
        \/ \E c \in Configs, S \in SUBSET Outputs : \E ops \in [S -> HeadOp] : FillConfiguration(c, ops)
        \/ \E c \in Configs : MisuseConfiguration(c)
        \/ \E c \in Configs, apply \in BOOLEAN : FinishConfiguration(c, apply)
    BY DEF OmNext, Connect, Disconnect, ReloadBlocks, BindManager, StopManager, ReleaseHead
  <2> QED BY <2>1, <2>2, <2>4, <2>5, <2>6, <2>7, <2>8
<1> QED BY <1>1, <1>2, <1>3, PTL DEF OmSpec, ConfigurationsLandWhole

(* Whoever arranges outputs or sets their power and gamma agrees with the   *)
(* desktop and the hardware.  The desktop is valid because every way to     *)
(* change it asks validate_desktop_layout first, and the last resort of     *)
(* resolve_output_position is always valid; the ramps belong to the owner   *)
(* in the map alone because a control that is replaced loses its target.    *)
THEOREM ClientsAgreeOnOutputs == OmSpec /\ OcSpec => []OutputsAgree
<1>1. OmInit => OmInv BY OmInitInv
<1>2. OmInv /\ [OmNext]_omVars => OmInv' BY OmStep
<1>3. OcInit => OcInv BY OcInitInv
<1>4. OcInv /\ [OcNext]_ocVars => OcInv' BY OcStep
<1>5. OmInv /\ OcInv => OutputsAgree BY DEF OutputsAgree, OmInv, OcInv
<1> QED BY <1>1, <1>2, <1>3, <1>4, <1>5, PTL DEF OmSpec, OcSpec

-----------------------------------------------------------------------------
(* Taskbars *)

\* The handles `handles` list the windows of T under the captions `cap`, each in
\* the state `sent` of the last broadcast, or, in `lt`, in the empty one; the
\* windows of `fresh` are about to be broadcast.
ToldOf(e, m, w, sent, cap, lt, fresh) ==
  /\ e = Entry(e.title, e.flags) /\ e.title = cap[w]
  /\ w \notin fresh => e.flags = IF <<m, w>> \in lt THEN {} ELSE sent[w]
Lists(handles, sent, T, cap, lt, fresh) ==
  \A m \in Bars : \A w \in DOMAIN handles[m] : w \in T /\ ToldOf(handles[m][w], m, w, sent, cap, lt, fresh)

TmInv ==
  /\ Lists(entries, lastSent, tracked, caption, late, {})
  /\ DOMAIN lastSent = tracked /\ tracked \subseteq DOMAIN caption
  /\ DOMAIN entries = Bars
  /\ \A w \in tracked \ unsaid : lastSent[w] = Flags(w)

LEMMA EntryIs ==
  ASSUME NEW t, NEW f
  PROVE  Entry(t, f).title = t /\ Entry(t, f).flags = f
  BY DEF Entry

\* A broadcast reaches every handle there is.
LEMMA RefreshedLists ==
  ASSUME NEW R, NEW handles, NEW sent, NEW fresh, Refreshed(R, handles, sent), DOMAIN sent = tracked',
         tracked' \subseteq DOMAIN caption', Lists(handles, sent, tracked', caption', late, fresh),
         \A w \in fresh : w \in R \cap tracked' /\ sent[w] # Flags(w)',
         \A w \in tracked' \ (R \cup unsaid) : sent[w] = Flags(w)'
  PROVE  TmInv'
<1> DEFINE new == {w \in R \cap DOMAIN sent : sent[w] /= Flags(w)'}
<1>1. /\ lastSent' = [w \in DOMAIN sent |-> IF w \in new THEN Flags(w)' ELSE sent[w]]
      /\ entries' = [m \in Bars |-> [w \in DOMAIN handles[m] |->
                       IF w \in new THEN [handles[m][w] EXCEPT !.flags = Flags(w)'] ELSE handles[m][w]]]
      /\ late' = {p \in late : p[2] \in DOMAIN sent \ new} /\ unsaid' = (unsaid \cap DOMAIN sent) \ R
  BY DEF Refreshed
<1>2. DOMAIN lastSent' = tracked' /\ DOMAIN entries' = Bars BY <1>1
<1>3. ASSUME NEW m \in Bars, NEW w \in DOMAIN entries'[m]
      PROVE  w \in tracked' /\ ToldOf(entries'[m][w], m, w, lastSent', caption', late', {})
  <2>1. w \in DOMAIN handles[m] BY <1>1
  <2>2. w \in tracked' /\ ToldOf(handles[m][w], m, w, sent, caption', late, fresh) BY <2>1 DEF Lists
  <2>3. <<m, w>> \in late' <=> <<m, w>> \in late /\ w \in DOMAIN sent \ new
    <3>1. <<m, w>>[2] = w OBVIOUS
    <3> HIDE DEF new
    <3> QED BY <1>1, <3>1
  <2>4. CASE w \in new
    <3>1. entries'[m][w] = [handles[m][w] EXCEPT !.flags = Flags(w)'] /\ lastSent'[w] = Flags(w)'
      BY <1>1, <2>1, <2>2, <2>4
    <3>2. [handles[m][w] EXCEPT !.flags = Flags(w)'] = Entry(handles[m][w].title, Flags(w)')
      BY <2>2 DEF Entry, ToldOf
    <3>3. entries'[m][w] = Entry(handles[m][w].title, Flags(w)') BY ONLY <3>1, <3>2
    <3>4. entries'[m][w].title = handles[m][w].title /\ entries'[m][w].flags = Flags(w)'
      BY <3>3, EntryIs
    <3>5. <<m, w>> \notin late' BY ONLY <2>3, <2>4
    <3> QED BY ONLY <2>2, <3>1, <3>3, <3>4, <3>5 DEF ToldOf
  <2>5. CASE w \notin new
    <3> HIDE DEF new
    <3>1. entries'[m][w] = handles[m][w] /\ lastSent'[w] = sent[w] BY <1>1, <2>1, <2>2, <2>5
    <3>2. w \notin fresh BY <2>5 DEF new
    <3>3. <<m, w>> \in late' <=> <<m, w>> \in late BY <2>2, <2>3, <2>5
    <3> QED BY ONLY <2>2, <3>1, <3>2, <3>3 DEF ToldOf
  <2> QED BY <2>4, <2>5
<1>4. Lists(entries', lastSent', tracked', caption', late', {}) BY <1>3 DEF Lists
<1>5. ASSUME NEW w \in tracked' \ unsaid' PROVE lastSent'[w] = Flags(w)'
  <2>1. CASE w \in R BY <1>1, <2>1
  <2>2. CASE w \notin R
    <3>1. w \notin unsaid BY <1>1, <1>5, <2>2
    <3> QED BY <1>1, <2>2, <3>1
  <2> QED BY <2>1, <2>2
<1> QED BY <1>2, <1>4, <1>5 DEF TmInv

LEMMA MapToplevelKeeps ==
  ASSUME TmInv, NEW w \in Toplevels, NEW title \in Titles, NEW tiled \in BOOLEAN, NEW focused \in BOOLEAN,
         NEW full \in BOOLEAN, MapToplevel(w, title, tiled, focused, full)
  PROVE  TmInv'
<1> DEFINE handles == [m \in Bars |-> IF m \in bound THEN Entered(entries[m], w, Entry(title, {})) ELSE entries[m]]
           sent == Entered(lastSent, w, Unsent)
           R == {active, w} \cup fulls
<1>1. /\ w \notin tracked /\ tracked' = tracked \cup {w} /\ caption' = Entered(caption, w, title)
      /\ Refreshed(R, handles, sent)
      /\ active' = (IF focused THEN w ELSE active) /\ fulls' = (IF full THEN {w} ELSE fulls) /\ maxed' = maxed
  BY DEF MapToplevel
<1>2. /\ DOMAIN caption' = DOMAIN caption \cup {w} /\ caption'[w] = title
      /\ \A v \in DOMAIN caption : v # w => caption'[v] = caption[v]
  BY <1>1 DEF Entered
<1>3. /\ DOMAIN sent = tracked \cup {w} /\ sent[w] = Unsent /\ \A v \in tracked : sent[v] = lastSent[v]
  BY <1>1 DEF Entered, TmInv
<1>4. ASSUME NEW m \in Bars, NEW v \in DOMAIN handles[m]
      PROVE  v \in tracked' /\ ToldOf(handles[m][v], m, v, sent, caption', late, {w})
  <2>1. CASE m \in bound /\ v = w
    <3>1. handles[m] = Entered(entries[m], w, Entry(title, {})) BY <2>1
    <3>2. handles[m][v] = Entry(title, {}) BY ONLY <2>1, <3>1 DEF Entered
    <3>3. handles[m][v].title = title /\ handles[m][v].flags = {} BY <3>2, EntryIs
    <3>4. v \in tracked' /\ caption'[v] = title BY <1>1, <1>2, <2>1
    <3> QED BY ONLY <2>1, <3>2, <3>3, <3>4 DEF ToldOf
  <2>2. CASE ~(m \in bound /\ v = w)
    <3>1. v \in DOMAIN entries[m] /\ handles[m][v] = entries[m][v]
      <4>1. CASE m \in bound
        <5>1. handles[m] = Entered(entries[m], w, Entry(title, {})) BY <4>1
        <5>2. DOMAIN handles[m] = DOMAIN entries[m] \cup {w} BY ONLY <5>1 DEF Entered
        <5>3. v \in DOMAIN entries[m] /\ v # w BY <2>2, <4>1, <5>2
        <5> QED BY ONLY <5>1, <5>3 DEF Entered
      <4>2. CASE m \notin bound BY <4>2
      <4> QED BY <4>1, <4>2
    <3>2. v \in tracked /\ ToldOf(entries[m][v], m, v, lastSent, caption, late, {}) BY <3>1 DEF TmInv, Lists
    <3>3. caption'[v] = caption[v] /\ v \in tracked' /\ sent[v] = lastSent[v]
      BY <1>1, <1>2, <1>3, <3>2 DEF TmInv
    <3> HIDE DEF handles, sent
    <3> QED BY ONLY <3>1, <3>2, <3>3 DEF ToldOf
  <2> QED BY <2>1, <2>2
<1>5. ASSUME NEW v \in tracked' \ (R \cup unsaid) PROVE sent[v] = Flags(v)'
  <2>1. v \in tracked \ unsaid /\ v # w /\ v # active /\ v \notin fulls BY <1>1, <1>5
  <2>2. Flags(v)' = Flags(v)
    <3>1. active' # v /\ v \notin fulls' BY <1>1, <2>1
    <3> QED BY ONLY <1>1, <2>1, <3>1 DEF Flags
  <2> QED BY <1>3, <2>1, <2>2 DEF TmInv
<1>6. w \in R OBVIOUS
<1> HIDE DEF handles, sent, R
<1>7. Lists(handles, sent, tracked', caption', late, {w}) BY <1>4 DEF Lists
<1>8. DOMAIN sent = tracked' /\ tracked' \subseteq DOMAIN caption' BY <1>1, <1>2, <1>3 DEF TmInv
<1>9. \A v \in {w} : v \in R \cap tracked' /\ sent[v] # Flags(v)'
  <2>1. Flags(w)' # Unsent
    <3>1. "unsent" \notin Flags(w)' BY DEF Flags
    <3>2. "unsent" \in Unsent BY DEF Unsent
    <3> QED BY ONLY <3>1, <3>2
  <2> QED BY <1>1, <1>3, <1>6, <2>1
<1> QED BY <1>1, <1>5, <1>7, <1>8, <1>9, RefreshedLists

LEMMA UnmapToplevelKeeps ==
  ASSUME TmInv, NEW w \in Toplevels, NEW next \in Toplevels \cup {NoToplevel}, UnmapToplevel(w, next)
  PROVE  TmInv'
<1> DEFINE handles == [m \in Bars |-> Without(entries[m], {w})]
           sent == Restrict(lastSent, tracked')
           R == {active'}
<1>1. /\ tracked' = tracked \ {w} /\ caption' = Restrict(caption, tracked') /\ Refreshed(R, handles, sent)
      /\ active' = (IF active = w THEN next ELSE active) /\ fulls' = fulls \ {w} /\ maxed' = maxed \ {w}
  BY DEF UnmapToplevel
<1>2. /\ DOMAIN sent = tracked' /\ \A v \in tracked' : sent[v] = lastSent[v]
      /\ DOMAIN caption' = tracked' /\ \A v \in tracked' : caption'[v] = caption[v]
  BY <1>1 DEF Restrict, TmInv
<1>3. ASSUME NEW m \in Bars
      PROVE  /\ DOMAIN handles[m] = DOMAIN entries[m] \ {w}
             /\ \A v \in DOMAIN handles[m] : handles[m][v] = entries[m][v]
  <2>1. handles[m] = Without(entries[m], {w}) OBVIOUS
  <2> QED BY ONLY <2>1 DEF Without, Restrict
<1>4. ASSUME NEW v \in tracked' \ (R \cup unsaid) PROVE sent[v] = Flags(v)'
  <2>1. v \in tracked \ unsaid /\ v # w /\ v # active' BY <1>1, <1>4
  <2>2. v # active BY <1>1, <2>1
  <2>3. Flags(v)' = Flags(v) BY ONLY <1>1, <2>1, <2>2 DEF Flags
  <2> QED BY <1>2, <2>1, <2>3 DEF TmInv
<1> HIDE DEF handles, sent, R
<1>5. ASSUME NEW m \in Bars, NEW v \in DOMAIN handles[m]
      PROVE  v \in tracked' /\ ToldOf(handles[m][v], m, v, sent, caption', late, {})
  <2>1. v \in DOMAIN entries[m] /\ v # w /\ handles[m][v] = entries[m][v] BY <1>3
  <2>2. v \in tracked /\ ToldOf(entries[m][v], m, v, lastSent, caption, late, {})
    BY <2>1 DEF TmInv, Lists
  <2>3. v \in tracked' /\ sent[v] = lastSent[v] /\ caption'[v] = caption[v]
    BY <1>1, <1>2, <2>1, <2>2
  <2> QED BY ONLY <2>1, <2>2, <2>3 DEF ToldOf
<1>6. Lists(handles, sent, tracked', caption', late, {}) BY <1>5 DEF Lists
<1> QED BY <1>1, <1>2, <1>4, <1>6, RefreshedLists

\* The requests that only broadcast, to every window they may have changed
LEMMA BroadcastKeeps ==
  ASSUME TmInv, NEW R, Refreshed(R, entries, lastSent), UNCHANGED <<tracked, caption>>,
         \A v \in tracked \ R : Flags(v)' = Flags(v)
  PROVE  TmInv'
<1>1. Lists(entries, lastSent, tracked', caption', late, {}) BY DEF TmInv
<1>2. \A w \in tracked' \ (R \cup unsaid) : lastSent[w] = Flags(w)' BY DEF TmInv
<1>3. DOMAIN lastSent = tracked' /\ tracked' \subseteq DOMAIN caption' BY DEF TmInv
<1> QED BY <1>1, <1>2, <1>3, RefreshedLists

LEMMA RenameKeeps ==
  ASSUME TmInv, NEW w \in Toplevels, NEW title \in Titles, Rename(w, title)
  PROVE  TmInv'
<1>1. /\ w \in tracked /\ caption' = [caption EXCEPT ![w] = title]
      /\ entries' = [m \in Bars |-> [v \in DOMAIN entries[m] |->
                       IF v = w THEN [entries[m][v] EXCEPT !.title = title] ELSE entries[m][v]]]
      /\ UNCHANGED <<tracked, lastSent, late, unsaid, active, fulls, maxed>>
  BY DEF Rename, tmHistory
<1>2. ASSUME NEW m \in Bars, NEW v \in DOMAIN entries'[m]
      PROVE  v \in tracked' /\ ToldOf(entries'[m][v], m, v, lastSent', caption', late', {})
  <2>1. v \in DOMAIN entries[m] BY <1>1
  <2>2. v \in tracked /\ ToldOf(entries[m][v], m, v, lastSent, caption, late, {}) BY <2>1 DEF TmInv, Lists
  <2>3. v \in DOMAIN caption BY <2>2 DEF TmInv
  <2>4. CASE v = w
    <3>1. entries'[m][v] = [entries[m][v] EXCEPT !.title = title] /\ caption'[v] = title
      BY <1>1, <2>1, <2>3, <2>4
    <3>2. [entries[m][v] EXCEPT !.title = title] = Entry(title, entries[m][v].flags)
      BY <2>2 DEF Entry, ToldOf
    <3>3. entries'[m][v] = Entry(title, entries[m][v].flags) BY ONLY <3>1, <3>2
    <3>4. entries'[m][v].title = title /\ entries'[m][v].flags = entries[m][v].flags BY <3>3, EntryIs
    <3> QED BY ONLY <1>1, <2>2, <3>1, <3>3, <3>4 DEF ToldOf
  <2>5. CASE v # w
    <3>1. entries'[m][v] = entries[m][v] /\ caption'[v] = caption[v] BY <1>1, <2>1, <2>3, <2>5
    <3> QED BY ONLY <1>1, <2>2, <3>1 DEF ToldOf
  <2> QED BY <2>4, <2>5
<1>3. DOMAIN entries' = Bars /\ DOMAIN caption' = DOMAIN caption BY <1>1
<1>4. \A v \in tracked \ unsaid : lastSent[v] = Flags(v)' BY <1>1 DEF TmInv, Flags
<1> QED BY <1>1, <1>2, <1>3, <1>4 DEF TmInv, Lists

LEMMA BindBarKeeps ==
  ASSUME TmInv, NEW m \in Bars, BindBar(m)
  PROVE  TmInv'
<1>1. /\ entries' = [entries EXCEPT ![m] = [w \in tracked |-> Entry(caption[w], {})]]
      /\ late' = late \cup ({m} \X tracked)
      /\ UNCHANGED <<tracked, caption, lastSent, unsaid, active, fulls, maxed>>
  BY DEF BindBar
<1>2. /\ DOMAIN entries' = Bars /\ \A n \in Bars : n # m => entries'[n] = entries[n]
      /\ DOMAIN entries'[m] = tracked /\ \A w \in tracked : entries'[m][w] = Entry(caption[w], {})
  BY <1>1 DEF TmInv
<1>3. ASSUME NEW n \in Bars, NEW w \in DOMAIN entries'[n]
      PROVE  w \in tracked' /\ ToldOf(entries'[n][w], n, w, lastSent', caption', late', {})
  <2>1. CASE n = m
    <3>1. w \in tracked /\ entries'[n][w] = Entry(caption[w], {}) BY <1>2, <2>1
    <3>2. entries'[n][w].title = caption[w] /\ entries'[n][w].flags = {} BY <3>1, EntryIs
    <3>3. <<n, w>> \in late' BY <1>1, <2>1, <3>1
    <3> QED BY ONLY <1>1, <3>1, <3>2, <3>3 DEF ToldOf
  <2>2. CASE n # m
    <3>1. w \in tracked /\ ToldOf(entries[n][w], n, w, lastSent, caption, late, {})
      BY <1>2, <2>2 DEF TmInv, Lists
    <3>2. <<n, w>> \in late' <=> <<n, w>> \in late BY <1>1, <2>2
    <3>3. entries'[n][w] = entries[n][w] BY <1>2, <2>2
    <3> QED BY ONLY <1>1, <3>1, <3>2, <3>3 DEF ToldOf
  <2> QED BY <2>1, <2>2
<1>4. \A v \in tracked \ unsaid : lastSent[v] = Flags(v)' BY <1>1 DEF TmInv, Flags
<1> QED BY <1>1, <1>2, <1>3, <1>4 DEF TmInv, Lists

\* Handles go, one or all of a client's.
LEMMA HandlesGo ==
  ASSUME TmInv, NEW m \in Bars, NEW f, DOMAIN f \subseteq DOMAIN entries[m],
         \A w \in DOMAIN f : f[w] = entries[m][w] /\ (<<m, w>> \in late' <=> <<m, w>> \in late),
         \A n \in Bars \ {m} : \A w : <<n, w>> \in late' <=> <<n, w>> \in late,
         entries' = [entries EXCEPT ![m] = f],
         UNCHANGED <<tracked, caption, lastSent, unsaid, active, fulls, maxed>>
  PROVE  TmInv'
<1>1. DOMAIN entries' = Bars /\ entries'[m] = f /\ \A n \in Bars : n # m => entries'[n] = entries[n]
  BY DEF TmInv
<1>2. ASSUME NEW n \in Bars, NEW w \in DOMAIN entries'[n]
      PROVE  w \in tracked' /\ ToldOf(entries'[n][w], n, w, lastSent', caption', late', {})
  <2>1. w \in DOMAIN entries[n] /\ entries'[n][w] = entries[n][w] /\ (<<n, w>> \in late' <=> <<n, w>> \in late)
    BY <1>1
  <2>2. w \in tracked /\ ToldOf(entries[n][w], n, w, lastSent, caption, late, {}) BY <2>1 DEF TmInv, Lists
  <2>3. tracked' = tracked /\ caption' = caption /\ lastSent' = lastSent OBVIOUS
  <2> QED BY ONLY <2>1, <2>2, <2>3 DEF ToldOf
<1>3. \A v \in tracked \ unsaid : lastSent[v] = Flags(v)' BY DEF TmInv, Flags
<1> QED BY <1>1, <1>2, <1>3 DEF TmInv, Lists

LEMMA TmStep == TmInv /\ [TmNext]_tmVars => TmInv'
<1> SUFFICES ASSUME TmInv, [TmNext]_tmVars PROVE TmInv'
  OBVIOUS
<1>1. CASE UNCHANGED <<tracked, caption, lastSent, entries, late, unsaid, active, fulls, maxed>>
  <2>1. \A v \in tracked \ unsaid : lastSent[v] = Flags(v)' BY <1>1 DEF TmInv, Flags
  <2> QED BY <1>1, <2>1 DEF TmInv
<1>2. ASSUME NEW m \in Bars, NEW w \in Toplevels, DestroyEntry(m, w) PROVE TmInv'
  <2>1. /\ entries' = [entries EXCEPT ![m] = Without(entries[m], {w})] /\ late' = late \ {<<m, w>>}
        /\ UNCHANGED <<tracked, caption, lastSent, unsaid, active, fulls, maxed>>
    BY <1>2 DEF DestroyEntry
  <2>2. /\ DOMAIN Without(entries[m], {w}) = DOMAIN entries[m] \ {w}
        /\ \A v \in DOMAIN entries[m] \ {w} : Without(entries[m], {w})[v] = entries[m][v]
    BY WithoutMaps
  <2>3. /\ \A v : v # w => (<<m, v>> \in late' <=> <<m, v>> \in late)
        /\ \A n \in Bars \ {m} : \A v : <<n, v>> \in late' <=> <<n, v>> \in late
    BY <2>1
  <2> QED BY <2>1, <2>2, <2>3, HandlesGo
<1>3. ASSUME NEW m \in Bars, BarLeaves(m) PROVE TmInv'
  <2>1. /\ entries' = [entries EXCEPT ![m] = <<>>] /\ late' = {p \in late : p[1] /= m}
        /\ UNCHANGED <<tracked, caption, lastSent, unsaid, active, fulls, maxed>>
    BY <1>3 DEF BarLeaves
  <2>2. DOMAIN <<>> = {} OBVIOUS
  <2>3. \A n \in Bars \ {m} : \A w : <<n, w>> \in late' <=> <<n, w>> \in late BY <2>1
  <2> QED BY <2>1, <2>2, <2>3, HandlesGo
<1>4. ASSUME NEW w \in Toplevels \cup {NoToplevel}, Refocus(w) PROVE TmInv'
  <2>1. \A v \in tracked \ {active, w} : Flags(v)' = Flags(v) BY <1>4 DEF Refocus, Flags
  <2> QED BY <1>4, <2>1, BroadcastKeeps DEF Refocus
<1>5. ASSUME NEW w \in Toplevels, Fullscreen(w) PROVE TmInv'
  <2>1. \A v \in tracked \ ({w} \cup fulls) : Flags(v)' = Flags(v) BY <1>5 DEF Fullscreen, Flags
  <2> QED BY <1>5, <2>1, BroadcastKeeps DEF Fullscreen
<1>6. ASSUME NEW w \in Toplevels, Unfullscreen(w) \/ Maximize(w) \/ Unmaximize(w) PROVE TmInv'
  <2>1. \A v \in tracked \ {w} : Flags(v)' = Flags(v)
    BY <1>6 DEF Unfullscreen, Maximize, Unmaximize, LeaveFull, Flags
  <2> QED BY <1>6, <2>1, BroadcastKeeps DEF Unfullscreen, Maximize, Unmaximize
<1>7. ASSUME NEW w \in Toplevels, ToggleFloatingTop(w) PROVE TmInv'
  <2>1. /\ UNCHANGED <<tracked, caption, active, fulls, lastSent, entries, late>> /\ maxed' = maxed \ {w}
        /\ unsaid' = IF Flags(w)' = Flags(w) THEN unsaid ELSE unsaid \cup {w}
    BY <1>7 DEF ToggleFloatingTop
  <2>2. ASSUME NEW v \in tracked \ unsaid' PROVE lastSent[v] = Flags(v)'
    <3>1. v \in tracked \ unsaid /\ lastSent[v] = Flags(v) BY <2>1, <2>2 DEF TmInv
    <3>2. v = w => Flags(v)' = Flags(v) BY <2>1, <2>2
    <3>3. v # w => Flags(v)' = Flags(v) BY <2>1 DEF Flags
    <3> QED BY <3>1, <3>2, <3>3
  <2>3. Lists(entries, lastSent, tracked, caption, late, {})' BY <2>1 DEF TmInv
  <2> QED BY <2>1, <2>2, <2>3 DEF TmInv
<1>8. ASSUME NEW m \in Bars, StopBar(m) PROVE TmInv' BY <1>1, <1>8 DEF StopBar, tmHistory
<1>9. CASE UNCHANGED tmVars BY <1>1, <1>9 DEF tmVars
<1> QED
  BY <1>2, <1>3, <1>4, <1>5, <1>6, <1>7, <1>8, <1>9, MapToplevelKeeps, UnmapToplevelKeeps, RenameKeeps,
     BindBarKeeps
  DEF TmNext

-----------------------------------------------------------------------------
(* Workspace bars *)

HandleOf(via, in, says) == [via |-> via, in |-> in, told |-> says]

\* The handles of workspace w, with S the live managers and P those there ever
\* were, and their clients: a group object has one at most, announced through a
\* manager of its client, and a live manager that is its client's only one has
\* one, announced through itself.
Alone(m, P) == \A k \in DOMAIN P : P[k] = P[m] => k = m
Announced(w, S, P) ==
  /\ w = [active |-> w.active, inst |-> w.inst] /\ w.active \in BOOLEAN
  /\ \A i \in w.inst : /\ i = HandleOf(i.via, i.in, w.active)
                        /\ i.via \in DOMAIN P /\ i.in \in DOMAIN P /\ P[i.via] = P[i.in]
  /\ \A i, j \in w.inst : i.in = j.in => i = j
  /\ \A m \in S : Alone(m, P) => HandleOf(m, m, w.active) \in w.inst

Known(g, S, P) ==
  /\ S \subseteq g.inst /\ g.inst \subseteq DOMAIN P
  /\ \A n \in DOMAIN g.ws : Announced(g.ws[n], S, P)

\* The groups are the desktop's, with its active workspaces.
Mirrored ==
  /\ DOMAIN groups = DOMAIN desk
  /\ \A o \in DOMAIN groups :
       /\ DOMAIN groups[o].ws = Advertised(o)
       /\ \A n \in Advertised(o) : groups[o].ws[n].active = Desired[o][n]

WmInv ==
  /\ strips \in Seq(Strips) /\ IsInjective(strips)
  /\ Range(strips) \subseteq DOMAIN stripsPast
  /\ silent \in BOOLEAN /\ (~silent => Mirrored)
  /\ \A o \in DOMAIN groups : Known(groups[o], Range(strips), stripsPast)

LEMMA HandleIs ==
  ASSUME NEW v, NEW i, NEW t
  PROVE  HandleOf(v, i, t).via = v /\ HandleOf(v, i, t).in = i /\ HandleOf(v, i, t).told = t
  BY DEF HandleOf

\* The first manager of a client that has one is a live manager of that client.
LEMMA FirstOfIs ==
  ASSUME strips \in Seq(Strips), NEW h
  PROVE  /\ FirstOf(stripsPast[h]) > 0 =>
              /\ strips[FirstOf(stripsPast[h])] \in Range(strips)
              /\ stripsPast[strips[FirstOf(stripsPast[h])]] = stripsPast[h]
         /\ h \in Range(strips) => FirstOf(stripsPast[h]) > 0
<1> DEFINE I == {i \in 1..Len(strips) : stripsPast[strips[i]] = stripsPast[h]}
<1>1. FirstOf(stripsPast[h]) = IF I # {} THEN Min(I) ELSE 0 BY DEF FirstOf, SelectInSeq
<1>2. h \in Range(strips) => I # {} BY DEF Range
<1>3. I \in SUBSET Int /\ \A x \in I : 1 <= x BY DEF I
<1>4. \A i \in I : strips[i] \in Range(strips) /\ stripsPast[strips[i]] = stripsPast[h] BY DEF Range
<1> HIDE DEF I
<1>5. CASE I = {} BY <1>1, <1>2, <1>5
<1>6. CASE I # {}
  <2>1. Min(I) \in I BY <1>3, <1>6, LeastOf
  <2>2. Min(I) \in Int /\ 1 <= Min(I) BY <1>3, <2>1
  <2> QED BY <1>1, <1>4, <1>6, <2>1, <2>2
<1> QED BY <1>5, <1>6

\* A workspace is announced to the managers that hold the group.
LEMMA AnnouncedFresh ==
  ASSUME WmInv, NEW holders, Range(strips) \subseteq holders,
         holders \subseteq DOMAIN stripsPast, NEW on \in BOOLEAN
  PROVE  Announced([active |-> on, inst |-> NewHandles(holders, on)], Range(strips), stripsPast)
<1> DEFINE S == Range(strips)
           P == stripsPast
           H == NewHandles(holders, on)
           G == {h \in holders : FirstOf(P[h]) > 0}
           first(g) == strips[FirstOf(P[g])]
<1>1. H = {HandleOf(first(g), g, on) : g \in G} BY DEF NewHandles, HandleOf
<1>2. strips \in Seq(Strips) /\ S \subseteq DOMAIN P BY DEF WmInv
<1>3. \A g \in G : g \in DOMAIN P /\ first(g) \in S /\ P[first(g)] = P[g] BY <1>2, FirstOfIs
<1>4. S \subseteq G BY <1>2, FirstOfIs
<1> HIDE DEF H, S, P, G, first
<1>5. ASSUME NEW i \in H
      PROVE  /\ i = HandleOf(i.via, i.in, on) /\ i.via \in DOMAIN P /\ i.in \in DOMAIN P /\ P[i.via] = P[i.in]
             /\ i.in \in G /\ i.via = first(i.in)
  <2>1. PICK g \in G : i = HandleOf(first(g), g, on) BY <1>1
  <2>2. i.via = first(g) /\ i.in = g BY <2>1, HandleIs
  <2> QED BY <1>2, <1>3, <2>1, <2>2
<1>6. ASSUME NEW i \in H, NEW j \in H, i.in = j.in PROVE i = j BY <1>5, <1>6
<1>7. ASSUME NEW m \in S, Alone(m, P) PROVE HandleOf(m, m, on) \in H
  <2>1. m \in G /\ first(m) \in DOMAIN P /\ P[first(m)] = P[m] BY <1>2, <1>3, <1>4
  <2>2. first(m) = m BY <1>7, <2>1 DEF Alone
  <2>3. HandleOf(first(m), m, on) \in H BY <1>1, <2>1
  <2> QED BY <2>2, <2>3
<1> DEFINE w == [active |-> on, inst |-> H]
<1>8. w.active = on /\ w.inst = H /\ w = [active |-> w.active, inst |-> w.inst] OBVIOUS
<1> HIDE DEF w
<1>9. Announced(w, S, P) BY ONLY on \in BOOLEAN, <1>5, <1>6, <1>7, <1>8 DEF Announced
<1> QED BY <1>9 DEF w, S, H, P

\* A change of the active bit is told to every handle.
LEMMA AnnouncedAgain ==
  ASSUME NEW S, NEW P, NEW w, Announced(w, S, P), NEW on \in BOOLEAN,
         NEW H, H = IF w.active = on THEN w.inst ELSE {[i EXCEPT !.told = on] : i \in w.inst}
  PROVE  Announced([active |-> on, inst |-> H], S, P)
<1> DEFINE v == [active |-> on, inst |-> H]
<1>1. v.active = on /\ v.inst = H /\ v = [active |-> v.active, inst |-> v.inst] OBVIOUS
<1>2. ASSUME NEW i \in w.inst
      PROVE  /\ i = HandleOf(i.via, i.in, w.active)
             /\ i.via \in DOMAIN P /\ i.in \in DOMAIN P /\ P[i.via] = P[i.in]
  BY DEF Announced
<1>3. /\ \A i, j \in w.inst : i.in = j.in => i = j
      /\ \A m \in S : Alone(m, P) => HandleOf(m, m, w.active) \in w.inst
  BY DEF Announced
<1> HIDE DEF v
<1>4. H = {HandleOf(i.via, i.in, on) : i \in w.inst}
  <2>1. CASE w.active = on
    <3>1. \A i \in w.inst : i = HandleOf(i.via, i.in, on) BY <1>2, <2>1
    <3> QED BY <2>1, <3>1
  <2>2. CASE w.active # on
    <3>1. \A i \in w.inst : [i EXCEPT !.told = on] = HandleOf(i.via, i.in, on)
      <4> TAKE i \in w.inst
      <4>1. i = HandleOf(i.via, i.in, w.active) BY <1>2
      <4> QED BY ONLY <4>1 DEF HandleOf
    <3>2. H = {[i EXCEPT !.told = on] : i \in w.inst} BY <2>2
    <3> QED BY ONLY <3>1, <3>2
  <2> QED BY <2>1, <2>2
<1>5. ASSUME NEW i \in H
      PROVE  \E j \in w.inst : i = HandleOf(j.via, j.in, on) /\ i.via = j.via /\ i.in = j.in
  <2>1. PICK j \in w.inst : i = HandleOf(j.via, j.in, on) BY <1>4
  <2>2. i.via = j.via /\ i.in = j.in BY <2>1, HandleIs
  <2> QED BY <2>1, <2>2
<1>6. ASSUME NEW i \in H
      PROVE  i = HandleOf(i.via, i.in, on) /\ i.via \in DOMAIN P /\ i.in \in DOMAIN P /\ P[i.via] = P[i.in]
  <2>1. PICK j \in w.inst : i = HandleOf(j.via, j.in, on) /\ i.via = j.via /\ i.in = j.in BY <1>5
  <2> QED BY <1>2, <2>1
<1>7. ASSUME NEW i \in H, NEW j \in H, i.in = j.in PROVE i = j
  <2>1. PICK a \in w.inst : i = HandleOf(a.via, a.in, on) /\ i.in = a.in BY <1>5
  <2>2. PICK b \in w.inst : j = HandleOf(b.via, b.in, on) /\ j.in = b.in BY <1>5
  <2>3. a = b BY <1>3, <1>7, <2>1, <2>2
  <2> QED BY <2>1, <2>2, <2>3
<1>8. ASSUME NEW m \in S, Alone(m, P) PROVE HandleOf(m, m, on) \in H
  <2>1. HandleOf(m, m, w.active) \in w.inst BY <1>3, <1>8
  <2>2. HandleOf(m, m, w.active).via = m /\ HandleOf(m, m, w.active).in = m BY HandleIs
  <2> QED BY ONLY <1>4, <2>1, <2>2
<1>9. Announced(v, S, P) BY ONLY on \in BOOLEAN, <1>1, <1>6, <1>7, <1>8 DEF Announced
<1> QED BY <1>9 DEF v

LEMMA RefreshedGroups ==
  ASSUME WmInv, NEW d, \A o \in DOMAIN d : \A n \in DOMAIN d[o] : d[o][n] \in BOOLEAN,
         groups' = RefreshBars(d)
  PROVE  /\ DOMAIN groups' = DOMAIN d
         /\ \A o \in DOMAIN groups' :
              /\ Known(groups'[o], Range(strips), stripsPast)
              /\ DOMAIN groups'[o].ws = DOMAIN d[o]
              /\ \A n \in DOMAIN d[o] : groups'[o].ws[n].active = d[o][n]
<1> DEFINE holders(o) == IF o \in DOMAIN groups THEN groups[o].inst ELSE Range(strips)
           old(o, n) == o \in DOMAIN groups /\ n \in DOMAIN groups[o].ws
           again(o, n) == IF groups[o].ws[n].active = d[o][n] THEN groups[o].ws[n].inst
                          ELSE {[i EXCEPT !.told = d[o][n]] : i \in groups[o].ws[n].inst}
           space(o, n) == IF old(o, n) THEN [active |-> d[o][n], inst |-> again(o, n)]
                          ELSE [active |-> d[o][n], inst |-> NewHandles(holders(o), d[o][n])]
<1>1. groups' = [o \in DOMAIN d |-> [inst |-> holders(o), ws |-> [n \in DOMAIN d[o] |-> space(o, n)]]]
  BY DEF RefreshBars
<1>2. \A o \in DOMAIN d : Range(strips) \subseteq holders(o) /\ holders(o) \subseteq DOMAIN stripsPast
  BY DEF WmInv, Known
<1>3. ASSUME NEW o \in DOMAIN d, NEW n \in DOMAIN d[o]
      PROVE  Announced(space(o, n), Range(strips), stripsPast) /\ space(o, n).active = d[o][n]
  <2>1. d[o][n] \in BOOLEAN OBVIOUS
  <2>2. CASE old(o, n)
    <3>1. Announced(groups[o].ws[n], Range(strips), stripsPast) BY <2>2 DEF WmInv, Known
    <3>2. space(o, n) = [active |-> d[o][n], inst |-> again(o, n)] BY <2>2
    <3> HIDE DEF space
    <3>3. Announced([active |-> d[o][n], inst |-> again(o, n)], Range(strips), stripsPast)
      <4>1. PICK H : H = again(o, n) OBVIOUS
      <4>2. H = IF groups[o].ws[n].active = d[o][n] THEN groups[o].ws[n].inst
                ELSE {[i EXCEPT !.told = d[o][n]] : i \in groups[o].ws[n].inst}
        BY <4>1
      <4> HIDE DEF again
      <4> QED BY ONLY <2>1, <3>1, <4>1, <4>2, AnnouncedAgain
    <3> QED BY <3>2, <3>3
  <2>3. CASE ~old(o, n)
    <3>1. space(o, n) = [active |-> d[o][n], inst |-> NewHandles(holders(o), d[o][n])] BY <2>3
    <3> HIDE DEF space
    <3>2. Range(strips) \subseteq holders(o) /\ holders(o) \subseteq DOMAIN stripsPast BY <1>2
    <3> HIDE DEF holders
    <3>3. Announced([active |-> d[o][n], inst |-> NewHandles(holders(o), d[o][n])], Range(strips), stripsPast)
      BY <2>1, <3>2, AnnouncedFresh
    <3> QED BY <3>1, <3>3
  <2> QED BY <2>2, <2>3
<1> HIDE DEF holders, old, again, space
<1>4. ASSUME NEW o \in DOMAIN groups'
      PROVE  /\ Known(groups'[o], Range(strips), stripsPast)
             /\ DOMAIN groups'[o].ws = DOMAIN d[o]
             /\ \A n \in DOMAIN d[o] : groups'[o].ws[n].active = d[o][n]
  <2>1. /\ o \in DOMAIN d /\ groups'[o].inst = holders(o)
        /\ groups'[o].ws = [n \in DOMAIN d[o] |-> space(o, n)]
    BY <1>1
  <2>2. DOMAIN groups'[o].ws = DOMAIN d[o] /\ \A n \in DOMAIN d[o] : groups'[o].ws[n] = space(o, n)
    BY ONLY <2>1
  <2>3. Known(groups'[o], Range(strips), stripsPast)
    BY <1>2, <1>3, <2>1, <2>2 DEF Known
  <2> QED BY <1>3, <2>1, <2>2, <2>3
<1>5. DOMAIN groups' = DOMAIN d BY <1>1
<1> QED BY <1>4, <1>5

LEMMA RefreshesKeeps ==
  ASSUME WmInv, Refreshes, UNCHANGED <<strips, stripsPast>>
  PROVE  WmInv'
<1>1. PICK d : d = Desired' OBVIOUS
<1>2. /\ DOMAIN d = DOMAIN desk'
      /\ \A o \in DOMAIN d : DOMAIN d[o] = Advertised(o)' /\ \A n \in DOMAIN d[o] : d[o][n] \in BOOLEAN
  <2>1. d = [o \in DOMAIN desk' |-> [n \in Advertised(o)' |-> n = desk'[o].active]] BY <1>1 DEF Desired
  <2>2. DOMAIN d = DOMAIN desk' BY <2>1
  <2>3. ASSUME NEW o \in DOMAIN d PROVE DOMAIN d[o] = Advertised(o)' /\ \A n \in DOMAIN d[o] : d[o][n] \in BOOLEAN
    <3>1. d[o] = [n \in Advertised(o)' |-> n = desk'[o].active] BY <2>1, <2>2
    <3>2. DOMAIN d[o] = Advertised(o)' BY <3>1
    <3>3. ASSUME NEW n \in DOMAIN d[o] PROVE d[o][n] \in BOOLEAN
      <4>1. PICK b \in BOOLEAN : b = (n = desk'[o].active)
        <5>1. (n = desk'[o].active) \in BOOLEAN BY Zenon
        <5> QED BY ONLY <5>1, Zenon
      <4>2. d[o][n] = (n = desk'[o].active) BY ONLY <3>1, <3>2, n \in DOMAIN d[o], Zenon
      <4> QED BY ONLY <4>1, <4>2, Zenon
    <3> QED BY <3>2, <3>3
  <2> QED BY <2>2, <2>3
<1>3. groups' = RefreshBars(d) /\ silent' = FALSE BY <1>1 DEF Refreshes
<1>4. /\ DOMAIN groups' = DOMAIN d
      /\ \A o \in DOMAIN groups' :
           /\ Known(groups'[o], Range(strips), stripsPast)
           /\ DOMAIN groups'[o].ws = DOMAIN d[o]
           /\ \A n \in DOMAIN d[o] : groups'[o].ws[n].active = d[o][n]
  BY <1>2, <1>3, RefreshedGroups
<1>5. Mirrored'
  <2>1. DOMAIN groups' = DOMAIN desk' BY <1>2, <1>4
  <2>2. ASSUME NEW o \in DOMAIN groups'
        PROVE  /\ DOMAIN groups'[o].ws = Advertised(o)'
               /\ \A n \in Advertised(o)' : groups'[o].ws[n].active = Desired'[o][n]
    BY <1>1, <1>2, <1>4
  <2> QED BY <2>1, <2>2 DEF Mirrored
<1> QED BY <1>3, <1>4, <1>5 DEF WmInv

LEMMA PopulateKeeps ==
  ASSUME WmInv, silent' = TRUE, UNCHANGED <<groups, strips, stripsPast>>
  PROVE  WmInv'
  BY DEF WmInv

\* A strip that binds is told every group and workspace, through itself.
LEMMA BindStripKeeps ==
  ASSUME WmInv, NEW m \in Strips, NEW c \in BarClients, BindStrip(m, c)
  PROVE  WmInv'
<1>0. /\ m \notin DOMAIN stripsPast /\ stripsPast' = Entered(stripsPast, m, c) /\ strips' = Append(strips, m)
      /\ UNCHANGED <<desk, count, silent>>
  BY DEF BindStrip
<1>1. /\ m \notin DOMAIN stripsPast /\ strips' = Append(strips, m) /\ UNCHANGED <<desk, count, silent>>
      /\ DOMAIN stripsPast' = DOMAIN stripsPast \cup {m}
      /\ \A k \in DOMAIN stripsPast : stripsPast'[k] = stripsPast[k]
  BY <1>0 DEF Entered
<1> DEFINE greeted(o, n) == [groups[o].ws[n] EXCEPT !.inst = groups[o].ws[n].inst \cup {HandleOf(m, m, groups[o].ws[n].active)}]
<1>2. groups' = [o \in DOMAIN groups |-> [inst |-> groups[o].inst \cup {m},
                                          ws |-> [n \in DOMAIN groups[o].ws |-> greeted(o, n)]]]
  BY DEF BindStrip, HandleOf
<1>3. /\ strips' \in Seq(Strips) /\ IsInjective(strips') /\ Range(strips') = Range(strips) \cup {m}
  <2>1. strips \in Seq(Strips) /\ IsInjective(strips) /\ m \notin Range(strips) BY <1>1 DEF WmInv
  <2>2. /\ strips' \in Seq(Strips) /\ Len(strips') = Len(strips) + 1 /\ strips'[Len(strips) + 1] = m
        /\ \A i \in 1..Len(strips) : strips'[i] = strips[i]
    BY <1>1, <2>1
  <2>3. DOMAIN strips = 1..Len(strips) /\ DOMAIN strips' = 1..(Len(strips) + 1) /\ Len(strips) \in Nat
    BY <2>1, <2>2
  <2>4. Range(strips') = Range(strips) \cup {m}
    <3>1. ASSUME NEW i \in DOMAIN strips' PROVE strips'[i] \in Range(strips) \cup {m}
      <4>1. CASE i = Len(strips) + 1 BY <2>2, <4>1
      <4>2. CASE i # Len(strips) + 1
        <5>1. i \in 1..Len(strips) BY <2>3, <4>2
        <5> QED BY <2>2, <2>3, <5>1 DEF Range
      <4> QED BY <4>1, <4>2
    <3>2. ASSUME NEW i \in DOMAIN strips PROVE strips[i] \in Range(strips')
      <4>1. i \in DOMAIN strips' /\ strips'[i] = strips[i] BY <2>2, <2>3
      <4> QED BY <4>1 DEF Range
    <3>3. m \in Range(strips')
      <4>1. Len(strips) + 1 \in DOMAIN strips' BY <2>3
      <4> QED BY <2>2, <4>1 DEF Range
    <3> QED BY <3>1, <3>2, <3>3 DEF Range
  <2>5. IsInjective(strips')
    <3> SUFFICES ASSUME NEW i \in DOMAIN strips', NEW j \in DOMAIN strips', strips'[i] = strips'[j]
                 PROVE  i = j
      BY DEF IsInjective
    <3>1. CASE i \in 1..Len(strips) /\ j \in 1..Len(strips)
      BY <2>1, <2>2, <2>3, <3>1 DEF IsInjective
    <3>2. CASE i = Len(strips) + 1 /\ j \in 1..Len(strips)
      BY <2>1, <2>2, <2>3, <3>2 DEF Range
    <3>3. CASE i \in 1..Len(strips) /\ j = Len(strips) + 1
      BY <2>1, <2>2, <2>3, <3>3 DEF Range
    <3> QED BY <2>3, <3>1, <3>2, <3>3
  <2> QED BY <2>2, <2>4, <2>5
<1>4. ASSUME NEW o \in DOMAIN groups, NEW n \in DOMAIN groups[o].ws
      PROVE  /\ Announced(greeted(o, n), Range(strips'), stripsPast')
             /\ greeted(o, n).active = groups[o].ws[n].active
  <2> DEFINE w == groups[o].ws[n]
             v == greeted(o, n)
  <2>1. Announced(w, Range(strips), stripsPast) BY DEF WmInv, Known
  <2>0. v = [w EXCEPT !.inst = w.inst \cup {HandleOf(m, m, w.active)}] OBVIOUS
  <2> HIDE DEF v, w
  <2>2. /\ v = [active |-> v.active, inst |-> v.inst] /\ v.active = w.active
        /\ v.inst = w.inst \cup {HandleOf(m, m, w.active)}
    <3>1. w = [active |-> w.active, inst |-> w.inst] BY <2>1 DEF Announced
    <3> QED BY ONLY <2>0, <3>1
  <2>3. /\ \A i \in w.inst : /\ i = HandleOf(i.via, i.in, w.active)
                             /\ i.via \in DOMAIN stripsPast /\ i.in \in DOMAIN stripsPast
                             /\ stripsPast[i.via] = stripsPast[i.in]
        /\ \A i, j \in w.inst : i.in = j.in => i = j
        /\ \A k \in Range(strips) : Alone(k, stripsPast) => HandleOf(k, k, w.active) \in w.inst
    BY <2>1 DEF Announced
  <2> DEFINE new == HandleOf(m, m, w.active)
  <2>4. new.via = m /\ new.in = m /\ new = HandleOf(new.via, new.in, w.active) BY HandleIs
  <2> HIDE DEF new
  <2>5. v.inst = w.inst \cup {new} BY <2>2 DEF new
  <2>7. ASSUME NEW i \in v.inst
        PROVE  /\ i = HandleOf(i.via, i.in, v.active)
               /\ i.via \in DOMAIN stripsPast' /\ i.in \in DOMAIN stripsPast'
               /\ stripsPast'[i.via] = stripsPast'[i.in]
    <3>1. CASE i \in w.inst BY ONLY <1>1, <2>2, <2>3, <3>1
    <3>2. CASE i = new BY ONLY <1>1, <2>2, <2>4, <3>2
    <3> QED BY <2>5, <3>1, <3>2
  <2>8. ASSUME NEW i \in v.inst, NEW j \in v.inst, i.in = j.in PROVE i = j
    <3>1. \A k \in w.inst : k.in # m BY <1>1, <2>3
    <3> QED BY ONLY <2>3, <2>4, <2>5, <2>8, <3>1
  <2>9. ASSUME NEW k \in Range(strips'), Alone(k, stripsPast') PROVE HandleOf(k, k, v.active) \in v.inst
    <3>1. CASE k = m BY <2>2, <3>1
    <3>2. CASE k # m
      <4>1. k \in Range(strips) /\ k \in DOMAIN stripsPast BY <1>3, <3>2 DEF WmInv
      <4>2. Alone(k, stripsPast) BY <1>1, <2>9, <4>1 DEF Alone
      <4> QED BY <2>2, <2>3, <4>1, <4>2
    <3> QED BY <3>1, <3>2
  <2>10. v.active \in BOOLEAN BY <2>1, <2>2 DEF Announced
  <2>6. Announced(v, Range(strips'), stripsPast') BY ONLY <2>2, <2>7, <2>8, <2>9, <2>10 DEF Announced
  <2> QED BY <2>2, <2>6 DEF v, w
<1> HIDE DEF greeted
<1>5. ASSUME NEW o \in DOMAIN groups'
      PROVE  /\ Known(groups'[o], Range(strips'), stripsPast')
             /\ o \in DOMAIN groups /\ DOMAIN groups'[o].ws = DOMAIN groups[o].ws
             /\ \A n \in DOMAIN groups[o].ws : groups'[o].ws[n].active = groups[o].ws[n].active
  <2>1. /\ o \in DOMAIN groups /\ groups'[o].inst = groups[o].inst \cup {m}
        /\ groups'[o].ws = [n \in DOMAIN groups[o].ws |-> greeted(o, n)]
    BY <1>2
  <2>2. /\ DOMAIN groups'[o].ws = DOMAIN groups[o].ws
        /\ \A n \in DOMAIN groups[o].ws : groups'[o].ws[n] = greeted(o, n)
    BY ONLY <2>1
  <2>3. Range(strips) \subseteq groups[o].inst /\ groups[o].inst \subseteq DOMAIN stripsPast
    BY <2>1 DEF WmInv, Known
  <2>4. Known(groups'[o], Range(strips'), stripsPast')
    BY <1>1, <1>3, <1>4, <2>1, <2>2, <2>3 DEF Known
  <2> QED BY <1>4, <2>1, <2>2, <2>4
<1>6. silent' \in BOOLEAN /\ (~silent' => Mirrored')
  <2>1. DOMAIN groups' = DOMAIN groups BY <1>2
  <2>2. \A o : Advertised(o)' = Advertised(o) BY <1>1 DEF Advertised
  <2>3. Desired' = Desired BY <1>1, <2>2 DEF Desired
  <2>4. Mirrored => Mirrored' BY <1>1, <1>5, <2>1, <2>2, <2>3 DEF Mirrored
  <2> QED BY <1>1, <2>4 DEF WmInv
<1>7. Range(strips') \subseteq DOMAIN stripsPast' BY <1>1, <1>3 DEF WmInv
<1> QED BY <1>3, <1>5, <1>6, <1>7 DEF WmInv

LEMMA RemovedAt ==
  ASSUME NEW S, NEW s \in Seq(S), IsInjective(s), NEW i \in DOMAIN s
  PROVE  /\ RemoveAt(s, i) \in Seq(S) /\ IsInjective(RemoveAt(s, i))
         /\ Range(RemoveAt(s, i)) \subseteq Range(s)
<1> DEFINE t == RemoveAt(s, i)
           u == SubSeq(s, 1, i - 1)
           v == SubSeq(s, i + 1, Len(s))
<1>0. i \in 1..Len(s) /\ Len(s) \in Nat OBVIOUS
<1>1. u \in Seq(S) /\ Len(u) = i - 1 /\ \A j \in 1..(i - 1) : u[j] = s[j]
  BY <1>0
<1>2. v \in Seq(S) /\ Len(v) = Len(s) - i /\ \A j \in 1..(Len(s) - i) : v[j] = s[i + j]
  BY <1>0
<1>3. t = u \o v BY DEF RemoveAt
<1> HIDE DEF t, u, v
<1>4. t \in Seq(S) /\ Len(t) = Len(s) - 1
  <2>1. u \o v \in Seq(S) /\ Len(u \o v) = Len(u) + Len(v) BY <1>1, <1>2, ConcatProperties, Zenon
  <2> QED BY <2>1, <1>0, <1>1, <1>2, <1>3
<1>5. ASSUME NEW j \in 1..Len(t) PROVE t[j] = IF j < i THEN s[j] ELSE s[j + 1]
  <2>1. CASE j < i BY <2>1, <1>0, <1>1, <1>2, <1>3, <1>4
  <2>2. CASE ~ (j < i)
    <3>1. t[j] = v[j - (i - 1)] /\ j - (i - 1) \in 1..(Len(s) - i)
      BY <2>2, <1>0, <1>1, <1>2, <1>3, <1>4
    <3> QED BY <3>1, <2>2, <1>2, <1>0
  <2> QED BY <2>1, <2>2
<1>6. DOMAIN t = 1..Len(t) BY <1>4
<1>7. IsInjective(t)
  <2> SUFFICES ASSUME NEW j \in 1..Len(t), NEW k \in 1..Len(t), t[j] = t[k] PROVE j = k
    BY <1>6 DEF IsInjective
  <2> DEFINE J == IF j < i THEN j ELSE j + 1
             K == IF k < i THEN k ELSE k + 1
  <2>1. J \in 1..Len(s) /\ K \in 1..Len(s) /\ s[J] = s[K] BY <1>0, <1>4, <1>5
  <2>2. J = K BY <2>1 DEF IsInjective
  <2> QED BY <2>2, <1>0
<1>8. ASSUME NEW j \in 1..Len(t) PROVE t[j] \in Range(s)
  <2>1. CASE j < i
    <3>1. j \in DOMAIN s /\ t[j] = s[j] BY <1>0, <1>4, <1>5, <2>1
    <3> QED BY <3>1 DEF Range
  <2>2. CASE ~ (j < i)
    <3>1. j + 1 \in DOMAIN s /\ t[j] = s[j + 1] BY <1>0, <1>4, <1>5, <2>2
    <3> QED BY <3>1 DEF Range
  <2> QED BY <2>1, <2>2
<1>9. Range(t) \subseteq Range(s) BY <1>6, <1>8 DEF Range
<1> QED BY <1>4, <1>7, <1>9 DEF t

LEMMA StopStripKeeps ==
  ASSUME WmInv, NEW m \in Strips, StopStrip(m)
  PROVE  WmInv'
<1>1. PICK i \in DOMAIN strips : strips' = RemoveAt(strips, i) BY DEF StopStrip
<1>2. UNCHANGED <<desk, count, stripsPast, groups, silent>> BY DEF StopStrip
<1>3. strips' \in Seq(Strips) /\ IsInjective(strips') /\ Range(strips') \subseteq Range(strips)
  BY <1>1, RemovedAt DEF WmInv
<1>4. ASSUME NEW o \in DOMAIN groups PROVE Known(groups[o], Range(strips'), stripsPast)
  <2>1. Known(groups[o], Range(strips), stripsPast) BY DEF WmInv
  <2> QED BY <1>3, <2>1 DEF Known, Announced
<1>5. \A o : Advertised(o)' = Advertised(o) BY <1>2 DEF Advertised
<1>6. Desired' = Desired BY <1>2, <1>5 DEF Desired
<1>7. Mirrored => Mirrored' BY <1>2, <1>5, <1>6 DEF Mirrored
<1> QED BY <1>2, <1>3, <1>4, <1>7 DEF WmInv

\* The objects of a stopped manager go; the live ones are in none of its handles.
LEMMA ReleaseStripKeeps ==
  ASSUME WmInv, NEW m \in Strips, ReleaseStrip(m)
  PROVE  WmInv'
<1>1. m \notin Range(strips) /\ UNCHANGED <<desk, count, strips, stripsPast, silent>> BY DEF ReleaseStrip
<1> DEFINE left(o, n) == [groups[o].ws[n] EXCEPT !.inst = {i \in groups[o].ws[n].inst : i.via /= m /\ i.in /= m}]
<1>2. groups' = [o \in DOMAIN groups |-> [inst |-> groups[o].inst \ {m},
                                          ws |-> [n \in DOMAIN groups[o].ws |-> left(o, n)]]]
  BY DEF ReleaseStrip
<1>3. ASSUME NEW o \in DOMAIN groups, NEW n \in DOMAIN groups[o].ws
      PROVE  /\ Announced(left(o, n), Range(strips), stripsPast)
             /\ left(o, n).active = groups[o].ws[n].active
  <2> DEFINE w == groups[o].ws[n]
             v == left(o, n)
  <2>1. Announced(w, Range(strips), stripsPast) BY DEF WmInv, Known
  <2>2. v = [w EXCEPT !.inst = {i \in w.inst : i.via /= m /\ i.in /= m}] OBVIOUS
  <2> HIDE DEF v, w
  <2>3. /\ v = [active |-> v.active, inst |-> v.inst] /\ v.active = w.active
        /\ v.inst = {i \in w.inst : i.via /= m /\ i.in /= m}
    <3>1. w = [active |-> w.active, inst |-> w.inst] BY <2>1 DEF Announced
    <3> QED BY ONLY <2>2, <3>1
  <2>4. ASSUME NEW k \in Range(strips), Alone(k, stripsPast) PROVE HandleOf(k, k, v.active) \in v.inst
    <3>1. HandleOf(k, k, w.active) \in w.inst BY <2>1, <2>4 DEF Announced
    <3>2. k # m BY <1>1
    <3>3. HandleOf(k, k, w.active).via = k /\ HandleOf(k, k, w.active).in = k BY HandleIs
    <3> QED BY ONLY <2>3, <3>1, <3>2, <3>3
  <2>5. v.active \in BOOLEAN BY <2>1, <2>3 DEF Announced
  <2>6. /\ \A i \in v.inst : /\ i = HandleOf(i.via, i.in, v.active)
                             /\ i.via \in DOMAIN stripsPast /\ i.in \in DOMAIN stripsPast
                             /\ stripsPast[i.via] = stripsPast[i.in]
        /\ \A i, j \in v.inst : i.in = j.in => i = j
    BY <2>1, <2>3 DEF Announced
  <2>7. Announced(v, Range(strips), stripsPast) BY ONLY <2>3, <2>4, <2>5, <2>6 DEF Announced
  <2> QED BY <2>3, <2>7 DEF v, w
<1> HIDE DEF left
<1>4. ASSUME NEW o \in DOMAIN groups'
      PROVE  /\ Known(groups'[o], Range(strips), stripsPast)
             /\ o \in DOMAIN groups /\ DOMAIN groups'[o].ws = DOMAIN groups[o].ws
             /\ \A n \in DOMAIN groups[o].ws : groups'[o].ws[n].active = groups[o].ws[n].active
  <2>1. /\ o \in DOMAIN groups /\ groups'[o].inst = groups[o].inst \ {m}
        /\ groups'[o].ws = [n \in DOMAIN groups[o].ws |-> left(o, n)]
    BY <1>2
  <2>2. /\ DOMAIN groups'[o].ws = DOMAIN groups[o].ws
        /\ \A n \in DOMAIN groups[o].ws : groups'[o].ws[n] = left(o, n)
    BY ONLY <2>1
  <2>3. Range(strips) \subseteq groups[o].inst /\ groups[o].inst \subseteq DOMAIN stripsPast
    BY <2>1 DEF WmInv, Known
  <2>4. Known(groups'[o], Range(strips), stripsPast) BY <1>1, <1>3, <2>1, <2>2, <2>3 DEF Known
  <2> QED BY <1>3, <2>1, <2>2, <2>4
<1>5. DOMAIN groups' = DOMAIN groups BY <1>2
<1>6. \A o : Advertised(o)' = Advertised(o) BY <1>1 DEF Advertised
<1>7. Desired' = Desired BY <1>1, <1>6 DEF Desired
<1>8. Mirrored => Mirrored' BY <1>1, <1>4, <1>5, <1>6, <1>7 DEF Mirrored
<1> QED BY <1>1, <1>4, <1>8 DEF WmInv

LEMMA WmStep == WmInv /\ [WmNext]_wmVars => WmInv'
<1> SUFFICES ASSUME WmInv, [WmNext]_wmVars PROVE WmInv'
  OBVIOUS
<1>1. CASE UNCHANGED wmVars
  <2>1. UNCHANGED <<desk, count, strips, stripsPast, groups, silent>> BY <1>1 DEF wmVars
  <2>2. \A o : Advertised(o)' = Advertised(o) BY <2>1 DEF Advertised
  <2>3. Desired' = Desired BY <2>1, <2>2 DEF Desired
  <2>4. Mirrored => Mirrored' BY <2>1, <2>2, <2>3 DEF Mirrored
  <2> QED BY <2>1, <2>4 DEF WmInv
<1>2. ASSUME NEW o \in Screens, ConnectScreen(o) \/ DisconnectScreen(o) PROVE WmInv'
  BY <1>2, RefreshesKeeps DEF ConnectScreen, DisconnectScreen
<1>3. ASSUME NEW o \in Screens, NEW n \in Numbers, NEW S \in SUBSET Numbers, SwitchScreen(o, n, S) PROVE WmInv'
  BY <1>3, RefreshesKeeps DEF SwitchScreen
<1>4. ASSUME NEW n \in {0} \cup Numbers, ReloadCount(n) PROVE WmInv'
  BY <1>4, RefreshesKeeps DEF ReloadCount
<1>5. ASSUME NEW o \in Screens, NEW S \in SUBSET Numbers, Populate(o, S) PROVE WmInv'
  BY <1>5, PopulateKeeps DEF Populate, StaysSilent
<1> QED BY <1>1, <1>2, <1>3, <1>4, <1>5, BindStripKeeps, StopStripKeeps, ReleaseStripKeeps DEF WmNext

LEMMA WmInvShows == WmInv => WorkspaceBars
<1> SUFFICES ASSUME WmInv PROVE WorkspaceBars
  OBVIOUS
<1>1. ASSUME ~silent
      PROVE  /\ DOMAIN groups = DOMAIN desk
             /\ \A o \in DOMAIN groups : [n \in DOMAIN groups[o].ws |-> groups[o].ws[n].active] = Desired[o]
  <2>1. Mirrored BY <1>1 DEF WmInv
  <2>2. ASSUME NEW o \in DOMAIN groups
        PROVE  [n \in DOMAIN groups[o].ws |-> groups[o].ws[n].active] = Desired[o]
    <3>1. o \in DOMAIN desk /\ DOMAIN groups[o].ws = Advertised(o)
      BY <2>1 DEF Mirrored
    <3>2. Desired[o] = [n \in Advertised(o) |-> n = desk[o].active] BY <3>1 DEF Desired
    <3>3. \A n \in Advertised(o) : Desired[o][n] = (n = desk[o].active) BY ONLY <3>2, Zenon
    <3>4. \A n \in Advertised(o) : groups[o].ws[n].active = Desired[o][n] BY <2>1 DEF Mirrored
    <3>5. \A n \in Advertised(o) : groups[o].ws[n].active = (n = desk[o].active) BY ONLY <3>3, <3>4, Zenon
    <3>6. [n \in Advertised(o) |-> groups[o].ws[n].active] = [n \in Advertised(o) |-> n = desk[o].active]
      BY ONLY <3>5, Zenon
    <3> QED BY ONLY <3>1, <3>2, <3>6, Zenon
  <2> QED BY <2>1, <2>2 DEF Mirrored
<1>2. ASSUME NEW o \in DOMAIN groups
      PROVE  /\ Range(strips) \subseteq groups[o].inst
             /\ \A n \in DOMAIN groups[o].ws : Announced(groups[o].ws[n], Range(strips), stripsPast)
  BY DEF WmInv, Known
<1>3. ASSUME NEW o \in DOMAIN groups, NEW n \in DOMAIN groups[o].ws, NEW m \in DOMAIN stripsPast
      PROVE  /\ \A i, j \in Shown(m, o, n) : i = j
             /\ \A i \in Shown(m, o, n) :
                  i.told = groups[o].ws[n].active /\ stripsPast[i.via] = stripsPast[m]
             /\ m \in Range(strips) /\ OnlyOne(m) => \E i \in Shown(m, o, n) : i.via = m
  <2> DEFINE w == groups[o].ws[n]
  <2>1. Announced(w, Range(strips), stripsPast) BY <1>2
  <2>2. Shown(m, o, n) = {i \in w.inst : i.in = m} BY DEF Shown
  <2> HIDE DEF w
  <2>3. \A i, j \in Shown(m, o, n) : i = j BY <2>1, <2>2 DEF Announced
  <2>4. ASSUME NEW i \in Shown(m, o, n) PROVE i.told = w.active /\ stripsPast[i.via] = stripsPast[m]
    <3>1. i = HandleOf(i.via, i.in, w.active) /\ stripsPast[i.via] = stripsPast[i.in] /\ i.in = m
      BY <2>1, <2>2 DEF Announced
    <3>2. HandleOf(i.via, i.in, w.active).told = w.active BY HandleIs
    <3> QED BY <3>1, <3>2
  <2>5. ASSUME m \in Range(strips), OnlyOne(m) PROVE \E i \in Shown(m, o, n) : i.via = m
    <3>1. Alone(m, stripsPast) BY <2>5 DEF OnlyOne, Alone
    <3>2. HandleOf(m, m, w.active) \in w.inst BY <2>1, <2>5, <3>1 DEF Announced
    <3>3. HandleOf(m, m, w.active).via = m /\ HandleOf(m, m, w.active).in = m BY HandleIs
    <3> QED BY ONLY <2>2, <3>2, <3>3
  <2> QED BY <2>3, <2>4, <2>5 DEF w
<1> QED BY <1>1, <1>2, <1>3 DEF WorkspaceBars

LEMMA MirrorsInit == (TmInit => TmInv) /\ (WmInit => WmInv)
<1>1. ASSUME TmInit PROVE TmInv
  <2>1. \A m \in Bars : DOMAIN entries[m] = {} BY <1>1 DEF TmInit
  <2> QED BY <1>1, <2>1 DEF TmInit, TmInv, Lists
<1>2. ASSUME WmInit PROVE WmInv
  <2>1. DOMAIN groups = {} /\ DOMAIN desk = {} /\ DOMAIN strips = {} BY <1>2 DEF WmInit
  <2>2. strips \in Seq(Strips) /\ IsInjective(strips) /\ Range(strips) = {}
    BY <1>2, <2>1 DEF WmInit, IsInjective, Range
  <2>3. Mirrored BY <2>1 DEF Mirrored
  <2> QED BY <1>2, <2>1, <2>2, <2>3 DEF WmInit, WmInv
<1> QED BY <1>1, <1>2

(* Taskbars list live windows under their titles; every object shows the    *)
(* last broadcast, one younger than it the empty state, and what was        *)
(* broadcast is the truth but after a silent toggle_floating.  Workspace    *)
(* bars are told of no workspace twice and of each the right state, and a   *)
(* client's only bar of them all: send_state, bind and refresh reach every  *)
(* object there is.                                                         *)
THEOREM BarsShowWhatThereIs == TmSpec /\ WmSpec => []MirrorsAgree
<1>1. (TmInit => TmInv) /\ (WmInit => WmInv) BY MirrorsInit
<1>2. TmInv /\ [TmNext]_tmVars => TmInv' BY TmStep
<1>3. WmInv /\ [WmNext]_wmVars => WmInv' BY WmStep
<1>4. TmInv => TaskbarEntries BY DEF TmInv, Lists, ToldOf, TaskbarEntries
<1>5. TmInv /\ WmInv => MirrorsAgree BY <1>4, WmInvShows DEF MirrorsAgree
<1> QED BY <1>1, <1>2, <1>3, <1>5, PTL DEF TmSpec, WmSpec

-----------------------------------------------------------------------------
(* IPC subscribers *)

\* Every set of natural numbers has a least element.
LEMMA Lowest ==
  ASSUME NEW S \in SUBSET Nat, S # {}
  PROVE  \E m \in S : \A k \in S : m <= k
<1>1. \E m \in S : \A k \in S : ~ (<<k, m>> \in OpToRel(<, Nat))
  BY NatLessThanWellFounded, WFMin
<1>2. PICK m \in S : \A k \in S : ~ (k < m) BY <1>1, Zenon DEF OpToRel
<1>3. \A k \in S : m <= k BY <1>2
<1> QED BY <1>3

\* What a subscriber may have been told, and the lines that told it.
Ears == [at : 0 .. Desktops, mode : 0 .. 2, scroll : 0 .. 2, broken : BOOLEAN]
Lines == [kind : {"ack"}] \cup [kind : {"workspace"}, from : 1 .. Desktops, to : 1 .. Desktops]
           \cup [kind : {"mode", "scroll"}, to : 1 .. 2]

LEMMA HearIs ==
  ASSUME NEW h \in Ears, NEW x \in Lines
  PROVE  /\ Hear(h, x) \in Ears
         /\ Hear(h, x).broken <=> h.broken \/ (x.kind = "workspace" /\ h.at # x.from)
         /\ Hear(h, x).at = IF x.kind = "workspace" THEN x.to ELSE h.at
         /\ Hear(h, x).mode = IF x.kind = "mode" THEN x.to ELSE h.mode
         /\ Hear(h, x).scroll = IF x.kind = "scroll" THEN x.to ELSE h.scroll
<1>1. CASE x.kind = "workspace"
  <2>1. x.to \in 0 .. Desktops
    <3>1. x.to \in 1 .. Desktops BY <1>1 DEF Lines
    <3> QED BY <3>1, IpcAssumption
  <2>2. Hear(h, x) = [h EXCEPT !.at = x.to, !.broken = h.broken \/ h.at # x.from]
    BY <1>1 DEF Hear
  <2> QED BY <1>1, <2>1, <2>2 DEF Ears
<1>2. CASE x.kind = "mode"
  <2>1. x.to \in 1 .. 2 BY <1>2 DEF Lines
  <2>2. Hear(h, x) = [h EXCEPT !.mode = x.to] BY <1>2 DEF Hear
  <2> QED BY <1>2, <2>1, <2>2 DEF Ears
<1>3. CASE x.kind = "scroll"
  <2>1. x.to \in 1 .. 2 BY <1>3 DEF Lines
  <2>2. Hear(h, x) = [h EXCEPT !.scroll = x.to] BY <1>3 DEF Hear
  <2> QED BY <1>3, <2>1, <2>2 DEF Ears
<1>4. CASE x.kind = "ack"
  <2>1. Hear(h, x) = h BY <1>4 DEF Hear
  <2> QED BY <1>4, <2>1 DEF Ears
<1>5. x.kind \in {"ack", "workspace", "mode", "scroll"} BY DEF Lines
<1> QED BY <1>1, <1>2, <1>3, <1>4, <1>5

\* Hearing the first n lines of L, line by line.
Run(w, h, L, n) == w = [i \in 0 .. n |-> IF i = 0 THEN h ELSE Hear(w[i - 1], L[i])]

LEMMA RunExists ==
  ASSUME NEW h, NEW L, NEW n \in Nat
  PROVE  \E w : Run(w, h, L, n)
<1> DEFINE Bad == {m \in Nat : ~\E w : Run(w, h, L, m)}
<1>1. SUFFICES ASSUME Bad # {} PROVE FALSE BY Zenon
<1>2. PICK m \in Bad : \A k \in Bad : m <= k
  <2>1. Bad \in SUBSET Nat OBVIOUS
  <2> HIDE DEF Bad
  <2> QED BY <1>1, <2>1, Lowest
<1>3. m \in Nat /\ \A k \in Nat : k < m => k \notin Bad BY <1>2
<1>4. CASE m = 0
  <2> DEFINE f == [i \in 0 .. m |-> h]
  <2>1. f = [i \in 0 .. m |-> IF i = 0 THEN h ELSE Hear(f[i - 1], L[i])] BY <1>4
  <2>2. Run(f, h, L, m) BY <2>1 DEF Run
  <2> QED BY <2>2
<1>5. CASE m # 0
  <2>1. m \in Nat /\ m - 1 \in Nat /\ m - 1 < m BY <1>5
  <2>2. m - 1 \notin Bad
    <3> HIDE DEF Bad
    <3> QED BY <1>3, <2>1
  <2>3. PICK g : Run(g, h, L, m - 1) BY <2>1, <2>2
  <2> DEFINE f == [i \in 0 .. m |-> IF i = m THEN Hear(g[m - 1], L[m]) ELSE g[i]]
  <2>4. g = [i \in 0 .. m - 1 |-> IF i = 0 THEN h ELSE Hear(g[i - 1], L[i])]
    BY <2>3 DEF Run
  <2>5. f = [i \in 0 .. m |-> IF i = 0 THEN h ELSE Hear(f[i - 1], L[i])]
    <3>1. ASSUME NEW i \in 0 .. m
          PROVE  f[i] = IF i = 0 THEN h ELSE Hear(f[i - 1], L[i])
      <4>1. CASE i = m BY <1>5, <2>1, <4>1
      <4>2. CASE i # m
        <5>1. i \in 0 .. m - 1 BY <2>1, <3>1, <4>2
        <5>2. f[i] = g[i] BY <4>2
        <5>3. i # 0 => f[i - 1] = g[i - 1] BY <2>1, <5>1
        <5> QED BY <2>4, <5>1, <5>2, <5>3
      <4> QED BY <4>1, <4>2
    <3>2. f = [i \in 0 .. m |-> f[i]] OBVIOUS
    <3> HIDE DEF f
    <3> QED BY <3>1, <3>2
  <2>6. Run(f, h, L, m) BY <2>5 DEF Run
  <2> HIDE DEF f
  <2> QED BY <2>6
<1> QED BY <1>4, <1>5

LEMMA RunIs ==
  ASSUME NEW w, NEW h, NEW L, NEW n \in Nat, Run(w, h, L, n)
  PROVE  /\ w[0] = h /\ \A i \in 1 .. n : i - 1 \in 0 .. n /\ w[i] = Hear(w[i - 1], L[i])
         /\ w = [i \in 0 .. n |-> w[i]]
<1>1. w = [i \in 0 .. n |-> IF i = 0 THEN h ELSE Hear(w[i - 1], L[i])] BY DEF Run
<1>2. \A i \in 0 .. n : w[i] = IF i = 0 THEN h ELSE Hear(w[i - 1], L[i]) BY <1>1, Zenon
<1>3. 0 \in 0 .. n /\ \A i \in 1 .. n : i \in 0 .. n /\ i # 0 /\ i - 1 \in 0 .. n OBVIOUS
<1>4. w = [i \in 0 .. n |-> w[i]] BY <1>1
<1> QED BY <1>2, <1>3, <1>4

\* What is heard of the same lines is the same.
LEMMA RunUnique ==
  ASSUME NEW w, NEW v, NEW h, NEW L, NEW n \in Nat, Run(w, h, L, n), Run(v, h, L, n)
  PROVE  w = v
<1>1. /\ w[0] = h /\ \A i \in 1 .. n : i - 1 \in 0 .. n /\ w[i] = Hear(w[i - 1], L[i])
      /\ w = [i \in 0 .. n |-> w[i]]
  BY RunIs
<1>2. /\ v[0] = h /\ \A i \in 1 .. n : i - 1 \in 0 .. n /\ v[i] = Hear(v[i - 1], L[i])
      /\ v = [i \in 0 .. n |-> v[i]]
  BY RunIs
<1> DEFINE Bad == {i \in 0 .. n : w[i] # v[i]}
<1>3. Bad = {}
  <2>1. SUFFICES ASSUME Bad # {} PROVE FALSE OBVIOUS
  <2>2. PICK m \in Bad : \A k \in Bad : m <= k
    <3>1. Bad \in SUBSET Nat OBVIOUS
    <3> HIDE DEF Bad
    <3> QED BY <2>1, <3>1, Lowest
  <2>3. m # 0 BY <1>1, <1>2
  <2>4. m \in 1 .. n /\ ~(m <= m - 1) BY <2>3
  <2>5. m - 1 \notin Bad
    <3> HIDE DEF Bad
    <3> QED BY <2>2, <2>4
  <2>6. m - 1 \in 0 .. n BY <2>4
  <2>7. w[m - 1] = v[m - 1] BY <2>5, <2>6
  <2>8. w[m] = v[m] BY <1>1, <1>2, <2>4, <2>7
  <2> QED BY <2>8
<1>4. \A i \in 0 .. n : w[i] = v[i] BY <1>3
<1> QED BY <1>1, <1>2, <1>4

LEMMA HeardAllIs ==
  ASSUME NEW h, NEW L, Len(L) \in Nat, NEW w, Run(w, h, L, Len(L))
  PROVE  HeardAll(h, L) = w[Len(L)]
<1>1. HeardAll(h, L) = (CHOOSE v : Run(v, h, L, Len(L)))[Len(L)] BY DEF HeardAll, Run
<1>2. Run(CHOOSE v : Run(v, h, L, Len(L)), h, L, Len(L)) OBVIOUS
<1>3. (CHOOSE v : Run(v, h, L, Len(L))) = w BY <1>2, RunUnique
<1> QED BY <1>1, <1>3

\* A part of a run is one.
LEMMA RunPart ==
  ASSUME NEW w, NEW h, NEW L, NEW n \in Nat, Run(w, h, L, n),
         NEW k \in Nat, NEW M, NEW m \in Nat, k + m <= n,
         \A i \in 1 .. m : M[i] = L[k + i]
  PROVE  Run([i \in 0 .. m |-> w[k + i]], w[k], M, m)
<1> DEFINE v == [i \in 0 .. m |-> w[k + i]]
<1>1. \A i \in 1 .. n : w[i] = Hear(w[i - 1], L[i]) BY RunIs
<1>2. ASSUME NEW i \in 0 .. m PROVE v[i] = IF i = 0 THEN w[k] ELSE Hear(v[i - 1], M[i])
  <2>1. CASE i = 0 BY <2>1
  <2>2. CASE i # 0
    <3>1. i \in 1 .. m /\ k + i \in 1 .. n /\ (k + i) - 1 = k + (i - 1) /\ i - 1 \in 0 .. m
      BY <2>2
    <3>2. v[i] = w[k + i] /\ v[i - 1] = w[k + (i - 1)] BY <3>1
    <3>3. M[i] = L[k + i] BY <3>1
    <3>4. w[k + i] = Hear(w[(k + i) - 1], L[k + i]) BY <1>1, <3>1
    <3> QED BY <2>2, <3>1, <3>2, <3>3, <3>4
  <2> QED BY <2>1, <2>2
<1>3. v = [i \in 0 .. m |-> v[i]] OBVIOUS
<1>4. v = [i \in 0 .. m |-> IF i = 0 THEN w[k] ELSE Hear(v[i - 1], M[i])]
  <2> HIDE DEF v
  <2> QED BY <1>2, <1>3
<1>5. Run(v, w[k], M, m) BY <1>4, Zenon DEF Run
<1> QED BY <1>5

LEMMA HearNone ==
  ASSUME NEW h PROVE HeardAll(h, <<>>) = h
<1>1. Len(<<>>) = 0 OBVIOUS
<1>2. PICK w : Run(w, h, <<>>, 0) BY RunExists
<1>3. HeardAll(h, <<>>) = w[0] BY <1>1, <1>2, HeardAllIs
<1> QED BY <1>2, <1>3, RunIs

LEMMA HearOne ==
  ASSUME NEW h, NEW L \in Seq(Lines), NEW x \in Lines
  PROVE  HeardAll(h, Append(L, x)) = Hear(HeardAll(h, L), x)
<1> DEFINE M == Append(L, x)
           n == Len(L)
<1>1. n \in Nat /\ n + 1 \in Nat BY LenProperties
<1>2. Len(M) = n + 1 /\ M[n + 1] = x /\ \A i \in 1 .. n : M[i] = L[i] BY AppendProperties
<1> HIDE DEF M, n
<1>3. PICK w : Run(w, h, M, n + 1) BY <1>1, RunExists
<1>4. HeardAll(h, M) = w[n + 1] BY <1>1, <1>2, <1>3, HeardAllIs
<1>5. w[0] = h /\ w[n + 1] = Hear(w[n], M[n + 1])
  <2>1. n + 1 \in 1 .. n + 1 /\ (n + 1) - 1 = n BY <1>1
  <2> QED BY <1>1, <1>3, <2>1, RunIs
<1>6. HeardAll(h, L) = w[n]
  <2> DEFINE v == [i \in 0 .. n |-> w[0 + i]]
  <2>1. \A i \in 1 .. n : L[i] = M[0 + i] BY <1>1, <1>2
  <2>2. 0 \in Nat /\ 0 + n <= n + 1 BY <1>1
  <2>3. Run(v, w[0], L, n) BY <1>1, <1>3, <2>1, <2>2, RunPart
  <2>4. v[n] = w[n] BY <1>1
  <2> HIDE DEF v
  <2> QED BY <1>1, <1>5, <2>3, <2>4, HeardAllIs DEF n
<1> QED BY <1>2, <1>4, <1>5, <1>6 DEF M

\* Hearing some lines now and the rest later is hearing them all.
LEMMA HearSplit ==
  ASSUME NEW h, NEW L \in Seq(Lines), NEW n \in 0 .. Len(L)
  PROVE  /\ SubSeq(L, 1, n) \in Seq(Lines) /\ SubSeq(L, n + 1, Len(L)) \in Seq(Lines)
         /\ Len(SubSeq(L, n + 1, Len(L))) = Len(L) - n
         /\ HeardAll(HeardAll(h, SubSeq(L, 1, n)), SubSeq(L, n + 1, Len(L))) = HeardAll(h, L)
<1> DEFINE A == SubSeq(L, 1, n)
           B == SubSeq(L, n + 1, Len(L))
           m == Len(L) - n
<1>1. Len(L) \in Nat /\ n \in Nat /\ m \in Nat /\ n <= Len(L) BY LenProperties
<1>2. \A i \in 1 .. Len(L) : L[i] \in Lines BY ElementOfSeq
<1>3. A \in Seq(Lines) /\ Len(A) = n /\ \A i \in 1 .. n : A[i] = L[0 + i]
  <2>1. \A i \in 1 .. n : L[i] \in Lines BY <1>1, <1>2
  <2>2. /\ SubSeq(L, 1, n) \in Seq(Lines)
        /\ Len(SubSeq(L, 1, n)) = IF 1 <= n THEN n - 1 + 1 ELSE 0
        /\ \A i \in 1 .. n - 1 + 1 : SubSeq(L, 1, n)[i] = L[1 + i - 1]
    BY <1>1, <2>1, SubSeqProperties
  <2>3. n - 1 + 1 = n /\ (~(1 <= n) => n = 0) BY <1>1
  <2>4. \A i \in 1 .. n : 1 + i - 1 = 0 + i OBVIOUS
  <2> QED BY <2>2, <2>3, <2>4
<1>4. B \in Seq(Lines) /\ Len(B) = m /\ \A i \in 1 .. m : B[i] = L[n + i]
  <2>1. \A i \in n + 1 .. Len(L) : L[i] \in Lines BY <1>1, <1>2
  <2>2. /\ SubSeq(L, n + 1, Len(L)) \in Seq(Lines)
        /\ Len(SubSeq(L, n + 1, Len(L))) = IF n + 1 <= Len(L) THEN Len(L) - (n + 1) + 1 ELSE 0
        /\ \A i \in 1 .. Len(L) - (n + 1) + 1 : SubSeq(L, n + 1, Len(L))[i] = L[n + 1 + i - 1]
    BY <1>1, <2>1, SubSeqProperties
  <2>3. Len(L) - (n + 1) + 1 = m /\ (~(n + 1 <= Len(L)) => m = 0) BY <1>1
  <2>4. \A i \in 1 .. m : n + 1 + i - 1 = n + i BY <1>1
  <2> QED BY <2>2, <2>3, <2>4
<1>5. PICK w : Run(w, h, L, Len(L)) BY <1>1, RunExists
<1>6. HeardAll(h, L) = w[Len(L)] /\ w[0] = h BY <1>1, <1>5, HeardAllIs, RunIs
<1>7. HeardAll(h, A) = w[n]
  <2> DEFINE v == [i \in 0 .. n |-> w[0 + i]]
  <2>1. 0 \in Nat /\ 0 + n <= Len(L) BY <1>1
  <2>2. v[n] = w[n] BY <1>1
  <2> HIDE DEF A, B, m
  <2>3. Run(v, w[0], A, n) BY <1>1, <1>3, <1>5, <2>1, RunPart
  <2> HIDE DEF v
  <2> QED BY <1>1, <1>3, <1>6, <2>2, <2>3, HeardAllIs
<1>8. HeardAll(w[n], B) = w[Len(L)]
  <2> DEFINE v == [i \in 0 .. m |-> w[n + i]]
  <2>1. n + m <= Len(L) /\ n + m = Len(L) BY <1>1
  <2>2. v[m] = w[Len(L)] BY <1>1, <2>1
  <2> HIDE DEF A, B, m
  <2>3. Run(v, w[n], B, m) BY <1>1, <1>4, <1>5, <2>1, RunPart
  <2> HIDE DEF v
  <2> QED BY <1>1, <1>4, <2>2, <2>3, HeardAllIs
<1> QED BY <1>3, <1>4, <1>6, <1>7, <1>8

\* Whoever has lost the thread once has lost it.
LEMMA HearTyped ==
  ASSUME NEW h \in Ears, NEW L \in Seq(Lines), NEW w, Run(w, h, L, Len(L))
  PROVE  \A i \in 0 .. Len(L) : w[i] \in Ears /\ (h.broken => w[i].broken)
<1> DEFINE n == Len(L)
           Good(i) == w[i] \in Ears /\ (h.broken => w[i].broken)
           Bad == {i \in 0 .. n : ~Good(i)}
<1>1. n \in Nat BY LenProperties
<1>2. w[0] = h /\ \A i \in 1 .. n : i - 1 \in 0 .. n /\ w[i] = Hear(w[i - 1], L[i])
  BY <1>1, RunIs
<1>3. \A i \in 1 .. n : L[i] \in Lines BY ElementOfSeq
<1>4. Bad = {}
  <2>1. SUFFICES ASSUME Bad # {} PROVE FALSE OBVIOUS
  <2>2. PICK m \in Bad : \A k \in Bad : m <= k
    <3>1. Bad \in SUBSET Nat BY <1>1
    <3> HIDE DEF Bad
    <3> QED BY <2>1, <3>1, Lowest
  <2>3. m # 0 BY <1>2
  <2>4. m \in 1 .. n /\ ~(m <= m - 1) BY <1>1, <2>3
  <2>5. m - 1 \notin Bad
    <3> HIDE DEF Bad
    <3> QED BY <2>2, <2>4
  <2>6. Good(m - 1) BY <1>2, <2>4, <2>5
  <2>7. Good(m)
    <3>1. w[m] = Hear(w[m - 1], L[m]) /\ L[m] \in Lines BY <1>2, <1>3, <2>4
    <3> DEFINE e == w[m - 1]
               x == L[m]
    <3>2. e \in Ears /\ x \in Lines /\ (h.broken => e.broken) BY <2>6, <3>1
    <3> HIDE DEF e, x
    <3>3. Hear(e, x) \in Ears /\ (e.broken => Hear(e, x).broken) BY <3>2, HearIs
    <3> QED BY <3>1, <3>2, <3>3 DEF e, x
  <2> QED BY <2>2, <2>7
<1> QED BY <1>4

LEMMA HeardTyped ==
  ASSUME NEW h \in Ears, NEW L \in Seq(Lines)
  PROVE  HeardAll(h, L) \in Ears /\ (h.broken => HeardAll(h, L).broken)
<1>1. Len(L) \in Nat BY LenProperties
<1>2. PICK w : Run(w, h, L, Len(L)) BY <1>1, RunExists
<1>3. HeardAll(h, L) = w[Len(L)] BY <1>1, <1>2, HeardAllIs
<1>4. Len(L) \in 0 .. Len(L) BY <1>1
<1> QED BY <1>2, <1>3, <1>4, HearTyped

LEMMA LearnedIs ==
  ASSUME NEW h \in Ears, NEW now \in Facts
  PROVE  /\ Learned(h, now) \in Ears /\ (Learned(h, now).broken <=> h.broken)
         /\ Learned(h, now).at = h.at
         /\ Learned(h, now).mode = IF h.mode = 0 THEN now.mode ELSE h.mode
         /\ Learned(h, now).scroll = IF h.scroll = 0 THEN now.scroll ELSE h.scroll
<1> DEFINE m == IF h.mode = 0 THEN now.mode ELSE h.mode
           s == IF h.scroll = 0 THEN now.scroll ELSE h.scroll
<1>1. m \in 0 .. 2 /\ s \in 0 .. 2
  <2>1. now.mode \in 1 .. 2 /\ now.scroll \in 1 .. 2 BY DEF Facts
  <2>2. h.mode \in 0 .. 2 /\ h.scroll \in 0 .. 2 BY DEF Ears
  <2> QED BY <2>1, <2>2
<1>2. Learned(h, now) = [h EXCEPT !.mode = m, !.scroll = s] BY DEF Learned
<1> HIDE DEF m, s
<1>3. h = [at |-> h.at, mode |-> h.mode, scroll |-> h.scroll, broken |-> h.broken] BY DEF Ears
<1>4. Learned(h, now) = [at |-> h.at, mode |-> m, scroll |-> s, broken |-> h.broken]
  BY <1>2, <1>3
<1>5. h.at \in 0 .. Desktops /\ h.broken \in BOOLEAN BY DEF Ears
<1> QED BY <1>1, <1>4, <1>5 DEF Ears, m, s

\* Asking before the lines come or after tells the same.
LEMMA LearnThenHear ==
  ASSUME NEW h \in Ears, NEW L \in Seq(Lines), NEW now \in Facts
  PROVE  HeardAll(Learned(h, now), L) = Learned(HeardAll(h, L), now)
<1> DEFINE n == Len(L)
<1>1. n \in Nat BY LenProperties
<1>2. PICK w : Run(w, h, L, n) BY <1>1, RunExists
<1>3. \A i \in 0 .. n : w[i] \in Ears BY <1>2, HearTyped
<1>4. w[0] = h /\ \A i \in 1 .. n : i - 1 \in 0 .. n /\ w[i] = Hear(w[i - 1], L[i])
  BY <1>1, <1>2, RunIs
<1>5. \A i \in 1 .. n : L[i] \in Lines BY ElementOfSeq
<1>6. ASSUME NEW e \in Ears, NEW x \in Lines
      PROVE  Learned(Hear(e, x), now) = Hear(Learned(e, now), x)
  <2> DEFINE a == Learned(Hear(e, x), now)
             b == Hear(Learned(e, now), x)
  <2>1. Hear(e, x) \in Ears /\ Learned(e, now) \in Ears BY HearIs, LearnedIs
  <2>2. a \in Ears /\ b \in Ears BY <2>1, HearIs, LearnedIs
  <2>3. a.broken <=> b.broken BY <2>1, HearIs, LearnedIs
  <2>4. a.at = b.at BY <2>1, HearIs, LearnedIs
  <2>5. x.kind \in {"mode", "scroll"} => x.to # 0 BY DEF Lines
  <2>6. a.mode = b.mode
    <3>1. a.mode = IF Hear(e, x).mode = 0 THEN now.mode ELSE Hear(e, x).mode BY <2>1, LearnedIs
    <3>2. Hear(e, x).mode = IF x.kind = "mode" THEN x.to ELSE e.mode BY HearIs
    <3>3. b.mode = IF x.kind = "mode" THEN x.to ELSE Learned(e, now).mode BY <2>1, HearIs
    <3>4. Learned(e, now).mode = IF e.mode = 0 THEN now.mode ELSE e.mode BY LearnedIs
    <3> HIDE DEF a, b
    <3> QED BY <2>5, <3>1, <3>2, <3>3, <3>4
  <2>7. a.scroll = b.scroll
    <3>1. a.scroll = IF Hear(e, x).scroll = 0 THEN now.scroll ELSE Hear(e, x).scroll
      BY <2>1, LearnedIs
    <3>2. Hear(e, x).scroll = IF x.kind = "scroll" THEN x.to ELSE e.scroll BY HearIs
    <3>3. b.scroll = IF x.kind = "scroll" THEN x.to ELSE Learned(e, now).scroll BY <2>1, HearIs
    <3>4. Learned(e, now).scroll = IF e.scroll = 0 THEN now.scroll ELSE e.scroll BY LearnedIs
    <3> HIDE DEF a, b
    <3> QED BY <2>5, <3>1, <3>2, <3>3, <3>4
  <2> HIDE DEF a, b
  <2>8. a.broken = b.broken BY <2>2, <2>3 DEF Ears
  <2>9. a = b BY <2>2, <2>4, <2>6, <2>7, <2>8 DEF Ears
  <2> QED BY <2>9 DEF a, b
<1> DEFINE v == [i \in 0 .. n |-> Learned(w[i], now)]
<1>7. ASSUME NEW i \in 0 .. n
      PROVE  v[i] = IF i = 0 THEN Learned(h, now) ELSE Hear(v[i - 1], L[i])
  <2>1. CASE i = 0 BY <1>4, <2>1
  <2>2. CASE i # 0
    <3>1. i \in 1 .. n /\ i - 1 \in 0 .. n BY <2>2
    <3>2. v[i] = Learned(Hear(w[i - 1], L[i]), now) BY <1>4, <3>1
    <3>3. v[i - 1] = Learned(w[i - 1], now) BY <3>1
    <3>4. w[i - 1] \in Ears /\ L[i] \in Lines BY <1>3, <1>5, <3>1
    <3> HIDE DEF v
    <3> QED BY <1>6, <2>2, <3>2, <3>3, <3>4
  <2> QED BY <2>1, <2>2
<1>8. v = [i \in 0 .. n |-> v[i]] OBVIOUS
<1>9. v[n] = Learned(w[n], now) BY <1>1
<1> HIDE DEF v
<1>10. v = [i \in 0 .. n |-> IF i = 0 THEN Learned(h, now) ELSE Hear(v[i - 1], L[i])]
  BY <1>7, <1>8
<1>11. Run(v, Learned(h, now), L, n) BY <1>10, Zenon DEF Run
<1>12. HeardAll(Learned(h, now), L) = v[n] /\ HeardAll(h, L) = w[n]
  BY <1>1, <1>2, <1>11, HeardAllIs
<1> QED BY <1>9, <1>12

\* A subscriber's stream while lines are emitted, and all it will have been told.
Spouts == [lines : Seq(Lines), unread : 0 .. KernelRoom, heard : Ears, ok : BOOLEAN]
Tale(s) == HeardAll(s.heard, s.lines)

LEMMA FlushedIs ==
  ASSUME NEW s \in Spouts, NEW there
  PROVE  /\ Flushed(s, there) \in Spouts
         /\ Len(Flushed(s, there).lines) <= Len(s.lines)
         /\ Flushed(s, there).ok => s.ok
         /\ Tale(Flushed(s, there)) = Tale(s)
<1> DEFINE L == s.lines
           room == KernelRoom - s.unread
           n == IF Len(L) <= room THEN Len(L) ELSE room
           f == Flushed(s, there)
<1>1. L \in Seq(Lines) /\ s.heard \in Ears /\ s.unread \in 0 .. KernelRoom /\ s.ok \in BOOLEAN
  BY DEF Spouts
<1>2. Len(L) \in Nat /\ KernelRoom \in Nat BY <1>1, LenProperties, IpcAssumption
<1>3. CASE L = <<>>
  <2>1. f = s BY <1>3 DEF Flushed
  <2> QED BY <1>2, <2>1
<1>4. CASE L # <<>> /\ ~there
  <2>1. f = [s EXCEPT !.ok = FALSE] BY <1>4 DEF Flushed
  <2>2. f.lines = L /\ f.heard = s.heard /\ f.ok = FALSE /\ f \in Spouts BY <1>1, <2>1 DEF Spouts
  <2> QED BY <1>2, <2>2 DEF Tale
<1>5. CASE L # <<>> /\ there
  <2>1. n \in 0 .. Len(L) /\ s.unread + n \in 0 .. KernelRoom BY <1>1, <1>2
  <2>2. f = [s EXCEPT !.lines = SubSeq(@, n + 1, Len(@)), !.unread = @ + n,
                      !.heard = HeardAll(@, SubSeq(s.lines, 1, n))]
    BY <1>5 DEF Flushed
  <2> DEFINE A == SubSeq(L, 1, n)
             B == SubSeq(L, n + 1, Len(L))
  <2>3. f = [s EXCEPT !.lines = B, !.unread = s.unread + n, !.heard = HeardAll(s.heard, A)]
    BY <2>2
  <2> HIDE DEF f, n
  <2>4. /\ A \in Seq(Lines) /\ B \in Seq(Lines) /\ Len(B) = Len(L) - n
        /\ HeardAll(HeardAll(s.heard, A), B) = HeardAll(s.heard, L)
    BY <1>1, <2>1, HearSplit
  <2> HIDE DEF A, B
  <2>5. HeardAll(s.heard, A) \in Ears BY <1>1, <2>4, HeardTyped
  <2>6. s = [lines |-> s.lines, unread |-> s.unread, heard |-> s.heard, ok |-> s.ok] BY DEF Spouts
  <2>7. f = [lines |-> B, unread |-> s.unread + n, heard |-> HeardAll(s.heard, A), ok |-> s.ok]
    BY <2>3, <2>6
  <2>8. f \in Spouts BY <1>1, <2>1, <2>4, <2>5, <2>7 DEF Spouts
  <2>9. Len(f.lines) <= Len(s.lines) BY <1>2, <2>1, <2>4, <2>7
  <2>10. Tale(f) = Tale(s) BY <2>4, <2>7 DEF Tale
  <2> QED BY <2>7, <2>8, <2>9, <2>10 DEF f
<1> QED BY <1>3, <1>4, <1>5

LEMMA SweepIs ==
  ASSUME NEW s \in Spouts
  PROVE  /\ Sweep(s) \in Spouts /\ Tale(Sweep(s)) = Tale(s)
         /\ Sweep(s).lines = s.lines
         /\ Sweep(s).ok => s.ok /\ Len(s.lines) <= PendingCap
<1>1. CASE Len(s.lines) > PendingCap
  <2>1. Sweep(s) = [s EXCEPT !.ok = FALSE] BY <1>1 DEF Sweep
  <2> QED BY <2>1 DEF Spouts, Tale
<1>2. CASE ~(Len(s.lines) > PendingCap)
  <2>1. Sweep(s) = s BY <1>2 DEF Sweep
  <2>2. Len(s.lines) \in Nat BY LenProperties DEF Spouts
  <2>3. Len(s.lines) <= PendingCap BY <1>2, <2>2, IpcAssumption
  <2> QED BY <2>1, <2>3
<1> QED BY <1>1, <1>2

LEMMA EmittedIs ==
  ASSUME NEW s \in Spouts, NEW x \in Lines, NEW there
  PROVE  LET e == Emitted(s, x, there) IN
         /\ e \in Spouts
         /\ e.ok => s.ok /\ Tale(e) = Hear(Tale(s), x) /\ Len(e.lines) <= PendingCap
<1> DEFINE e == Emitted(s, x, there)
<1>1. CASE ~s.ok
  <2>1. e = s BY <1>1 DEF Emitted
  <2> QED BY <1>1, <2>1
<1>2. CASE s.ok
  <2> DEFINE a == [s EXCEPT !.lines = Append(s.lines, x)]
             f == Flushed(a, there)
  <2>1. e = Sweep(f) BY <1>2 DEF Emitted
  <2>2. s.lines \in Seq(Lines) /\ s.heard \in Ears BY DEF Spouts
  <2>3. Append(s.lines, x) \in Seq(Lines) BY <2>2, AppendProperties
  <2>4. a \in Spouts /\ a.lines = Append(s.lines, x) /\ a.heard = s.heard /\ a.ok = s.ok
    BY <2>3 DEF Spouts
  <2>5. Tale(a) = Hear(Tale(s), x) BY <2>2, <2>4, HearOne DEF Tale
  <2> HIDE DEF a
  <2>6. f \in Spouts /\ Tale(f) = Tale(a) /\ (f.ok => a.ok) BY <2>4, FlushedIs
  <2> HIDE DEF f
  <2>7. Sweep(f) \in Spouts /\ Tale(Sweep(f)) = Tale(f) /\ Sweep(f).lines = f.lines
        /\ (Sweep(f).ok => f.ok /\ Len(f.lines) <= PendingCap)
    BY <2>6, SweepIs
  <2> HIDE DEF e
  <2> QED BY <1>2, <2>1, <2>5, <2>6, <2>7 DEF e
<1> QED BY <1>1, <1>2

\* Emitting the first n lines of L into the stream s, line by line.
Spell(f, s, L, there, n) ==
  f = [i \in 0 .. n |-> IF i = 0 THEN s ELSE Emitted(f[i - 1], L[i], there)]

LEMMA SpellExists ==
  ASSUME NEW s, NEW L, NEW there, NEW n \in Nat
  PROVE  \E f : Spell(f, s, L, there, n)
<1> DEFINE Bad == {m \in Nat : ~\E f : Spell(f, s, L, there, m)}
<1>1. SUFFICES ASSUME Bad # {} PROVE FALSE BY Zenon
<1>2. PICK m \in Bad : \A k \in Bad : m <= k
  <2>1. Bad \in SUBSET Nat OBVIOUS
  <2> HIDE DEF Bad
  <2> QED BY <1>1, <2>1, Lowest
<1>3. m \in Nat /\ \A k \in Nat : k < m => k \notin Bad BY <1>2
<1>4. CASE m = 0
  <2> DEFINE f == [i \in 0 .. m |-> s]
  <2>1. f = [i \in 0 .. m |-> IF i = 0 THEN s ELSE Emitted(f[i - 1], L[i], there)] BY <1>4
  <2>2. Spell(f, s, L, there, m) BY <2>1 DEF Spell
  <2> QED BY <2>2
<1>5. CASE m # 0
  <2>1. m \in Nat /\ m - 1 \in Nat /\ m - 1 < m BY <1>5
  <2>2. m - 1 \notin Bad
    <3> HIDE DEF Bad
    <3> QED BY <1>3, <2>1
  <2>3. PICK g : Spell(g, s, L, there, m - 1) BY <2>1, <2>2
  <2> DEFINE f == [i \in 0 .. m |-> IF i = m THEN Emitted(g[m - 1], L[m], there) ELSE g[i]]
  <2>4. g = [i \in 0 .. m - 1 |-> IF i = 0 THEN s ELSE Emitted(g[i - 1], L[i], there)]
    BY <2>3 DEF Spell
  <2>5. f = [i \in 0 .. m |-> IF i = 0 THEN s ELSE Emitted(f[i - 1], L[i], there)]
    <3>1. ASSUME NEW i \in 0 .. m
          PROVE  f[i] = IF i = 0 THEN s ELSE Emitted(f[i - 1], L[i], there)
      <4>1. CASE i = m BY <1>5, <2>1, <4>1
      <4>2. CASE i # m
        <5>1. i \in 0 .. m - 1 BY <2>1, <3>1, <4>2
        <5>2. f[i] = g[i] BY <4>2
        <5>3. i # 0 => f[i - 1] = g[i - 1] BY <2>1, <5>1
        <5> QED BY <2>4, <5>1, <5>2, <5>3
      <4> QED BY <4>1, <4>2
    <3>2. f = [i \in 0 .. m |-> f[i]] OBVIOUS
    <3> HIDE DEF f
    <3> QED BY <3>1, <3>2
  <2>6. Spell(f, s, L, there, m) BY <2>5 DEF Spell
  <2> HIDE DEF f
  <2> QED BY <2>6
<1> QED BY <1>4, <1>5

\* A stream that survives the lines has been told all of them, sent or not.
LEMMA EmittedAllIs ==
  ASSUME NEW s \in Spouts, NEW L \in Seq(Lines), NEW there, Len(s.lines) <= PendingCap
  PROVE  LET e == EmittedAll(s, L, there) IN
         /\ e \in Spouts
         /\ e.ok => s.ok /\ Tale(e) = HeardAll(Tale(s), L) /\ Len(e.lines) <= PendingCap
<1> DEFINE n == Len(L)
           f == CHOOSE g : Spell(g, s, L, there, n)
<1>1. n \in Nat BY LenProperties
<1>2. EmittedAll(s, L, there) = f[n] BY DEF EmittedAll, Spell
<1>3. Spell(f, s, L, there, n) BY <1>1, SpellExists
<1>4. \A i \in 0 .. n : f[i] = IF i = 0 THEN s ELSE Emitted(f[i - 1], L[i], there)
  BY <1>3, Zenon DEF Spell
<1> HIDE DEF f
<1>5. PICK w : Run(w, Tale(s), L, n) BY <1>1, RunExists
<1>6. w[0] = Tale(s) /\ \A i \in 1 .. n : i - 1 \in 0 .. n /\ w[i] = Hear(w[i - 1], L[i])
  BY <1>1, <1>5, RunIs
<1>7. \A i \in 1 .. n : L[i] \in Lines BY ElementOfSeq
<1> DEFINE Good(i) == /\ f[i] \in Spouts
                      /\ f[i].ok => s.ok /\ Tale(f[i]) = w[i] /\ Len(f[i].lines) <= PendingCap
           Bad == {i \in 0 .. n : ~Good(i)}
<1>8. Bad = {}
  <2>1. SUFFICES ASSUME Bad # {} PROVE FALSE OBVIOUS
  <2>2. PICK m \in Bad : \A k \in Bad : m <= k
    <3>1. Bad \in SUBSET Nat BY <1>1
    <3> HIDE DEF Bad
    <3> QED BY <2>1, <3>1, Lowest
  <2>3. m # 0
    <3>1. 0 \in 0 .. n /\ f[0] = s BY <1>1, <1>4
    <3>2. Good(0) BY <1>6, <3>1
    <3> QED BY <2>2, <3>2
  <2>4. m \in 1 .. n /\ ~(m <= m - 1) BY <1>1, <2>3
  <2>5. m - 1 \notin Bad
    <3> HIDE DEF Bad
    <3> QED BY <2>2, <2>4
  <2>6. Good(m - 1) BY <1>6, <2>4, <2>5
  <2> DEFINE a == f[m - 1]
             x == L[m]
             e == f[m]
  <2>7. e = Emitted(a, x, there) /\ a \in Spouts /\ x \in Lines BY <1>4, <1>7, <2>3, <2>4, <2>6
  <2>8. a.ok => s.ok /\ Tale(a) = w[m - 1] BY <2>6
  <2> HIDE DEF a, x, e, Good, Bad
  <2>9. /\ Emitted(a, x, there) \in Spouts
        /\ Emitted(a, x, there).ok =>
             a.ok /\ Tale(Emitted(a, x, there)) = Hear(Tale(a), x)
             /\ Len(Emitted(a, x, there).lines) <= PendingCap
    BY <2>7, EmittedIs
  <2>10. w[m] = Hear(w[m - 1], x) BY <1>6, <2>4 DEF x
  <2>11. Good(m) BY <2>7, <2>8, <2>9, <2>10 DEF Good, e
  <2> QED BY <2>2, <2>11 DEF Bad
<1>9. n \notin Bad BY <1>8
<1>10. Good(n) BY <1>1, <1>9
<1>11. HeardAll(Tale(s), L) = w[n] BY <1>1, <1>5, HeardAllIs
<1> QED BY <1>2, <1>10, <1>11

\* What c will have been told once everything that waits for it is sent.
Told(c) == HeardAll(heard[c], backlog[c])
Open == {c \in Conns : conn[c] \in {"request", "response", "subscriber"}}

IpTyped ==
  /\ conn \in [Conns -> {"free", "request", "response", "subscriber", "closed"}]
  /\ leases \in Nat /\ IsFiniteSet(Open)
  /\ unread \in [Conns -> 0 .. KernelRoom] /\ backlog \in [Conns -> Seq(Lines)]
  /\ heard \in [Conns -> Ears]

IpWorld ==
  /\ shown \in 1 .. Desktops /\ handler = "none"
  /\ facts \in Facts /\ reported \in Facts \cup {Unseen}

\* Nobody has lost the thread, and what has been reported is what they were told.
InTune == \A c \in Subscribers :
  /\ ~Told(c).broken /\ Told(c).at = shown
  /\ Told(c).mode \in {0, reported.mode} /\ Told(c).scroll \in {0, reported.scroll}

\* After a dispatch nothing is left to report.
AllTold == dispatched => \A c \in Subscribers :
  Told(c).mode = facts.mode /\ (~dragging => Told(c).scroll = facts.scroll)

IpInv == IpTyped /\ IpWorld /\ SlotsHeld /\ BacklogKept /\ InTune /\ AllTold

LEMMA IpInvKeeps == IpInv => SubscribersServed
<1> SUFFICES ASSUME IpInv PROVE SubscribersServed OBVIOUS
<1>1. \A c \in Conns : heard[c] \in Ears /\ backlog[c] \in Seq(Lines) BY DEF IpInv, IpTyped
<1>2. ASSUME NEW c \in Subscribers PROVE /\ ~heard[c].broken
                                         /\ backlog[c] = <<>> => heard[c] = Told(c)
  <2>1. c \in Conns BY DEF Subscribers
  <2>2. ~Told(c).broken BY DEF IpInv, InTune
  <2>3. ~heard[c].broken BY <1>1, <2>1, <2>2, HeardTyped DEF Told
  <2>4. backlog[c] = <<>> => heard[c] = Told(c) BY HearNone DEF Told
  <2> QED BY <2>3, <2>4
<1>3. EventsChain BY <1>2 DEF EventsChain, IpInv, InTune
<1>4. FactsReported BY <1>2 DEF FactsReported, IpInv, AllTold
<1> QED BY <1>3, <1>4 DEF SubscribersServed, IpInv

LEMMA IpInitInv == IpcInit /\ handler = "none" => IpInv
<1> SUFFICES ASSUME IpcInit, handler = "none" PROVE IpInv OBVIOUS
<1>1. Open = {} /\ Subscribers = {} BY DEF IpcInit, Open, Subscribers
<1>2. IsFiniteSet({}) /\ Cardinality({}) = 0 BY FS_EmptySet
<1>3. <<>> \in Seq(Lines) /\ Len(<<>>) = 0 BY EmptySeq
<1>4. Silence \in Ears BY IpcAssumption DEF Silence, Ears
<1>5. IpTyped
  <2>1. 0 \in 0 .. KernelRoom BY IpcAssumption
  <2> QED BY <1>1, <1>2, <1>3, <1>4, <2>1 DEF IpcInit, IpTyped
<1>6. IpWorld
  <2>1. 1 \in 1 .. Desktops BY IpcAssumption
  <2> QED BY <2>1 DEF IpcInit, IpWorld, Facts, Unseen
<1>7. SlotsHeld
  <2>1. leases = 0 /\ 0 <= MaxConns BY IpcAssumption DEF IpcInit
  <2> QED BY <1>1, <1>2, <2>1 DEF SlotsHeld, Open
<1>8. BacklogKept
  <2>1. \A c \in Conns : backlog[c] = <<>> BY DEF IpcInit
  <2>2. 0 <= PendingCap BY IpcAssumption
  <2> QED BY <1>1, <1>3, <2>1, <2>2 DEF BacklogKept
<1> QED BY <1>1, <1>5, <1>6, <1>7, <1>8 DEF IpInv, InTune, AllTold

\* The streams of `live` are written back, but for those that were retired.
Retired(streams, live) == {c \in live : ~streams[c].ok}
WrittenBack(streams, live) ==
  LET gone == Retired(streams, live) IN
  /\ conn' = [c \in Conns |-> IF c \in gone THEN "closed" ELSE IF c \in live THEN "subscriber" ELSE conn[c]]
  /\ leases' = leases - Cardinality(gone)
  /\ backlog' = [c \in Conns |-> IF c \in gone THEN <<>> ELSE IF c \in live THEN streams[c].lines ELSE backlog[c]]
  /\ unread' = [c \in Conns |-> IF c \in gone THEN 0 ELSE IF c \in live THEN streams[c].unread ELSE unread[c]]
  /\ heard' = [c \in Conns |-> IF c \in live THEN streams[c].heard ELSE heard[c]]
  /\ (\E c \in live \ gone : streams[c].lines # <<>>) => flushToken' # "none"

\* Writing the streams of `live` back: who was retired gives its slot back.
LEMMA StreamsSettle ==
  ASSUME IpInv, NEW live, Subscribers \subseteq live, live \subseteq Open, NEW streams,
         \A c \in live : /\ streams[c] \in Spouts
                         /\ streams[c].ok => Len(streams[c].lines) <= PendingCap,
         WrittenBack(streams, live)
  PROVE  /\ IpTyped' /\ SlotsHeld' /\ BacklogKept'
         /\ Subscribers' = live \ Retired(streams, live)
         /\ \A c \in Subscribers' : Told(c)' = Tale(streams[c])
<1> DEFINE gone == Retired(streams, live)
<1>21. gone = {c \in live : ~streams[c].ok} BY DEF Retired
<1>22. /\ conn' = [c \in Conns |-> IF c \in gone THEN "closed" ELSE IF c \in live THEN "subscriber" ELSE conn[c]]
       /\ leases' = leases - Cardinality(gone)
       /\ backlog' = [c \in Conns |-> IF c \in gone THEN <<>> ELSE IF c \in live THEN streams[c].lines ELSE backlog[c]]
       /\ unread' = [c \in Conns |-> IF c \in gone THEN 0 ELSE IF c \in live THEN streams[c].unread ELSE unread[c]]
       /\ heard' = [c \in Conns |-> IF c \in live THEN streams[c].heard ELSE heard[c]]
       /\ (\E c \in live \ gone : streams[c].lines # <<>>) => flushToken' # "none"
  BY DEF WrittenBack
<1> HIDE DEF gone
<1> USE <1>21, <1>22
<1>1. Open \subseteq Conns /\ gone \subseteq Open /\ live \subseteq Conns BY DEF Open
<1>2. /\ conn \in [Conns -> {"free", "request", "response", "subscriber", "closed"}]
      /\ leases \in Nat /\ IsFiniteSet(Open) /\ leases = Cardinality(Open) /\ leases <= MaxConns
      /\ unread \in [Conns -> 0 .. KernelRoom] /\ backlog \in [Conns -> Seq(Lines)]
      /\ heard \in [Conns -> Ears]
  BY DEF IpInv, IpTyped, SlotsHeld, Open
<1>3. Subscribers' = live \ gone
  BY <1>1 DEF Subscribers
<1>4. Open' = Open \ gone BY <1>1 DEF Open
<1>5. /\ IsFiniteSet(Open \ gone)
      /\ Cardinality(Open \ gone) = Cardinality(Open) - Cardinality(Open \cap gone)
      /\ Cardinality(Open \ gone) \in Nat
  BY <1>2, FS_Difference, FS_CardinalityType
<1>6. IsFiniteSet(gone) /\ Cardinality(gone) \in Nat BY <1>1, <1>2, FS_Subset, FS_CardinalityType
<1>7. Open \cap gone = gone BY <1>1
<1>8. leases' = Cardinality(Open') /\ leases' \in Nat /\ leases' <= MaxConns
  <2>1. leases' = Cardinality(Open) - Cardinality(gone) BY <1>2
  <2>2. leases' = Cardinality(Open') BY <1>4, <1>5, <1>7, <2>1
  <2>3. leases' \in Nat BY <1>4, <1>5, <2>2
  <2>4. leases' <= leases BY <1>2, <1>6
  <2> QED BY <1>2, <2>2, <2>3, <2>4, IpcAssumption
<1>9. SlotsHeld' BY <1>8 DEF SlotsHeld, Open
<1>10. <<>> \in Seq(Lines) /\ Len(<<>>) = 0 /\ 0 \in 0 .. KernelRoom /\ 0 <= PendingCap
  BY EmptySeq, IpcAssumption
<1>11. \A c \in live : /\ streams[c].lines \in Seq(Lines) /\ streams[c].unread \in 0 .. KernelRoom
                       /\ streams[c].heard \in Ears
  BY DEF Spouts
<1>12. IpTyped'
  <2>1. conn' \in [Conns -> {"free", "request", "response", "subscriber", "closed"}] BY <1>2
  <2>2. backlog' \in [Conns -> Seq(Lines)] BY <1>2, <1>10, <1>11
  <2>3. unread' \in [Conns -> 0 .. KernelRoom] BY <1>2, <1>10, <1>11
  <2>4. heard' \in [Conns -> Ears] BY <1>2, <1>11
  <2> QED BY <1>4, <1>5, <1>8, <2>1, <2>2, <2>3, <2>4 DEF IpTyped
<1>13. ASSUME NEW c \in Conns
       PROVE  Len(backlog'[c]) <= PendingCap /\ (backlog'[c] # <<>> => c \in live \ gone)
  <2>1. CASE c \in gone BY <1>10, <2>1
  <2>2. CASE c \in live \ gone BY <2>2
  <2>3. CASE c \notin live
    <3>1. backlog'[c] = backlog[c] /\ c \notin Subscribers BY <2>3
    <3> QED BY <1>10, <3>1 DEF IpInv, BacklogKept
  <2> QED BY <2>1, <2>2, <2>3
<1>14. (\E c \in live \ gone : backlog'[c] # <<>>) => flushToken' # "none"
  BY <1>1
<1>15. BacklogKept' BY <1>3, <1>13, <1>14 DEF BacklogKept
<1>16. \A c \in live \ gone : heard'[c] = streams[c].heard /\ backlog'[c] = streams[c].lines
  BY <1>1
<1> QED BY <1>3, <1>9, <1>12, <1>15, <1>16 DEF Told, Tale, gone

LEMMA SettleIs ==
  ASSUME IpInv, NEW live, Subscribers \subseteq live, live \subseteq Open, NEW streams,
         \A c \in live : /\ streams[c] \in Spouts
                         /\ streams[c].ok => Len(streams[c].lines) <= PendingCap,
         Settle(streams, live)
  PROVE  /\ IpTyped' /\ SlotsHeld' /\ BacklogKept'
         /\ Subscribers' \subseteq live
         /\ \A c \in Subscribers' : streams[c].ok /\ Told(c)' = Tale(streams[c])
<1> DEFINE gone == Retired(streams, live)
<1>1. gone = {c \in live : ~streams[c].ok} BY DEF Retired
<1>2. /\ conn' = [c \in Conns |-> IF c \in gone THEN "closed" ELSE IF c \in live THEN "subscriber" ELSE conn[c]]
      /\ leases' = leases - Cardinality(gone)
      /\ heard' = [c \in Conns |-> IF c \in live THEN streams[c].heard ELSE heard[c]]
      /\ flushToken' \in IF flushToken # "armed" /\ \E c \in live \ gone : streams[c].lines # <<>>
                         THEN {"armed", "refused"} ELSE {flushToken}
  BY DEF Settle, Retired
<1>3. backlog' = [c \in Conns |-> IF c \in gone THEN <<>> ELSE IF c \in live THEN streams[c].lines ELSE backlog[c]]
  BY DEF Settle, Retired
<1>4. unread' = [c \in Conns |-> IF c \in gone THEN 0 ELSE IF c \in live THEN streams[c].unread ELSE unread[c]]
  BY DEF Settle, Retired
<1>5. \A c \in live \ gone : streams[c].ok BY <1>1
<1> HIDE DEF gone
<1>6. (\E c \in live \ gone : streams[c].lines # <<>>) => flushToken' # "none" BY <1>2
<1>7. WrittenBack(streams, live) BY <1>2, <1>3, <1>4, <1>6, Zenon DEF WrittenBack, gone
<1>8. /\ IpTyped' /\ SlotsHeld' /\ BacklogKept'
      /\ Subscribers' = live \ gone
      /\ \A c \in Subscribers' : Told(c)' = Tale(streams[c])
  BY <1>7, StreamsSettle DEF gone
<1> QED BY <1>5, <1>8

\* The stream of a subscriber as it stands.
LEMMA StreamIs ==
  ASSUME IpInv, NEW c \in Subscribers
  PROVE  /\ c \in Conns /\ c \in Open /\ Stream(c) \in Spouts /\ Stream(c).ok
         /\ Len(Stream(c).lines) <= PendingCap /\ Tale(Stream(c)) = Told(c)
         /\ Told(c) \in Ears
<1>1. c \in Conns /\ c \in Open BY DEF Subscribers, Open
<1>2. heard[c] \in Ears /\ backlog[c] \in Seq(Lines) /\ unread[c] \in 0 .. KernelRoom
  BY <1>1 DEF IpInv, IpTyped
<1>3. Stream(c) \in Spouts BY <1>2 DEF Stream, Spouts
<1>4. Len(backlog[c]) <= PendingCap BY <1>1 DEF IpInv, BacklogKept
<1>5. Told(c) \in Ears BY <1>2, HeardTyped DEF Told
<1> QED BY <1>1, <1>3, <1>4, <1>5 DEF Stream, Tale, Told

\* The sockets moved, and no stream was touched.
LEMMA IpQuiet ==
  ASSUME IpInv, IpTyped', SlotsHeld', Subscribers' = Subscribers, ~dispatched' \/ UNCHANGED <<dispatched, facts, dragging>>,
         UNCHANGED <<backlog, heard, flushToken, shown, handler, reported>>, facts' \in Facts
  PROVE  IpInv'
<1>1. \A c : Told(c)' = Told(c) BY DEF Told
<1>2. IpWorld' BY DEF IpInv, IpWorld
<1>3. BacklogKept' BY DEF IpInv, BacklogKept
<1>4. InTune' BY <1>1 DEF IpInv, InTune
<1>5. AllTold'
  <2>1. CASE ~dispatched' BY <2>1 DEF AllTold
  <2>2. CASE UNCHANGED <<dispatched, facts, dragging>> BY <1>1, <2>2 DEF IpInv, AllTold
  <2> QED BY <2>1, <2>2
<1> QED BY <1>2, <1>3, <1>4, <1>5 DEF IpInv

LEMMA IpTypes ==
  ASSUME IpInv
  PROVE  /\ conn \in [Conns -> {"free", "request", "response", "subscriber", "closed"}]
         /\ leases \in Nat /\ IsFiniteSet(Open) /\ leases = Cardinality(Open) /\ leases <= MaxConns
         /\ unread \in [Conns -> 0 .. KernelRoom] /\ backlog \in [Conns -> Seq(Lines)]
         /\ heard \in [Conns -> Ears] /\ facts \in Facts
  BY DEF IpInv, IpTyped, IpWorld, SlotsHeld, Open

LEMMA AcceptSafe == ASSUME IpInv, NEW c \in Conns, Accept(c) PROVE IpInv'
<1>1. /\ conn[c] = "free" /\ ~dispatched' /\ UNCHANGED <<streamVars, flushToken, worldVars>>
      /\ c \notin Open
  BY DEF Accept, Woken, Open
<1>2. CASE leases < MaxConns
  <2>1. conn' = [conn EXCEPT ![c] = "request"] /\ leases' = leases + 1 BY <1>2 DEF Accept
  <2>2. Open' = Open \cup {c} /\ Subscribers' = Subscribers
    BY <1>1, <2>1, IpTypes DEF Open, Subscribers
  <2>3. IsFiniteSet(Open \cup {c}) /\ Cardinality(Open \cup {c}) = Cardinality(Open) + 1
    BY <1>1, IpTypes, FS_AddElement
  <2>4. leases' = Cardinality(Open') /\ leases' \in Nat /\ leases' <= MaxConns
    BY <1>2, <2>1, <2>2, <2>3, IpTypes, IpcAssumption
  <2>5. IpTyped'
    BY <1>1, <2>1, <2>2, <2>3, <2>4, IpTypes DEF IpTyped, streamVars
  <2>6. SlotsHeld' BY <2>4 DEF SlotsHeld, Open
  <2> QED BY <1>1, <2>2, <2>5, <2>6, IpTypes, IpQuiet DEF streamVars, worldVars
<1>3. CASE ~(leases < MaxConns)
  <2>1. conn' = [conn EXCEPT ![c] = "closed"] /\ leases' = leases BY <1>3 DEF Accept
  <2>2. Open' = Open /\ Subscribers' = Subscribers
    BY <1>1, <2>1, IpTypes DEF Open, Subscribers
  <2>3. IpTyped'
    BY <1>1, <2>1, <2>2, IpTypes DEF IpTyped, streamVars
  <2>4. SlotsHeld' BY <2>1, <2>2, IpTypes DEF SlotsHeld, Open
  <2> QED BY <1>1, <2>2, <2>3, <2>4, IpTypes, IpQuiet DEF streamVars, worldVars
<1> QED BY <1>2, <1>3

\* A connection that closes gives its slot back.
LEMMA Closes ==
  ASSUME IpInv, NEW c \in Open, conn' = [conn EXCEPT ![c] = "closed"], leases' = leases - 1
  PROVE  /\ Open' = Open \ {c} /\ Subscribers' = Subscribers \ {c}
         /\ IsFiniteSet(Open') /\ leases' \in Nat /\ SlotsHeld'
<1>1. c \in Conns BY DEF Open
<1>2. Open' = Open \ {c} /\ Subscribers' = Subscribers \ {c}
  BY <1>1, IpTypes DEF Open, Subscribers
<1>3. IsFiniteSet(Open \ {c}) /\ Cardinality(Open \ {c}) = Cardinality(Open) - 1
      /\ Cardinality(Open \ {c}) \in Nat
  BY IpTypes, FS_RemoveElement, FS_CardinalityType
<1>4. leases' = Cardinality(Open') /\ leases' <= MaxConns /\ leases' \in Nat
  BY <1>2, <1>3, IpTypes, IpcAssumption
<1> QED BY <1>2, <1>3, <1>4 DEF SlotsHeld, Open

LEMMA EndConnectionSafe == ASSUME IpInv, NEW c \in Conns, EndConnection(c) PROVE IpInv'
<1>1. /\ conn[c] \in {"request", "response"} /\ conn' = [conn EXCEPT ![c] = "closed"]
      /\ leases' = leases - 1 /\ ~dispatched' /\ UNCHANGED <<streamVars, flushToken, worldVars>>
  BY DEF EndConnection, Woken
<1>2. c \in Open /\ c \notin Subscribers BY <1>1 DEF Open, Subscribers
<1>3. /\ Subscribers' = Subscribers \ {c} /\ IsFiniteSet(Open') /\ leases' \in Nat /\ SlotsHeld'
  BY <1>1, <1>2, Closes
<1>4. IpTyped' BY <1>1, <1>3, IpTypes DEF IpTyped, streamVars
<1> QED BY <1>1, <1>2, <1>3, <1>4, IpTypes, IpQuiet DEF streamVars, worldVars

LEMMA RequestSafe == ASSUME IpInv, NEW c \in Conns, Request(c) PROVE IpInv'
<1>1. /\ conn[c] = "request" /\ conn' = [conn EXCEPT ![c] = "response"]
      /\ leases' = leases + 1 - 1 /\ ~dispatched' /\ UNCHANGED <<streamVars, flushToken, worldVars>>
  BY DEF Request, Woken
<1>2. Open' = Open /\ Subscribers' = Subscribers /\ leases' = leases
  BY <1>1, IpTypes DEF Open, Subscribers
<1>3. IpTyped' BY <1>1, <1>2, IpTypes DEF IpTyped, streamVars
<1>4. SlotsHeld' BY <1>2, IpTypes DEF SlotsHeld, Open
<1> QED BY <1>1, <1>2, <1>3, <1>4, IpTypes, IpQuiet DEF streamVars, worldVars

LEMMA PeerSafe ==
  ASSUME IpInv, NEW c \in Conns, PeerLeaves(c) \/ PeerReads(c) PROVE IpInv'
<1>1. /\ UNCHANGED <<conn, leases, backlog, heard, flushToken, worldVars, dispatched>>
      /\ unread' \in [Conns -> 0 .. KernelRoom]
  <2>1. CASE PeerLeaves(c) BY <2>1, IpTypes DEF PeerLeaves, streamVars
  <2>2. CASE PeerReads(c)
    <3>1. unread[c] > 0 /\ unread[c] \in 0 .. KernelRoom /\ unread' = [unread EXCEPT ![c] = @ - 1]
      BY <2>2, IpTypes DEF PeerReads
    <3>2. unread[c] - 1 \in 0 .. KernelRoom BY <3>1, IpcAssumption
    <3> QED BY <2>2, <3>1, <3>2, IpTypes DEF PeerReads, socketVars
  <2> QED BY <2>1, <2>2
<1>2. Open' = Open /\ Subscribers' = Subscribers BY <1>1 DEF Open, Subscribers
<1>3. IpTyped' BY <1>1, <1>2, IpTypes DEF IpTyped
<1>4. SlotsHeld' BY <1>1, <1>2, IpTypes DEF SlotsHeld, Open
<1> QED BY <1>1, <1>2, <1>3, <1>4, IpTypes, IpQuiet DEF worldVars

LEMMA SubscriberEofSafe == ASSUME IpInv, NEW c \in Conns, SubscriberEof(c) PROVE IpInv'
<1>1. /\ c \in Subscribers /\ conn' = [conn EXCEPT ![c] = "closed"] /\ leases' = leases - 1
      /\ backlog' = [backlog EXCEPT ![c] = <<>>] /\ unread' = [unread EXCEPT ![c] = 0]
      /\ ~dispatched' /\ UNCHANGED <<heard, flushToken, worldVars>>
  BY DEF SubscriberEof, Woken
<1>2. c \in Open BY <1>1 DEF Open, Subscribers
<1>3. /\ Subscribers' = Subscribers \ {c} /\ IsFiniteSet(Open') /\ leases' \in Nat /\ SlotsHeld'
  BY <1>1, <1>2, Closes
<1>4. <<>> \in Seq(Lines) /\ Len(<<>>) = 0 /\ 0 \in 0 .. KernelRoom /\ 0 <= PendingCap
  BY EmptySeq, IpcAssumption
<1>5. IpTyped' BY <1>1, <1>3, <1>4, IpTypes DEF IpTyped
<1>6. \A x \in Conns : IF x = c THEN backlog'[x] = <<>> ELSE backlog'[x] = backlog[x]
  BY <1>1, IpTypes
<1>7. BacklogKept' BY <1>1, <1>3, <1>4, <1>6 DEF IpInv, BacklogKept, Subscribers
<1>8. \A x \in Subscribers' : x \in Subscribers /\ Told(x)' = Told(x)
  BY <1>1, <1>3, <1>6 DEF Told, Subscribers
<1>9. InTune' BY <1>1, <1>8 DEF IpInv, InTune, worldVars
<1>10. AllTold' BY <1>1 DEF AllTold
<1>11. IpWorld' BY <1>1 DEF IpInv, IpWorld, worldVars
<1> QED BY <1>3, <1>5, <1>7, <1>9, <1>10, <1>11 DEF IpInv

LEMMA OutsideSafe ==
  ASSUME IpInv, (\E f \in Facts : FactsChange(f)) \/ Drag PROVE IpInv'
<1>1. /\ ~dispatched' /\ UNCHANGED <<socketVars, streamVars, flushToken, shown, handler, reported>>
      /\ facts' \in Facts
  <2>1. CASE \E f \in Facts : FactsChange(f) BY <2>1 DEF FactsChange, Woken
  <2>2. CASE Drag BY <2>2, IpTypes DEF Drag, Woken
  <2> QED BY <2>1, <2>2
<1>2. Open' = Open /\ Subscribers' = Subscribers BY <1>1 DEF Open, Subscribers, socketVars
<1>3. IpTyped' BY <1>1, <1>2, IpTypes DEF IpTyped, socketVars, streamVars
<1>4. SlotsHeld' BY <1>1, <1>2, IpTypes DEF SlotsHeld, Open, socketVars
<1> QED BY <1>1, <1>2, <1>3, <1>4, IpQuiet DEF socketVars, streamVars

\* Nothing was said to anybody, but some of it may have been sent, or its
\* reader retired.
LEMMA FlushTimerSafe == ASSUME IpInv, FlushTimer PROVE IpInv'
<1> DEFINE streams == [c \in Subscribers |-> Sweep(Flushed(Stream(c), c \in peer))]
           gone == {c \in Subscribers : ~streams[c].ok}
<1>1. /\ conn' = [c \in Conns |-> IF c \in gone THEN "closed" ELSE conn[c]]
      /\ leases' = leases - Cardinality(gone)
      /\ backlog' = [c \in Conns |-> IF c \in gone THEN <<>>
                                     ELSE IF c \in Subscribers THEN streams[c].lines ELSE backlog[c]]
      /\ unread' = [c \in Conns |-> IF c \in gone THEN 0
                                    ELSE IF c \in Subscribers THEN streams[c].unread ELSE unread[c]]
      /\ heard' = [c \in Conns |-> IF c \in Subscribers THEN streams[c].heard ELSE heard[c]]
      /\ flushToken' = IF \E c \in Subscribers \ gone : streams[c].lines # <<>>
                       THEN "armed" ELSE "none"
  BY DEF FlushTimer
<1>2. ~dispatched' /\ UNCHANGED worldVars BY DEF FlushTimer, Woken
<1>3. ASSUME NEW c \in Subscribers
      PROVE  /\ streams[c] \in Spouts /\ (streams[c].ok => Len(streams[c].lines) <= PendingCap)
             /\ Tale(streams[c]) = Told(c)
  <2> DEFINE f == Flushed(Stream(c), c \in peer)
  <2>1. f \in Spouts /\ Tale(f) = Told(c) BY StreamIs, FlushedIs
  <2>2. streams[c] = Sweep(f) OBVIOUS
  <2> HIDE DEF f, streams
  <2> QED BY <2>1, <2>2, SweepIs
<1>4. gone = Retired(streams, Subscribers) BY DEF Retired
<1>5. Subscribers \subseteq Open /\ \A c \in Subscribers : c \in Conns /\ conn[c] = "subscriber"
  BY DEF Subscribers, Open
<1> HIDE DEF streams, gone
<1>6. conn' = [c \in Conns |-> IF c \in gone THEN "closed" ELSE IF c \in Subscribers THEN "subscriber" ELSE conn[c]]
  BY <1>1, <1>5
<1>7. WrittenBack(streams, Subscribers) BY <1>1, <1>4, <1>6 DEF WrittenBack
<1>8. /\ IpTyped' /\ SlotsHeld' /\ BacklogKept' /\ Subscribers' \subseteq Subscribers
      /\ \A c \in Subscribers' : Told(c)' = Tale(streams[c])
  BY <1>3, <1>5, <1>7, StreamsSettle
<1>9. \A c \in Subscribers' : c \in Subscribers /\ Told(c)' = Told(c) BY <1>3, <1>8
<1>10. InTune' BY <1>2, <1>9 DEF IpInv, InTune, worldVars
<1>11. AllTold' BY <1>2 DEF AllTold
<1>12. IpWorld' BY <1>2 DEF IpInv, IpWorld, worldVars
<1> QED BY <1>8, <1>10, <1>11, <1>12 DEF IpInv

LEMMA HearSingle ==
  ASSUME NEW h, NEW x \in Lines PROVE HeardAll(h, <<x>>) = Hear(h, x) /\ <<x>> \in Seq(Lines)
<1>1. Append(<<>>, x) = <<x>> /\ <<>> \in Seq(Lines) /\ <<x>> \in Seq(Lines) OBVIOUS
<1>2. HeardAll(h, Append(<<>>, x)) = Hear(HeardAll(h, <<>>), x) BY <1>1, HearOne
<1> QED BY <1>1, <1>2, HearNone

\* A switch says one thing when no handler switches on.
LEMMA SwitchedIs ==
  ASSUME handler = "none", NEW a \in 1 .. Desktops, NEW b \in 1 .. Desktops
  PROVE  Switched[HandlerCap][a][b] =
           [lines |-> <<[kind |-> "workspace", from |-> a, to |-> b]>>, at |-> b]
<1> DEFINE out == [from \in 1 .. Desktops |-> [to \in 1 .. Desktops |->
                     [lines |-> <<[kind |-> "workspace", from |-> from, to |-> to]>>, at |-> to]]]
           Cell(f, d, from, to) ==
             LET line == <<[kind |-> "workspace", from |-> from, to |-> to]>>
                 goal == HandlerGoal(to)
                 inner == f[d - 1][to][goal]
             IN IF d = 0 \/ goal = to THEN [lines |-> line, at |-> to]
                ELSE [lines |-> inner.lines \o line, at |-> inner.at]
           Body(f, d) == [from \in 1..Desktops |-> [to \in 1..Desktops |-> Cell(f, d, from, to)]]
           F == [d \in 0 .. HandlerCap |-> out]
<1>1. ASSUME NEW f, NEW d, NEW from, NEW to
      PROVE  Cell(f, d, from, to) = [lines |-> <<[kind |-> "workspace", from |-> from, to |-> to]>>, at |-> to]
  <2>1. HandlerGoal(to) = to BY DEF HandlerGoal
  <2> QED BY <2>1
<1>2. \A f, d : Body(f, d) = out
  <2> HIDE DEF Cell
  <2> QED BY <1>1
<1>3. Switched = CHOOSE f : f = [d \in 0 .. HandlerCap |-> Body(f, d)] BY DEF Switched
<1> HIDE DEF out, Body, Cell
<1>4. F = [d \in 0 .. HandlerCap |-> Body(F, d)] BY <1>2
<1>5. Switched = [d \in 0 .. HandlerCap |-> Body(Switched, d)]
  <2> HIDE DEF F
  <2> QED BY <1>3, <1>4, Zenon
<1>6. HandlerCap \in 0 .. HandlerCap BY IpcAssumption
<1>7. Switched[HandlerCap] = Body(Switched, HandlerCap) BY <1>5, <1>6
<1>8. Switched[HandlerCap][a][b] = out[a][b] BY <1>2, <1>7
<1>9. out[a][b] = [lines |-> <<[kind |-> "workspace", from |-> a, to |-> b]>>, at |-> b]
  BY DEF out
<1> QED BY <1>8, <1>9

\* Emitting to every subscriber.
LEMMA EmitsIs ==
  ASSUME IpInv, NEW L \in Seq(Lines), NEW c \in Subscribers, NEW e, e = EmittedAll(Stream(c), L, c \in peer)
  PROVE  e \in Spouts /\ (e.ok => Tale(e) = HeardAll(Told(c), L) /\ Len(e.lines) <= PendingCap)
  BY StreamIs, EmittedAllIs

LEMMA SwitchToSafe == ASSUME IpInv, NEW n \in 1 .. Desktops, SwitchTo(n) PROVE IpInv'
<1> DEFINE line == [kind |-> "workspace", from |-> shown, to |-> n]
           L == <<line>>
           streams == [c \in Subscribers |-> EmittedAll(Stream(c), L, c \in peer)]
<1>1. shown \in 1 .. Desktops /\ handler = "none" BY DEF IpInv, IpWorld
<1>2. Switched[HandlerCap][shown][n] = [lines |-> L, at |-> n] BY <1>1, SwitchedIs
<1>3. shown' = n /\ Emit(L) /\ ~dispatched' /\ UNCHANGED <<handler, facts, reported>>
  BY <1>2 DEF SwitchTo, Woken
<1>4. Settle(streams, Subscribers) BY <1>3 DEF Emit
<1>5. line \in Lines BY <1>1 DEF Lines
<1>6. line.kind = "workspace" /\ line.from = shown /\ line.to = n OBVIOUS
<1> HIDE DEF line
<1>7. L \in Seq(Lines) /\ \A h : HeardAll(h, L) = Hear(h, line) BY <1>5, HearSingle
<1> HIDE DEF L
<1>8. ASSUME NEW c \in Subscribers
      PROVE  /\ streams[c] \in Spouts
             /\ streams[c].ok => Tale(streams[c]) = Hear(Told(c), line) /\ Len(streams[c].lines) <= PendingCap
  <2>1. streams[c] = EmittedAll(Stream(c), L, c \in peer) OBVIOUS
  <2> HIDE DEF streams
  <2> QED BY <1>7, <2>1, EmitsIs
<1> HIDE DEF streams
<1>9. Subscribers \subseteq Open BY DEF Subscribers, Open
<1>10. /\ IpTyped' /\ SlotsHeld' /\ BacklogKept' /\ Subscribers' \subseteq Subscribers
       /\ \A c \in Subscribers' : streams[c].ok /\ Told(c)' = Tale(streams[c])
  BY <1>4, <1>8, <1>9, SettleIs
<1>11. ASSUME NEW c \in Subscribers'
       PROVE  /\ ~Told(c)'.broken /\ Told(c)'.at = n
              /\ Told(c)'.mode = Told(c).mode /\ Told(c)'.scroll = Told(c).scroll
  <2> DEFINE h == Told(c)
  <2>1. c \in Subscribers /\ Told(c)' = Hear(h, line) BY <1>8, <1>10
  <2>2. h \in Ears /\ ~h.broken /\ h.at = shown BY <2>1, StreamIs DEF IpInv, InTune
  <2> HIDE DEF h
  <2>3. /\ Hear(h, line).broken <=> h.broken \/ (line.kind = "workspace" /\ h.at # line.from)
        /\ Hear(h, line).at = IF line.kind = "workspace" THEN line.to ELSE h.at
        /\ Hear(h, line).mode = IF line.kind = "mode" THEN line.to ELSE h.mode
        /\ Hear(h, line).scroll = IF line.kind = "scroll" THEN line.to ELSE h.scroll
    BY <1>5, <2>2, HearIs
  <2> QED BY <1>6, <2>1, <2>2, <2>3 DEF h
<1>12. InTune' BY <1>3, <1>10, <1>11 DEF IpInv, InTune
<1>13. AllTold' BY <1>3 DEF AllTold
<1>14. IpWorld' BY <1>3 DEF IpInv, IpWorld
<1> QED BY <1>10, <1>12, <1>13, <1>14 DEF IpInv

LEMMA SilenceIs ==
  ASSUME NEW n \in 0 .. Desktops
  PROVE  LET h == [Silence EXCEPT !.at = n]
         IN h \in Ears /\ ~h.broken /\ h.at = n /\ h.mode = 0 /\ h.scroll = 0
<1>1. /\ Silence \in Ears /\ Silence.mode = 0 /\ Silence.scroll = 0 /\ Silence.broken = FALSE
  BY IpcAssumption DEF Silence, Ears
<1> QED BY <1>1 DEF Ears

LEMMA SubscribeSafe == ASSUME IpInv, NEW c \in Conns, Subscribe(c) PROVE IpInv'
<1> DEFINE h == [Silence EXCEPT !.at = shown]
           ack == [kind |-> "ack"]
           s == [lines |-> <<ack>>, unread |-> 0, heard |-> h, ok |-> TRUE]
           f == Flushed(s, c \in peer)
           g == [f EXCEPT !.ok = TRUE]
           live == Subscribers \cup {c}
           streams == [x \in live |-> IF x = c THEN g ELSE Stream(x)]
<1>1. /\ conn[c] = "request" /\ Settle(streams, live) /\ ~dispatched' /\ UNCHANGED worldVars
  BY DEF Subscribe, Woken
<1>2. live \subseteq Open /\ c \notin Subscribers BY <1>1 DEF Subscribers, Open
<1>3. shown \in 0 .. Desktops
  <2>1. shown \in 1 .. Desktops BY DEF IpInv, IpWorld
  <2> QED BY <2>1, IpcAssumption
<1>4. h \in Ears /\ ~h.broken /\ h.at = shown /\ h.mode = 0 /\ h.scroll = 0
  BY <1>3, SilenceIs
<1>5. streams[c] = g /\ \A x \in Subscribers : streams[x] = Stream(x)
  <2> HIDE DEF g
  <2> QED BY <1>2
<1>6. ack \in Lines /\ ack.kind = "ack" BY DEF Lines
<1> HIDE DEF h, ack
<1>7. <<ack>> \in Seq(Lines) /\ HeardAll(h, <<ack>>) = Hear(h, ack) /\ Len(<<ack>>) = 1
  BY <1>6, HearSingle
<1>8. Hear(h, ack) = h BY <1>6 DEF Hear
<1>9. s \in Spouts /\ s.heard = h /\ s.lines = <<ack>> /\ s.ok
  <2>1. 0 \in 0 .. KernelRoom BY IpcAssumption
  <2> QED BY <1>4, <1>7, <2>1 DEF Spouts
<1> HIDE DEF s
<1>10. f \in Spouts /\ Len(f.lines) <= Len(s.lines) /\ Tale(f) = h
  BY <1>7, <1>8, <1>9, FlushedIs DEF Tale
<1> HIDE DEF f
<1>11. g \in Spouts /\ g.lines = f.lines /\ g.heard = f.heard /\ Tale(g) = h
  <2>1. g \in Spouts /\ g.lines = f.lines /\ g.heard = f.heard BY <1>10 DEF Spouts
  <2> QED BY <1>10, <2>1 DEF Tale
<1>12. Len(g.lines) <= PendingCap
  <2>1. Len(f.lines) \in Nat BY <1>10, LenProperties DEF Spouts
  <2> QED BY <1>7, <1>9, <1>10, <1>11, <2>1, IpcAssumption
<1> HIDE DEF g, streams, live
<1>13. \A x \in live : /\ streams[x] \in Spouts
                       /\ streams[x].ok => Len(streams[x].lines) <= PendingCap
                       /\ Tale(streams[x]) = IF x = c THEN h ELSE Told(x)
  <2> TAKE x \in live
  <2>1. CASE x = c BY <1>5, <1>11, <1>12, <2>1
  <2>2. CASE x # c
    <3>1. x \in Subscribers BY <2>2 DEF live
    <3> QED BY <1>5, <2>2, <3>1, StreamIs
  <2> QED BY <2>1, <2>2
<1>14. Subscribers \subseteq live BY DEF live
<1>15. /\ IpTyped' /\ SlotsHeld' /\ BacklogKept' /\ Subscribers' \subseteq live
       /\ \A x \in Subscribers' : streams[x].ok /\ Told(x)' = Tale(streams[x])
  BY <1>1, <1>2, <1>13, <1>14, SettleIs
<1>16. \A x \in Subscribers' : \/ Told(x)' = h
                               \/ x \in Subscribers /\ Told(x)' = Told(x)
  BY <1>13, <1>15 DEF live
<1>17. InTune' BY <1>1, <1>4, <1>16 DEF IpInv, InTune, worldVars
<1>18. AllTold' BY <1>1 DEF AllTold
<1>19. IpWorld' BY <1>1 DEF IpInv, IpWorld, worldVars
<1> QED BY <1>15, <1>17, <1>18, <1>19 DEF IpInv

\* The lines of one sweep: at most one for the mode and one for the strip.
News(r, now) ==
  (IF r # Unseen /\ now.mode # r.mode THEN <<[kind |-> "mode", to |-> now.mode]>> ELSE <<>>)
  \o (IF r # Unseen /\ now.scroll # r.scroll THEN <<[kind |-> "scroll", to |-> now.scroll]>> ELSE <<>>)

LEMMA HearFacts ==
  ASSUME NEW h \in Ears, NEW now \in Facts, NEW r,
         NEW L, L = News(r, now)
  PROVE  /\ L \in Seq(Lines) /\ HeardAll(h, L) \in Ears
         /\ HeardAll(h, L).broken <=> h.broken
         /\ HeardAll(h, L).at = h.at
         /\ HeardAll(h, L).mode = IF r # Unseen /\ now.mode # r.mode THEN now.mode ELSE h.mode
         /\ HeardAll(h, L).scroll = IF r # Unseen /\ now.scroll # r.scroll THEN now.scroll ELSE h.scroll
<1> DEFINE tellMode == r # Unseen /\ now.mode # r.mode
           tellScroll == r # Unseen /\ now.scroll # r.scroll
           m == [kind |-> "mode", to |-> now.mode]
           s == [kind |-> "scroll", to |-> now.scroll]
<1>1. now.mode \in 1 .. 2 /\ now.scroll \in 1 .. 2 BY DEF Facts
<1>2. m \in Lines /\ s \in Lines /\ m.kind = "mode" /\ s.kind = "scroll" /\ m.to = now.mode /\ s.to = now.scroll
  BY <1>1 DEF Lines
<1>3. L = (IF tellMode THEN <<m>> ELSE <<>>) \o (IF tellScroll THEN <<s>> ELSE <<>>) BY DEF News
<1> HIDE DEF m, s
<1> SUFFICES /\ L \in Seq(Lines) /\ HeardAll(h, L) \in Ears
             /\ HeardAll(h, L).broken <=> h.broken
             /\ HeardAll(h, L).at = h.at
             /\ HeardAll(h, L).mode = IF tellMode THEN now.mode ELSE h.mode
             /\ HeardAll(h, L).scroll = IF tellScroll THEN now.scroll ELSE h.scroll
  OBVIOUS
<1> HIDE DEF tellMode, tellScroll
<1>4. /\ Hear(h, m) \in Ears
      /\ Hear(h, m).broken <=> h.broken
      /\ Hear(h, m).at = h.at /\ Hear(h, m).mode = now.mode /\ Hear(h, m).scroll = h.scroll
  BY <1>2, HearIs
<1>5. ASSUME NEW e \in Ears
      PROVE  /\ Hear(e, s) \in Ears
             /\ Hear(e, s).broken <=> e.broken
             /\ Hear(e, s).at = e.at /\ Hear(e, s).mode = e.mode /\ Hear(e, s).scroll = now.scroll
  BY <1>2, <1>5, HearIs
<1>6. CASE tellMode /\ tellScroll
  <2>1. L = Append(<<m>>, s) BY <1>3, <1>6
  <2>2. <<m>> \in Seq(Lines) /\ HeardAll(h, <<m>>) = Hear(h, m) BY <1>2, HearSingle
  <2>3. L \in Seq(Lines) BY <1>2, <2>1, <2>2, AppendProperties
  <2>4. HeardAll(h, L) = Hear(Hear(h, m), s) BY <1>2, <2>1, <2>2, HearOne
  <2> QED BY <1>4, <1>5, <1>6, <2>3, <2>4
<1>7. CASE tellMode /\ ~tellScroll
  <2>1. L = <<m>>
    <3>1. L = <<m>> \o <<>> BY <1>3, <1>7
    <3>2. <<m>> \in Seq(Lines) BY <1>2
    <3> QED BY <3>1, <3>2, ConcatEmptySeq
  <2>2. <<m>> \in Seq(Lines) /\ HeardAll(h, <<m>>) = Hear(h, m) BY <1>2, HearSingle
  <2> QED BY <1>4, <1>7, <2>1, <2>2
<1>8. CASE ~tellMode /\ tellScroll
  <2>1. L = <<s>>
    <3>1. L = <<>> \o <<s>> BY <1>3, <1>8
    <3>2. <<s>> \in Seq(Lines) BY <1>2
    <3> QED BY <3>1, <3>2, ConcatEmptySeq
  <2>2. <<s>> \in Seq(Lines) /\ HeardAll(h, <<s>>) = Hear(h, s) BY <1>2, HearSingle
  <2> QED BY <1>5, <1>8, <2>1, <2>2
<1>9. CASE ~tellMode /\ ~tellScroll
  <2>1. L = <<>> BY <1>3, <1>9
  <2>2. <<>> \in Seq(Lines) BY EmptySeq
  <2> QED BY <1>9, <2>1, <2>2, HearNone
<1> QED BY <1>6, <1>7, <1>8, <1>9

LEMMA DispatchEndSafe == ASSUME IpInv, DispatchEnd PROVE IpInv'
<1> DEFINE held == dragging /\ reported # Unseen
           now == [facts EXCEPT !.scroll = IF held THEN reported.scroll ELSE @]
           tellMode == reported # Unseen /\ now.mode # reported.mode
           tellScroll == reported # Unseen /\ now.scroll # reported.scroll
           L == (IF tellMode THEN <<[kind |-> "mode", to |-> now.mode]>> ELSE <<>>)
                \o (IF tellScroll THEN <<[kind |-> "scroll", to |-> now.scroll]>> ELSE <<>>)
           before == [c \in Subscribers |-> EmittedAll(Stream(c), L, c \in peer)]
           streams == Learn(before, now)
<1>1. /\ reported' = (IF Subscribers = {} THEN Unseen ELSE now)
      /\ Settle(streams, Subscribers)
      /\ UNCHANGED <<peer, shown, handler, facts, dragging>>
  BY DEF DispatchEnd
<1>2. facts \in Facts /\ reported \in Facts \cup {Unseen} BY DEF IpInv, IpWorld
<1>3. /\ now \in Facts /\ now.mode = facts.mode
      /\ ~dragging => now.scroll = facts.scroll
  <2> DEFINE k == IF held THEN reported.scroll ELSE facts.scroll
  <2>1. now = [facts EXCEPT !.scroll = k] OBVIOUS
  <2>2. k \in 1 .. 2 BY <1>2 DEF Facts
  <2>3. ~dragging => k = facts.scroll OBVIOUS
  <2> HIDE DEF k, now
  <2> QED BY <1>2, <2>1, <2>2, <2>3 DEF Facts
<1>5. streams = [c \in Subscribers |->
                  [before[c] EXCEPT !.heard = Learned(before[c].heard, now)]]
  <2> HIDE DEF before, now
  <2>1. DOMAIN before = Subscribers BY DEF before
  <2> QED BY <2>1 DEF Learn
<1> HIDE DEF now, streams
<1>6. ASSUME NEW h \in Ears
      PROVE  /\ L \in Seq(Lines) /\ HeardAll(h, L) \in Ears
             /\ HeardAll(h, L).broken <=> h.broken
             /\ HeardAll(h, L).at = h.at
             /\ HeardAll(h, L).mode = IF tellMode THEN now.mode ELSE h.mode
             /\ HeardAll(h, L).scroll = IF tellScroll THEN now.scroll ELSE h.scroll
  <2> DEFINE r == reported
  <2>1. L = News(r, now) BY DEF News
  <2> HIDE DEF L, before, r
  <2>2. /\ L \in Seq(Lines) /\ HeardAll(h, L) \in Ears
        /\ HeardAll(h, L).broken <=> h.broken
        /\ HeardAll(h, L).at = h.at
        /\ HeardAll(h, L).mode = IF r # Unseen /\ now.mode # r.mode THEN now.mode ELSE h.mode
        /\ HeardAll(h, L).scroll = IF r # Unseen /\ now.scroll # r.scroll THEN now.scroll ELSE h.scroll
    BY <1>3, <2>1, HearFacts
  <2> QED BY <2>2 DEF r
<1> HIDE DEF L
<1>7. L \in Seq(Lines)
  <2>1. Silence \in Ears BY IpcAssumption DEF Silence, Ears
  <2> QED BY <1>6, <2>1
<1>8. ASSUME NEW c \in Subscribers
      PROVE  /\ before[c] \in Spouts
             /\ before[c].ok => Tale(before[c]) = HeardAll(Told(c), L) /\ Len(before[c].lines) <= PendingCap
  <2>1. before[c] = EmittedAll(Stream(c), L, c \in peer) OBVIOUS
  <2> HIDE DEF before
  <2> QED BY <1>7, <2>1, EmitsIs
<1> HIDE DEF before
<1>9. ASSUME NEW c \in Subscribers
      PROVE  /\ streams[c] \in Spouts
             /\ streams[c].ok => Len(streams[c].lines) <= PendingCap
                                 /\ Tale(streams[c]) = Learned(HeardAll(Told(c), L), now)
  <2> DEFINE b == before[c]
             k == Learned(b.heard, now)
  <2>1. streams[c] = [b EXCEPT !.heard = k] BY <1>5
  <2>2. b.heard \in Ears /\ b.lines \in Seq(Lines) BY <1>8 DEF Spouts
  <2>3. k \in Ears BY <1>3, <2>2, LearnedIs
  <2>4. HeardAll(k, b.lines) = Learned(HeardAll(b.heard, b.lines), now)
    BY <1>3, <2>2, LearnThenHear
  <2>5. b \in Spouts BY <1>8
  <2> HIDE DEF k
  <2>6. /\ streams[c] \in Spouts /\ streams[c].ok = b.ok /\ streams[c].lines = b.lines
        /\ streams[c].heard = k
    <3> HIDE DEF b
    <3> QED BY <2>1, <2>3, <2>5 DEF Spouts
  <2>7. Tale(streams[c]) = Learned(Tale(b), now) BY <2>4, <2>6 DEF Tale
  <2> QED BY <1>8, <2>6, <2>7
<1>10. Subscribers \subseteq Open BY DEF Subscribers, Open
<1>11. /\ IpTyped' /\ SlotsHeld' /\ BacklogKept' /\ Subscribers' \subseteq Subscribers
       /\ \A c \in Subscribers' : streams[c].ok /\ Told(c)' = Tale(streams[c])
  BY <1>1, <1>9, <1>10, SettleIs
<1>12. ASSUME NEW c \in Subscribers'
       PROVE  /\ ~Told(c)'.broken /\ Told(c)'.at = shown
              /\ Told(c)'.mode = now.mode /\ Told(c)'.scroll = now.scroll
              /\ reported' = now
  <2> DEFINE h == Told(c)
             e == HeardAll(h, L)
  <2>1. c \in Subscribers /\ Told(c)' = Learned(e, now) /\ reported' = now
    BY <1>1, <1>9, <1>11
  <2>2. /\ h \in Ears /\ ~h.broken /\ h.at = shown
        /\ h.mode \in {0, reported.mode} /\ h.scroll \in {0, reported.scroll}
    BY <2>1, StreamIs DEF IpInv, InTune
  <2>3. /\ e \in Ears /\ (e.broken <=> h.broken) /\ e.at = h.at
        /\ e.mode = IF tellMode THEN now.mode ELSE h.mode
        /\ e.scroll = IF tellScroll THEN now.scroll ELSE h.scroll
    BY <1>6, <2>2
  <2> HIDE DEF e, h
  <2>4. /\ Learned(e, now).broken <=> e.broken
        /\ Learned(e, now).at = e.at
        /\ Learned(e, now).mode = IF e.mode = 0 THEN now.mode ELSE e.mode
        /\ Learned(e, now).scroll = IF e.scroll = 0 THEN now.scroll ELSE e.scroll
    BY <1>3, <2>3, LearnedIs
  <2>5. e.mode \in {0, now.mode} /\ e.scroll \in {0, now.scroll}
    <3>1. reported = Unseen => reported.mode = 0 /\ reported.scroll = 0 BY DEF Unseen
    <3> QED BY <2>2, <2>3, <3>1
  <2> QED BY <2>1, <2>2, <2>3, <2>4, <2>5
<1>13. InTune' BY <1>1, <1>12 DEF InTune
<1>14. AllTold' BY <1>1, <1>3, <1>12 DEF AllTold
<1>15. IpWorld' BY <1>1, <1>2, <1>3 DEF IpInv, IpWorld
<1> QED BY <1>11, <1>13, <1>14, <1>15 DEF IpInv

LEMMA IpInvStep == IpInv /\ [IpcNext]_ipcVars => IpInv'
<1> SUFFICES ASSUME IpInv, [IpcNext]_ipcVars PROVE IpInv' OBVIOUS
<1>1. CASE UNCHANGED ipcVars
  <2>1. Open' = Open /\ Subscribers' = Subscribers BY <1>1 DEF Open, Subscribers, ipcVars
  <2>2. IpTyped' BY <1>1, <2>1, IpTypes DEF IpTyped, ipcVars
  <2>3. SlotsHeld' BY <1>1, <2>1, IpTypes DEF SlotsHeld, Open, ipcVars
  <2> QED BY <1>1, <2>1, <2>2, <2>3, IpTypes, IpQuiet DEF ipcVars
<1>2. ASSUME NEW c \in Conns,
             \/ Accept(c) \/ PeerLeaves(c) \/ EndConnection(c) \/ Request(c)
             \/ Subscribe(c) \/ SubscriberEof(c) \/ PeerReads(c)
      PROVE  IpInv'
  BY <1>2, AcceptSafe, PeerSafe, EndConnectionSafe, RequestSafe, SubscribeSafe, SubscriberEofSafe
<1>3. CASE \E n \in 1 .. Desktops : SwitchTo(n) BY <1>3, SwitchToSafe
<1>4. CASE Drag \/ \E f \in Facts : FactsChange(f) BY <1>4, OutsideSafe
<1> QED BY <1>1, <1>2, <1>3, <1>4, FlushTimerSafe, DispatchEndSafe DEF IpcNext

(* Whatever readers stall, vanish or subscribe meanwhile, no connection slot *)
(* leaks, no backlog outgrows its limit or waits without a timer (unless     *)
(* calloop took none), and what a subscriber is sent adds up: workspace      *)
(* changes chain to where the desktop is, and after each dispatch it knows   *)
(* the mode and the strip.  That a handler which switches workspaces itself  *)
(* breaks the chain is known: the theorem is about configurations without    *)
(* one (emit_ipc_event, flush_ipc_subscribers, emit_state_change_events).    *)
THEOREM SubscribersAreServed == IpcSpec /\ handler = "none" => []SubscribersServed
<1>1. IpcInit /\ handler = "none" => IpInv BY IpInitInv
<1>2. IpInv /\ [IpcNext]_ipcVars => IpInv' BY IpInvStep
<1>3. IpInv => SubscribersServed BY IpInvKeeps
<1> QED BY <1>1, <1>2, <1>3, PTL DEF IpcSpec

-----------------------------------------------------------------------------
(* Surface commits: the queues, and what reading them does. *)

\* What a queue hands over: everything up to the first commit that is held.
LEMMA ReadyCut ==
  ASSUME NEW D, NEW q \in Seq(D), NEW holds
  PROVE  \E m \in 0..Len(q) :
           /\ ReadyPart(q, holds) = SubSeq(q, 1, m)
           /\ \A i \in 1..m : q[i] \notin holds
           /\ m < Len(q) => q[m + 1] \in holds
<1> DEFINE I == {i \in 1..Len(q) : q[i] \in holds}
<1>1. SelectInSeq(q, LAMBDA k : k \in holds) = IF I # {} THEN Min(I) ELSE 0
  BY DEF SelectInSeq
<1>2. Len(q) \in Nat OBVIOUS
<1>3. CASE I = {}
  <2>1. ReadyPart(q, holds) = q BY <1>1, <1>3 DEF ReadyPart
  <2>2. q = SubSeq(q, 1, Len(q)) OBVIOUS
  <2>3. \A i \in 1..Len(q) : q[i] \notin holds BY <1>3
  <2>4. Len(q) \in 0..Len(q) /\ ~(Len(q) < Len(q)) BY <1>2
  <2>5. ReadyPart(q, holds) = SubSeq(q, 1, Len(q)) BY <2>1, <2>2
  <2> QED BY ONLY <2>3, <2>4, <2>5
<1>4. CASE I # {}
  <2> DEFINE f == Min(I)
  <2>1. f \in I /\ \A i \in I : f <= i
    <3>1. I \in SUBSET Int /\ \A x \in I : 0 <= x OBVIOUS
    <3> HIDE DEF I
    <3> QED BY <1>4, <3>1, LeastOf
  <2>2. ReadyPart(q, holds) = SubSeq(q, 1, f - 1)
    <3>1. f # 0 BY <2>1
    <3> QED BY <1>1, <1>4, <3>1 DEF ReadyPart
  <2> HIDE DEF f
  <2>3. f - 1 \in 0..Len(q) /\ q[(f - 1) + 1] \in holds BY <2>1
  <2>4. \A i \in 1..(f - 1) : q[i] \notin holds BY <2>1
  <2> QED BY <2>2, <2>3, <2>4
<1> QED BY <1>3, <1>4

\* A queue cut in two, each commit on one side.
LEMMA CutInTwo ==
  ASSUME NEW D, NEW q \in Seq(D), IsInjective(q), NEW m \in 0..Len(q)
  PROVE  LET u == SubSeq(q, 1, m)
             v == SubSeq(q, m + 1, Len(q))
         IN /\ u \in Seq(D) /\ Len(u) = m /\ \A i \in 1..m : u[i] = q[i]
            /\ v \in Seq(D) /\ IsInjective(v)
            /\ v # <<>> => m < Len(q) /\ Head(v) = q[m + 1]
            /\ Range(q) = Range(u) \cup Range(v) /\ Range(u) \cap Range(v) = {}
<1> DEFINE u == SubSeq(q, 1, m)
           v == SubSeq(q, m + 1, Len(q))
<1>0. Len(q) \in Nat /\ m \in Nat /\ m <= Len(q) /\ DOMAIN q = 1..Len(q) OBVIOUS
<1>1. u \in Seq(D) /\ Len(u) = m /\ \A i \in 1..m : u[i] = q[i] BY <1>0
<1>2. v \in Seq(D) /\ Len(v) = Len(q) - m /\ \A i \in 1..(Len(q) - m) : v[i] = q[m + i]
  <2>1. m + 1 \in 1..(Len(q) + 1) /\ Len(q) \in m..Len(q) BY <1>0
  <2>2. v \in Seq(D) /\ Len(v) = Len(q) - m
    <3>1. \A i \in (m + 1)..Len(q) : q[i] \in D BY <1>0
    <3>2. m + 1 \in Int /\ Len(q) \in Int BY <1>0
    <3>3. v \in Seq(D) /\ Len(v) = IF m + 1 <= Len(q) THEN Len(q) - (m + 1) + 1 ELSE 0
      BY <3>1, <3>2, SubSeqProperties
    <3>4. \A a, b \in Nat : a <= b => (IF a + 1 <= b THEN b - (a + 1) + 1 ELSE 0) = b - a
      OBVIOUS
    <3>5. (IF m + 1 <= Len(q) THEN Len(q) - (m + 1) + 1 ELSE 0) = Len(q) - m
      BY ONLY <1>0, <3>4
    <3> HIDE DEF v
    <3> QED BY ONLY <3>3, <3>5
  <2>3. ASSUME NEW i \in 1..(Len(q) - m) PROVE v[i] = q[m + i]
    <3>1. (m + 1) + i - 1 = m + i BY <1>0
    <3>2. v[i] = q[(m + 1) + i - 1] BY <1>0, <2>3
    <3> QED BY <3>1, <3>2
  <2> QED BY <2>2, <2>3
<1> HIDE DEF u, v
<1>3. DOMAIN u = 1..m /\ DOMAIN v = 1..(Len(q) - m) BY <1>1, <1>2
<1>4. IsInjective(v)
  <2> SUFFICES ASSUME NEW i \in 1..(Len(q) - m), NEW j \in 1..(Len(q) - m), v[i] = v[j] PROVE i = j
    BY <1>3 DEF IsInjective
  <2>1. m + i \in DOMAIN q /\ m + j \in DOMAIN q /\ q[m + i] = q[m + j] BY <1>0, <1>2
  <2>2. m + i = m + j BY <2>1 DEF IsInjective
  <2> QED BY <2>2, <1>0
<1>5. v # <<>> => m < Len(q) /\ Head(v) = q[m + 1]
  <2> SUFFICES ASSUME v # <<>> PROVE m < Len(q) /\ Head(v) = q[m + 1] OBVIOUS
  <2>1. Len(v) # 0 /\ Head(v) = v[1] BY <1>2
  <2>2. m < Len(q) /\ 1 \in 1..(Len(q) - m)
    <3>1. Len(v) = Len(q) - m /\ Len(v) # 0 BY <1>2, <2>1
    <3> QED BY ONLY <3>1, <1>0
  <2>3. v[1] = q[m + 1] BY <2>2, <1>2
  <2> QED BY <2>1, <2>2, <2>3
<1>6. Range(u) \subseteq Range(q) /\ Range(v) \subseteq Range(q)
  <2>1. \A i \in 1..m : i \in DOMAIN q BY <1>0
  <2>2. \A i \in 1..(Len(q) - m) : m + i \in DOMAIN q BY <1>0
  <2>3. \A i \in DOMAIN u : u[i] = q[i] /\ i \in DOMAIN q BY <1>1, <1>3, <2>1
  <2>4. \A i \in DOMAIN v : v[i] = q[m + i] /\ m + i \in DOMAIN q BY <1>2, <1>3, <2>2
  <2> QED BY ONLY <2>3, <2>4 DEF Range
<1>7. ASSUME NEW i \in DOMAIN q PROVE q[i] \in Range(u) \cup Range(v)
  <2>1. CASE i <= m
    <3>1. i \in DOMAIN u /\ u[i] = q[i] BY <2>1, <1>0, <1>1, <1>3
    <3> QED BY <3>1 DEF Range
  <2>2. CASE ~ (i <= m)
    <3>1. i - m \in 1..(Len(q) - m) /\ m + (i - m) = i BY <2>2, <1>0
    <3>2. i - m \in DOMAIN v /\ v[i - m] = q[i] BY <3>1, <1>2, <1>3
    <3> QED BY <3>2 DEF Range
  <2> QED BY <2>1, <2>2
<1>8. ASSUME NEW k \in Range(u), k \in Range(v) PROVE FALSE
  <2>1. PICK i \in 1..m : k = q[i] BY <1>1, <1>3 DEF Range
  <2>2. PICK j \in 1..(Len(q) - m) : k = q[m + j] BY <1>2, <1>3, <1>8 DEF Range
  <2>3. i \in DOMAIN q /\ m + j \in DOMAIN q BY <1>0
  <2>4. i = m + j BY <2>1, <2>2, <2>3 DEF IsInjective
  <2> QED BY <2>4, <1>0
<1>9. Range(q) = Range(u) \cup Range(v)
  <2>1. Range(q) \subseteq Range(u) \cup Range(v) BY <1>7 DEF Range
  <2> QED BY <2>1, <1>6
<1> QED BY <1>1, <1>2, <1>4, <1>5, <1>8, <1>9 DEF u, v

\* What reading one queue does to its surface: the first commits are applied,
\* the last of those is kept, and of the rest every explicit one is retired.
Through(q, rest) == Range(q) \ Range(rest)
ReadIs(s, D, q, holds, commits) ==
  LET rest == SubSeq(q, Len(ReadyPart(q, holds)) + 1, Len(q))
      a == Applied(s, q, holds, commits)
      passed == {wrapper[s]} \cup Through(q, rest)
  IN /\ rest \in Seq(D) /\ IsInjective(rest) /\ Range(rest) \subseteq Range(q)
     /\ Through(q, rest) \cap holds = {}
     /\ rest # <<>> => Head(rest) \in holds
     /\ a.now \in passed
     /\ a.adopted = Explicits(commits) \cap Through(q, rest)
     /\ a.retired = (Explicits(commits) \cap passed) \ {a.now}

LEMMA AppliedIs ==
  ASSUME NEW s, NEW D, NEW q \in Seq(D), IsInjective(q), wrapper[s] \notin Range(q),
         NEW holds, NEW commits
  PROVE  ReadIs(s, D, q, holds, commits)
<1> DEFINE u == ReadyPart(q, holds)
           rest == SubSeq(q, Len(u) + 1, Len(q))
           chain == <<wrapper[s]>> \o u
           turns == {i \in DOMAIN chain : i = 1 \/ Replaces(chain, i, commits)}
           last == Max(turns)
           E == Explicits(commits)
<1>1. PICK m \in 0..Len(q) : /\ u = SubSeq(q, 1, m)
                             /\ \A i \in 1..m : q[i] \notin holds
                             /\ m < Len(q) => q[m + 1] \in holds
  BY ReadyCut
<1>2. /\ u \in Seq(D) /\ Len(u) = m /\ \A i \in 1..m : u[i] = q[i]
      /\ rest \in Seq(D) /\ IsInjective(rest)
      /\ rest # <<>> => m < Len(q) /\ Head(rest) = q[m + 1]
      /\ Range(q) = Range(u) \cup Range(rest) /\ Range(u) \cap Range(rest) = {}
  <2>1. Len(SubSeq(q, 1, m)) = m /\ SubSeq(q, 1, m) \in Seq(D) BY CutInTwo
  <2>2. rest = SubSeq(q, m + 1, Len(q)) BY <1>1, <2>1
  <2> HIDE DEF u, rest
  <2> QED BY <1>1, <2>2, CutInTwo
<1>3. Through(q, rest) = Range(u) BY <1>2 DEF Through
<1> HIDE DEF u, rest
<1>4. m \in Nat /\ DOMAIN u = 1..m BY <1>2
<1>5. /\ DOMAIN chain = 1..(m + 1) /\ chain[1] = wrapper[s]
      /\ \A i \in 1..m : chain[i + 1] = q[i]
  <2>1. Len(chain) = m + 1 /\ chain \in Seq(D \cup {wrapper[s]})
    <3>1. u \in Seq(D \cup {wrapper[s]}) /\ <<wrapper[s]>> \in Seq(D \cup {wrapper[s]})
      BY <1>2
    <3>2. Len(<<wrapper[s]>>) = 1 OBVIOUS
    <3> QED BY <1>2, <1>4, <3>1, <3>2
  <2>2. \A i \in 1..m : chain[i + 1] = u[i] BY <1>2, <1>4
  <2>3. chain[1] = wrapper[s] BY <1>2, <1>4
  <2> QED BY <1>2, <1>4, <2>1, <2>2, <2>3
<1> HIDE DEF chain
<1>6. turns \in SUBSET (1..(m + 1)) /\ 1 \in turns BY <1>4, <1>5
<1>7. last \in turns
  <2>1. turns \in SUBSET Int /\ turns # {} /\ m + 1 \in Int /\ \A x \in turns : x <= m + 1
    BY <1>4, <1>6
  <2> HIDE DEF turns
  <2> QED BY <2>1, GreatestOf
<1>8. \A i \in 2..(m + 1) : chain[i] \in E => i \in turns
  BY <1>4, <1>5 DEF Replaces, Explicits
<1>9. \A i, j \in 1..(m + 1) : chain[i] = chain[j] => i = j
  <2>1. \A i \in 1..m : q[i] \in Range(q) /\ i \in DOMAIN q BY <1>4 DEF Range
  <2>2. \A i \in 2..(m + 1) : i - 1 \in 1..m /\ chain[i] = q[i - 1] BY <1>4, <1>5
  <2>3. \A i, j \in 1..m : q[i] = q[j] => i = j BY <2>1 DEF IsInjective
  <2>4. \A i \in 1..(m + 1) : i = 1 \/ i \in 2..(m + 1) BY <1>4
  <2>5. \A i, j \in 2..(m + 1) : chain[i] = chain[j] => i = j
    <3> SUFFICES ASSUME NEW i \in 2..(m + 1), NEW j \in 2..(m + 1), chain[i] = chain[j] PROVE i = j
      OBVIOUS
    <3>1. i - 1 = j - 1 BY <2>2, <2>3
    <3> QED BY <3>1, <1>4
  <2>6. \A i \in 2..(m + 1) : chain[i] # chain[1] BY <1>5, <2>1, <2>2
  <2> QED BY ONLY <2>4, <2>5, <2>6
<1>10. Range(u) = {chain[i] : i \in 2..(m + 1)}
  <2>1. \A i \in 1..m : i + 1 \in 2..(m + 1) /\ u[i] = chain[i + 1] BY <1>2, <1>4, <1>5
  <2>2. \A i \in 2..(m + 1) : i - 1 \in 1..m /\ chain[i] = u[i - 1]
    <3> TAKE i \in 2..(m + 1)
    <3>1. i - 1 \in 1..m /\ (i - 1) + 1 = i BY <1>4
    <3> QED BY <1>2, <1>5, <3>1
  <2>3. Range(u) = {u[i] : i \in 1..m} BY <1>4 DEF Range
  <2>4. \A k \in Range(u) : \E i \in 2..(m + 1) : k = chain[i] BY ONLY <2>1, <2>3
  <2>5. \A i \in 2..(m + 1) : chain[i] \in Range(u) BY ONLY <2>2, <2>3
  <2> QED BY ONLY <2>4, <2>5
<1>11. 1..(m + 1) = {1} \cup (2..(m + 1)) /\ 1 \notin 2..(m + 1) BY <1>4
<1> HIDE DEF turns, E, last
<1>12. chain[last] \in {wrapper[s]} \cup Range(u) BY <1>5, <1>6, <1>7, <1>10, <1>11
<1>13. {chain[i] : i \in turns \ {1}} \cap E = E \cap Range(u)
  BY <1>6, <1>8, <1>10, <1>11
<1>14. {chain[i] : i \in turns \ {last}} \cap E = (E \cap ({wrapper[s]} \cup Range(u))) \ {chain[last]}
  BY <1>5, <1>6, <1>7, <1>8, <1>9, <1>10, <1>11
<1>15. Applied(s, q, holds, commits) =
         [now |-> chain[last],
          retired |-> {chain[i] : i \in turns \ {last}} \cap E,
          adopted |-> {chain[i] : i \in turns \ {1}} \cap E]
  BY DEF Applied, chain, turns, last, E, u
<1>16. Range(u) \cap holds = {} BY <1>1, <1>2, <1>4 DEF Range
<1>17. rest # <<>> => Head(rest) \in holds BY <1>1, <1>2
<1>18. Range(rest) \subseteq Range(q) BY <1>2
<1> HIDE DEF chain
<1>19. LET a == Applied(s, q, holds, commits)
       IN /\ a.now \in {wrapper[s]} \cup Range(u)
          /\ a.adopted = E \cap Range(u)
          /\ a.retired = (E \cap ({wrapper[s]} \cup Range(u))) \ {a.now}
  BY ONLY <1>12, <1>13, <1>14, <1>15
<1> QED BY <1>2, <1>3, <1>16, <1>17, <1>18, <1>19 DEF ReadIs, u, rest, E

\* One surface: its commits wait once, are its own, and every explicit one of
\* them waits, is kept, or was signalled.
Traced(s, mk, q, w, fin, ls, sig) ==
  /\ q \in Seq(DOMAIN mk) /\ IsInjective(q) /\ w \notin Range(q)
  /\ w \in DOMAIN mk \cup {NoCommit}
  /\ \A k \in Range(q) \cup ls : k \in DOMAIN mk /\ mk[k].on = s
  /\ w # NoCommit => mk[w].on = s
  /\ Range(q) \cap Explicits(mk) \subseteq ls \ fin
  /\ \A k \in Explicits(mk) : mk[k].on = s => (k \in sig <=> ~(k \in Range(q) \/ k = w))

LEMMA SeqWithin ==
  ASSUME NEW D, NEW q \in Seq(D)
  PROVE  Range(q) \subseteq D
<1>1. \A i \in DOMAIN q : q[i] \in D OBVIOUS
<1> QED BY ONLY <1>1 DEF Range

LEMMA TracedRead ==
  ASSUME NEW s, NEW mk, NEW q, NEW holds, NEW fin, NEW ls, NEW sig, NEW fin2, NEW sig2,
         Traced(s, mk, q, wrapper[s], fin, ls, sig), NoCommit \notin DOMAIN mk,
         ReadIs(s, DOMAIN mk, q, holds, mk),
         \A k \in DOMAIN mk : mk[k].on = s =>
           /\ k \in fin2 <=> k \in fin \/ k \in Applied(s, q, holds, mk).adopted
           /\ k \in sig2 <=> k \in sig \/ k \in Applied(s, q, holds, mk).retired
  PROVE  Traced(s, mk, SubSeq(q, Len(ReadyPart(q, holds)) + 1, Len(q)),
                Applied(s, q, holds, mk).now, fin2, ls, sig2)
<1> DEFINE rest == SubSeq(q, Len(ReadyPart(q, holds)) + 1, Len(q))
           now == Applied(s, q, holds, mk).now
           adopted == Applied(s, q, holds, mk).adopted
           retired == Applied(s, q, holds, mk).retired
           E == Explicits(mk)
           w == wrapper[s]
<1>1. /\ rest \in Seq(DOMAIN mk) /\ IsInjective(rest) /\ Range(rest) \subseteq Range(q)
      /\ now \in {w} \cup Through(q, rest)
      /\ adopted = E \cap Through(q, rest)
      /\ retired = (E \cap ({w} \cup Through(q, rest))) \ {now}
  BY DEF ReadIs
<1>2. \A k \in DOMAIN mk : mk[k].on = s =>
        /\ k \in fin2 <=> k \in fin \/ k \in adopted
        /\ k \in sig2 <=> k \in sig \/ k \in retired
  OBVIOUS
<1>3. /\ w \notin Range(q) /\ w \in DOMAIN mk \cup {NoCommit}
      /\ \A k \in Range(q) \cup ls : k \in DOMAIN mk /\ mk[k].on = s
      /\ w # NoCommit => mk[w].on = s
      /\ Range(q) \cap E \subseteq ls \ fin
      /\ \A k \in E : mk[k].on = s => (k \in sig <=> ~(k \in Range(q) \/ k = w))
  BY DEF Traced
<1>4. E \subseteq DOMAIN mk BY DEF Explicits
<1> HIDE DEF rest, now, adopted, retired, E, w
<1>5. now \notin Range(rest) BY <1>1, <1>3 DEF Through
<1>6. now \in DOMAIN mk \cup {NoCommit} /\ (now # NoCommit => mk[now].on = s)
  BY <1>1, <1>3 DEF Through
<1>7. \A k \in Range(rest) \cup ls : k \in DOMAIN mk /\ mk[k].on = s BY <1>1, <1>3
<1>8. Range(rest) \cap E \subseteq ls \ fin2
  <2> SUFFICES ASSUME NEW k \in Range(rest), k \in E PROVE k \in ls /\ k \notin fin2
    OBVIOUS
  <2>1. k \in DOMAIN mk /\ mk[k].on = s /\ k \in ls /\ k \notin fin BY <1>1, <1>3
  <2>2. k \notin adopted BY <1>1 DEF Through
  <2>3. k \in fin2 <=> k \in fin \/ k \in adopted BY ONLY <1>2, <2>1
  <2> QED BY ONLY <2>1, <2>2, <2>3
<1>9. ASSUME NEW k \in E, mk[k].on = s PROVE k \in sig2 <=> ~(k \in Range(rest) \/ k = now)
  <2>1. k \in sig2 <=> k \in sig \/ k \in retired
    <3>1. k \in DOMAIN mk /\ mk[k].on = s BY <1>4, <1>9
    <3> QED BY ONLY <1>2, <3>1
  <2>2. k \in sig <=> ~(k \in Range(q) \/ k = w) BY <1>3, <1>9
  <2>3. k \in retired <=> k # now /\ (k = w \/ (k \in Range(q) /\ k \notin Range(rest)))
    BY <1>1, <1>9 DEF Through
  <2>4. k = now => k = w \/ (k \in Range(q) /\ k \notin Range(rest)) BY <1>1 DEF Through
  <2>5. k \in Range(rest) => k \in Range(q) /\ k # w BY <1>1, <1>3
  <2> QED BY ONLY <2>1, <2>2, <2>3, <2>4, <2>5
<1>10. Traced(s, mk, rest, now, fin2, ls, sig2)
  BY ONLY <1>1, <1>5, <1>6, <1>7, <1>8, <1>9 DEF Traced, E
<1> QED BY <1>10 DEF rest, now

\* A surface that goes: nothing waits and nothing is kept, and what was
\* waited for or kept has been signalled.
LEMMA TracedGone ==
  ASSUME NEW s, NEW mk, NEW q, NEW w, NEW fin, NEW ls, NEW sig, NEW fin2, NEW sig2,
         Traced(s, mk, q, w, fin, ls, sig), NoCommit \notin DOMAIN mk,
         \A k \in DOMAIN mk : mk[k].on = s =>
           (k \in sig2 <=> k \in sig \/ (k = w /\ k \in Explicits(mk)) \/ k \in ls \ fin)
  PROVE  Traced(s, mk, <<>>, NoCommit, fin2, {}, sig2)
<1>1. <<>> \in Seq(DOMAIN mk) /\ IsInjective(<<>>) /\ Range(<<>>) = {}
  BY DEF IsInjective, Range
<1>2. Explicits(mk) \subseteq DOMAIN mk BY DEF Explicits
<1>3. ASSUME NEW k \in Explicits(mk), mk[k].on = s
      PROVE  k \in sig2 <=> ~(k \in Range(<<>>) \/ k = NoCommit)
  BY <1>1, <1>2, <1>3 DEF Traced
<1> QED BY <1>1, <1>3 DEF Traced

\* Nothing that concerns the surface changes.
LEMMA TracedSame ==
  ASSUME NEW s, NEW mk, NEW q, NEW w, NEW fin, NEW ls, NEW sig, NEW fin2, NEW sig2,
         Traced(s, mk, q, w, fin, ls, sig),
         \A k \in DOMAIN mk : mk[k].on = s =>
           (k \in fin2 <=> k \in fin) /\ (k \in sig2 <=> k \in sig)
  PROVE  Traced(s, mk, q, w, fin2, ls, sig2)
<1>1. Explicits(mk) \subseteq DOMAIN mk BY DEF Explicits
<1> QED BY <1>1 DEF Traced

\* Reading a client's queues, seen from one of its surfaces, from another
\* client's, and from one that goes.
\* Over: the points that are done with, signalled or turned down.
Over == signalled \cup rejected \cup unlisted
Mine(s, c, living) == s \in living /\ DrawerOf[s] = c
Placed(mk, q, ls) ==
  \A s \in Surfaces : /\ Traced(s, mk, q[s], wrapper[s], finished, ls[s], Over)
                      /\ s \notin alive => q[s] = <<>> /\ wrapper[s] = NoCommit
Reads(c, q, holds, mk, living, ls) ==
  /\ living \subseteq alive /\ alive \subseteq Surfaces
  /\ NoCommit \notin DOMAIN mk
  /\ Placed(mk, q, ls)
  /\ living = alive \/ (mk = made /\ ls = listed)
  /\ Clear(c, q, holds, mk, living) /\ UNCHANGED turnedDown

LEMMA ReadMine ==
  ASSUME NEW c, NEW q, NEW holds, NEW mk, NEW living, NEW ls,
         Reads(c, q, holds, mk, living, ls), NEW s \in Surfaces, Mine(s, c, living)
  PROVE  /\ ReadIs(s, DOMAIN mk, q[s], holds, mk)
         /\ queue'[s] = SubSeq(q[s], Len(ReadyPart(q[s], holds)) + 1, Len(q[s]))
         /\ wrapper'[s] = Applied(s, q[s], holds, mk).now
<1>1. q[s] \in Seq(DOMAIN mk) /\ IsInjective(q[s]) /\ wrapper[s] \notin Range(q[s])
  BY DEF Reads, Placed, Traced
<1>2. ReadIs(s, DOMAIN mk, q[s], holds, mk) BY <1>1, AppliedIs
<1>3. /\ queue'[s] = SubSeq(q[s], Len(ReadyPart(q[s], holds)) + 1, Len(q[s]))
      /\ wrapper'[s] = Applied(s, q[s], holds, mk).now
  BY DEF Reads, Clear, Mine
<1> QED BY <1>2, <1>3

LEMMA ReadOthers ==
  ASSUME NEW c, NEW q, NEW holds, NEW mk, NEW living, NEW ls,
         Reads(c, q, holds, mk, living, ls), NEW s \in Surfaces, ~ Mine(s, c, living)
  PROVE  /\ s \in living => queue'[s] = q[s] /\ wrapper'[s] = wrapper[s]
         /\ s \notin living => queue'[s] = <<>> /\ wrapper'[s] = NoCommit
BY DEF Reads, Clear, Mine

\* What is finished and signalled concerns the surface it was committed on.
Finishes(s, k, c, q, holds, mk, living) ==
  \/ Mine(s, c, living) /\ k \in Applied(s, q[s], holds, mk).adopted
  \/ s \in alive \ living /\ k \in listed[s]
Signals(s, k, c, q, holds, mk, living) ==
  \/ Mine(s, c, living) /\ k \in Applied(s, q[s], holds, mk).retired
  \/ s \in alive \ living /\ ((k = wrapper[s] /\ k \in Explicits(mk)) \/ k \in listed[s] \ finished)

LEMMA ReadFinishes ==
  ASSUME NEW c, NEW q, NEW holds, NEW mk, NEW living, NEW ls,
         Reads(c, q, holds, mk, living, ls)
  PROVE  /\ \A k : k \in finished' <=>
              k \in finished \/ \E s \in Surfaces : Finishes(s, k, c, q, holds, mk, living)
         /\ \A k : k \in Over' <=>
              k \in Over \/ \E s \in Surfaces : Signals(s, k, c, q, holds, mk, living)
         /\ \A k : k \in signalled' <=>
              k \in signalled \/ \E s \in Surfaces : Signals(s, k, c, q, holds, mk, living)
<1> DEFINE mine == {s \in living : DrawerOf[s] = c}
           result == [s \in mine |-> Applied(s, q[s], holds, mk)]
<1>1. /\ finished' = finished \cup (UNION {result[s].adopted : s \in mine})
                       \cup (UNION {listed[s] : s \in alive \ living})
      /\ signalled' = signalled \cup (UNION {result[s].retired : s \in mine})
          \cup (UNION {(Held(s) \cap Explicits(made)) \cup (listed[s] \ finished) : s \in alive \ living})
  BY DEF Reads, Clear
<1>2. \A s : s \in mine <=> s \in Surfaces /\ Mine(s, c, living) BY DEF Reads, Mine
<1>3. \A s \in mine : result[s] = Applied(s, q[s], holds, mk) OBVIOUS
<1>4. alive \ living \subseteq Surfaces BY DEF Reads
<1>5. \A s \in alive \ living : made = mk BY DEF Reads
<1>6. NoCommit \notin Explicits(mk) BY DEF Reads, Explicits
<1>7. \A s \in alive \ living : \A k :
        k \in Held(s) \cap Explicits(made) <=> k = wrapper[s] /\ k \in Explicits(mk)
  BY <1>5, <1>6 DEF Held
<1> HIDE DEF mine, result
<1>8. \A k : k \in finished' <=>
         k \in finished \/ \E s \in Surfaces : Finishes(s, k, c, q, holds, mk, living)
  BY <1>1, <1>2, <1>3, <1>4 DEF Finishes
<1>9. \A k : k \in signalled' <=>
         k \in signalled \/ \E s \in Surfaces : Signals(s, k, c, q, holds, mk, living)
  BY <1>1, <1>2, <1>3, <1>4, <1>7 DEF Signals
<1>10. \A k : k \in Over' <=>
          k \in Over \/ \E s \in Surfaces : Signals(s, k, c, q, holds, mk, living)
  <2>1. rejected' = rejected /\ unlisted' = unlisted BY DEF Reads, turnedDown
  <2> QED BY ONLY <1>9, <2>1 DEF Over
<1> QED BY <1>8, <1>9, <1>10

LEMMA OwnRead ==
  ASSUME NEW c, NEW q, NEW holds, NEW mk, NEW living, NEW ls,
         Reads(c, q, holds, mk, living, ls), NEW t \in Surfaces, NEW k \in DOMAIN mk,
         Finishes(t, k, c, q, holds, mk, living) \/ Signals(t, k, c, q, holds, mk, living)
  PROVE  mk[k].on = t
<1>1. /\ \A x \in Range(q[t]) \cup ls[t] : mk[x].on = t
      /\ wrapper[t] # NoCommit => mk[wrapper[t]].on = t
      /\ k # NoCommit
  BY DEF Reads, Placed, Traced
<1>2. CASE Mine(t, c, living)
  <2>1. ReadIs(t, DOMAIN mk, q[t], holds, mk) BY <1>2, ReadMine
  <2>2. t \notin alive \ living BY <1>2 DEF Mine
  <2>3. k \in Range(q[t]) \cup {wrapper[t]}
    BY <2>1, <2>2 DEF ReadIs, Through, Finishes, Signals
  <2> QED BY <1>1, <2>3
<1>3. CASE ~ Mine(t, c, living)
  <2>1. t \in alive \ living /\ (k \in listed[t] \/ k = wrapper[t])
    BY <1>3 DEF Finishes, Signals
  <2>2. ls = listed BY <2>1 DEF Reads
  <2> QED BY <1>1, <2>1, <2>2
<1> QED BY <1>2, <1>3

\* After the queues are read, every surface is still accounted for; one that
\* went lists nothing any more.
After(mk, living, ls) ==
  \A s \in Surfaces :
    /\ Traced(s, mk, queue'[s], wrapper'[s], finished',
              IF s \in alive \ living THEN {} ELSE ls[s], Over')
    /\ s \notin living => queue'[s] = <<>> /\ wrapper'[s] = NoCommit

LEMMA ReadPlaces ==
  ASSUME NEW c, NEW q, NEW holds, NEW mk, NEW living, NEW ls,
         Reads(c, q, holds, mk, living, ls)
  PROVE  After(mk, living, ls)
<1> SUFFICES ASSUME NEW s \in Surfaces
             PROVE  /\ Traced(s, mk, queue'[s], wrapper'[s], finished',
                              IF s \in alive \ living THEN {} ELSE ls[s], Over')
                    /\ s \notin living => queue'[s] = <<>> /\ wrapper'[s] = NoCommit
  BY DEF After
<1>1. /\ Traced(s, mk, q[s], wrapper[s], finished, ls[s], Over)
      /\ s \notin alive => q[s] = <<>> /\ wrapper[s] = NoCommit
      /\ NoCommit \notin DOMAIN mk
  BY DEF Reads, Placed
<1>2. \A k \in DOMAIN mk : mk[k].on = s =>
        /\ k \in finished' <=> k \in finished \/ Finishes(s, k, c, q, holds, mk, living)
        /\ k \in Over' <=> k \in Over \/ Signals(s, k, c, q, holds, mk, living)
  <2> TAKE k \in DOMAIN mk
  <2> SUFFICES ASSUME mk[k].on = s
               PROVE  /\ k \in finished' <=> k \in finished \/ Finishes(s, k, c, q, holds, mk, living)
                      /\ k \in Over' <=> k \in Over \/ Signals(s, k, c, q, holds, mk, living)
    OBVIOUS
  <2>1. /\ k \in finished' <=>
             k \in finished \/ \E t \in Surfaces : Finishes(t, k, c, q, holds, mk, living)
        /\ k \in Over' <=>
             k \in Over \/ \E t \in Surfaces : Signals(t, k, c, q, holds, mk, living)
    BY ReadFinishes
  <2>2. \A t \in Surfaces : Finishes(t, k, c, q, holds, mk, living) => t = s BY OwnRead
  <2>3. \A t \in Surfaces : Signals(t, k, c, q, holds, mk, living) => t = s BY OwnRead
  <2> QED BY ONLY <2>1, <2>2, <2>3, s \in Surfaces
<1>3. CASE Mine(s, c, living)
  <2>1. s \in living /\ s \notin alive \ living BY <1>3 DEF Mine
  <2>2. \A k \in DOMAIN mk : mk[k].on = s =>
          /\ k \in finished' <=> k \in finished \/ k \in Applied(s, q[s], holds, mk).adopted
          /\ k \in Over' <=> k \in Over \/ k \in Applied(s, q[s], holds, mk).retired
    BY ONLY <1>2, <1>3, <2>1 DEF Finishes, Signals
  <2>3. /\ ReadIs(s, DOMAIN mk, q[s], holds, mk)
        /\ queue'[s] = SubSeq(q[s], Len(ReadyPart(q[s], holds)) + 1, Len(q[s]))
        /\ wrapper'[s] = Applied(s, q[s], holds, mk).now
    <3>1. ReadIs(s, DOMAIN mk, q[s], holds, mk) BY <1>3, ReadMine
    <3>2. queue'[s] = SubSeq(q[s], Len(ReadyPart(q[s], holds)) + 1, Len(q[s])) 
      BY <1>3 DEF Reads, Clear, Mine
    <3>3. wrapper'[s] = Applied(s, q[s], holds, mk).now BY <1>3 DEF Reads, Clear, Mine
    <3> QED BY ONLY <3>1, <3>2, <3>3
  <2>4. Traced(s, mk, SubSeq(q[s], Len(ReadyPart(q[s], holds)) + 1, Len(q[s])),
               Applied(s, q[s], holds, mk).now, finished', ls[s], Over')
    BY ONLY <1>1, <2>2, <2>3, TracedRead
  <2> QED BY ONLY <2>1, <2>3, <2>4
<1>4. CASE ~ Mine(s, c, living)
  <2>1. CASE s \in alive \ living
    <3>1. queue'[s] = <<>> /\ wrapper'[s] = NoCommit BY <1>4, <2>1, ReadOthers
    <3>2. ls = listed BY <2>1 DEF Reads
    <3>3. \A k \in DOMAIN mk : mk[k].on = s =>
            (k \in Over' <=> k \in Over \/ (k = wrapper[s] /\ k \in Explicits(mk))
                                    \/ k \in ls[s] \ finished)
      BY ONLY <1>2, <1>4, <2>1, <3>2 DEF Signals
    <3>4. Traced(s, mk, <<>>, NoCommit, finished', {}, Over') BY ONLY <1>1, <3>3, TracedGone
    <3> QED BY ONLY <2>1, <3>1, <3>4
  <2>2. CASE s \notin alive \ living
    <3>1. queue'[s] = q[s] /\ wrapper'[s] = wrapper[s]
      <4>1. CASE s \in living BY <1>4, <4>1, ReadOthers
      <4>2. CASE s \notin living
        <5>1. s \notin alive BY <2>2, <4>2
        <5> QED BY <1>1, <1>4, <4>2, <5>1, ReadOthers
      <4> QED BY <4>1, <4>2
    <3>2. \A k \in DOMAIN mk : mk[k].on = s =>
            (k \in finished' <=> k \in finished) /\ (k \in Over' <=> k \in Over)
      BY ONLY <1>2, <1>4, <2>2 DEF Finishes, Signals
    <3>3. Traced(s, mk, q[s], wrapper[s], finished', ls[s], Over')
      BY ONLY <1>1, <3>2, TracedSame
    <3>4. s \notin living => s \notin alive BY <2>2
    <3> QED BY ONLY <1>1, <2>2, <3>1, <3>3, <3>4
  <2> QED BY <2>1, <2>2
<1> QED BY <1>3, <1>4

\* A watcher is for a commit of its client that waits on a live surface and is
\* held; a held commit of a client that is up has one, and so has a fence.
Watched(q, mk, living, src, blk, fen, cl) ==
  /\ \A c \in Drawers, k \in Commits : k \in src[c] =>
       /\ mk[k].on \in living /\ DrawerOf[mk[k].on] = c
       /\ k \in Range(q[mk[k].on]) /\ k \in blk
  /\ \A s \in living :
       /\ Range(q[s]) \cap fen \subseteq blk
       /\ cl[DrawerOf[s]] = "up" => Range(q[s]) \cap blk \subseteq src[DrawerOf[s]]
Fenced(q, w, living, src, fen, cl) ==
  \A s \in living :
    /\ w[s] # NoCommit => w[s] \notin fen
    /\ cl[DrawerOf[s]] = "up" /\ q[s] # <<>> => Head(q[s]) \in src[DrawerOf[s]]

LEMMA HeadWaits ==
  ASSUME NEW D, NEW q \in Seq(D), q # <<>>
  PROVE  Head(q) \in Range(q)
<1>1. 1 \in DOMAIN q /\ Head(q) = q[1] OBVIOUS
<1> QED BY ONLY <1>1 DEF Range

LEMMA ReadWatches ==
  ASSUME NEW c, NEW q, NEW holds, NEW mk, NEW living, NEW ls,
         Reads(c, q, holds, mk, living, ls),
         NEW src, NEW blk, NEW fen, NEW cl,
         Watched(q, mk, living, src, blk, fen, cl),
         blk \subseteq holds, cl[c] = "up" => holds = blk,
         \A s \in living : wrapper[s] # NoCommit => wrapper[s] \notin fen,
         \A s \in living : ~ Mine(s, c, living) /\ cl[DrawerOf[s]] = "up" /\ q[s] # <<>>
                              => Head(q[s]) \in src[DrawerOf[s]]
  PROVE  /\ Watched(queue', mk, living, src, blk, fen, cl)
         /\ Fenced(queue', wrapper', living, src, fen, cl)
<1>1. living \subseteq Surfaces BY DEF Reads
<1>2. ASSUME NEW s \in living
      PROVE  /\ Range(queue'[s]) \subseteq Range(q[s])
             /\ Range(q[s]) \cap blk \subseteq Range(queue'[s])
             /\ wrapper'[s] # NoCommit => wrapper'[s] \notin fen
             /\ cl[DrawerOf[s]] = "up" /\ queue'[s] # <<>> => Head(queue'[s]) \in src[DrawerOf[s]]
  <2>0. s \in Surfaces BY <1>1
  <2>1. CASE Mine(s, c, living)
    <3> DEFINE rest == SubSeq(q[s], Len(ReadyPart(q[s], holds)) + 1, Len(q[s]))
               now == Applied(s, q[s], holds, mk).now
    <3>1. ReadIs(s, DOMAIN mk, q[s], holds, mk) BY <2>0, <2>1, ReadMine
    <3>2. queue'[s] = rest /\ wrapper'[s] = now BY <2>0, <2>1 DEF Reads, Clear, Mine
    <3>3. /\ rest \in Seq(DOMAIN mk) /\ Range(rest) \subseteq Range(q[s])
          /\ Through(q[s], rest) \cap holds = {}
          /\ rest # <<>> => Head(rest) \in holds
          /\ now \in {wrapper[s]} \cup Through(q[s], rest)
      BY ONLY <3>1 DEF ReadIs
    <3> HIDE DEF rest, now
    <3>4. rest # <<>> => Head(rest) \in Range(rest) BY <3>3, HeadWaits
    <3>5. /\ Range(q[s]) \cap fen \subseteq blk
          /\ cl[DrawerOf[s]] = "up" => Range(q[s]) \cap blk \subseteq src[DrawerOf[s]]
      BY DEF Watched
    <3>6. DrawerOf[s] = c BY <2>1 DEF Mine
    <3>7. now # NoCommit => now \notin fen BY <3>3, <3>5 DEF Through
    <3>8. Range(q[s]) \cap blk \subseteq Range(rest) BY <3>3 DEF Through
    <3>9. cl[DrawerOf[s]] = "up" /\ rest # <<>> => Head(rest) \in src[DrawerOf[s]]
      BY <3>3, <3>4, <3>5, <3>6
    <3> QED BY ONLY <3>2, <3>3, <3>7, <3>8, <3>9
  <2>2. CASE ~ Mine(s, c, living)
    <3>1. queue'[s] = q[s] /\ wrapper'[s] = wrapper[s] BY <2>0, <2>2, ReadOthers
    <3> QED BY <2>2, <3>1
  <2> QED BY <2>1, <2>2
<1>3. Watched(queue', mk, living, src, blk, fen, cl)
  <2>1. ASSUME NEW d \in Drawers, NEW k \in Commits, k \in src[d]
        PROVE  /\ mk[k].on \in living /\ DrawerOf[mk[k].on] = d
               /\ k \in Range(queue'[mk[k].on]) /\ k \in blk
    <3>1. /\ mk[k].on \in living /\ DrawerOf[mk[k].on] = d
          /\ k \in Range(q[mk[k].on]) /\ k \in blk
      BY <2>1 DEF Watched
    <3>2. Range(q[mk[k].on]) \cap blk \subseteq Range(queue'[mk[k].on]) BY <1>2, <3>1
    <3> QED BY <3>1, <3>2
  <2>2. ASSUME NEW s \in living
        PROVE  /\ Range(queue'[s]) \cap fen \subseteq blk
               /\ cl[DrawerOf[s]] = "up" => Range(queue'[s]) \cap blk \subseteq src[DrawerOf[s]]
    <3>1. Range(queue'[s]) \subseteq Range(q[s]) BY <1>2
    <3> QED BY <3>1 DEF Watched
  <2> QED BY ONLY <2>1, <2>2 DEF Watched
<1>4. Fenced(queue', wrapper', living, src, fen, cl) BY ONLY <1>2 DEF Fenced
<1> QED BY <1>3, <1>4

\* What the watchers count to.
Counted(src, n) ==
  /\ n \in Nat /\ n = Cardinality(UNION {src[c] : c \in Drawers}) /\ n <= Total
  /\ \A c \in Drawers : Cardinality(src[c]) <= PerClient
Apiece(src) ==
  \A c, d \in Drawers : c # d => src[c] \cap src[d] = {}

LEMMA WatchersLess ==
  ASSUME NEW M, IsFiniteSet(M), NEW src \in [Drawers -> SUBSET M], NEW n, Counted(src, n), Apiece(src),
         NEW c \in Drawers, NEW T \in SUBSET src[c]
  PROVE  Counted([src EXCEPT ![c] = @ \ T], n - Cardinality(T))
<1> DEFINE U == UNION {src[d] : d \in Drawers}
           src2 == [src EXCEPT ![c] = @ \ T]
           V == UNION {src2[d] : d \in Drawers}
<1>1. V = U \ T
  <2>1. \A d \in Drawers : src2[d] = src[d] \ T BY DEF Apiece
  <2> HIDE DEF src2
  <2> QED BY <2>1
<1>2. U \subseteq M /\ T \subseteq U OBVIOUS
<1>3. IsFiniteSet(U) /\ IsFiniteSet(T) BY <1>2, FS_Subset
<1> HIDE DEF U, V, src2
<1>4. U \cap T = T BY <1>2
<1>5. Cardinality(V) = Cardinality(U) - Cardinality(T) BY <1>1, <1>3, <1>4, FS_Difference
<1>6. Cardinality(U) \in Nat /\ Cardinality(T) \in Nat /\ Cardinality(V) \in Nat
  <2>1. IsFiniteSet(V) BY <1>1, <1>3, FS_Subset
  <2> QED BY <1>3, <2>1, FS_CardinalityType
<1>7. n = Cardinality(U) /\ n <= Total BY DEF Counted, U
<1>8. n - Cardinality(T) = Cardinality(V) /\ n - Cardinality(T) \in Nat /\ n - Cardinality(T) <= Total
  BY <1>5, <1>6, <1>7, BufferCommitsAssumption
<1>9. ASSUME NEW d \in Drawers PROVE Cardinality(src2[d]) <= PerClient
  <2>1. src2[d] \subseteq src[d] /\ src[d] \subseteq M BY DEF src2
  <2>2. IsFiniteSet(src[d]) BY <2>1, FS_Subset
  <2>3. IsFiniteSet(src2[d]) /\ Cardinality(src2[d]) <= Cardinality(src[d]) BY <2>1, <2>2, FS_Subset
  <2>4. Cardinality(src[d]) \in Nat /\ Cardinality(src2[d]) \in Nat BY <2>2, <2>3, FS_CardinalityType
  <2>5. Cardinality(src[d]) <= PerClient BY DEF Counted
  <2> QED BY <2>3, <2>4, <2>5, BufferCommitsAssumption
<1>10. Counted(src2, n - Cardinality(T)) BY ONLY <1>8, <1>9 DEF Counted, V
<1> QED BY <1>10 DEF src2

LEMMA WatchersMore ==
  ASSUME NEW M, IsFiniteSet(M), NEW src \in [Drawers -> SUBSET M], NEW n, Counted(src, n),
         NEW c \in Drawers, NEW k, k \notin M, n < Total, Cardinality(src[c]) < PerClient
  PROVE  Counted([src EXCEPT ![c] = @ \cup {k}], n + 1)
<1> DEFINE U == UNION {src[d] : d \in Drawers}
           src2 == [src EXCEPT ![c] = @ \cup {k}]
           V == UNION {src2[d] : d \in Drawers}
<1>1. V = U \cup {k}
  <2>1. \A d \in Drawers : src2[d] = IF d = c THEN src[d] \cup {k} ELSE src[d] OBVIOUS
  <2> HIDE DEF src2
  <2> QED BY <2>1
<1>2. U \subseteq M /\ k \notin U OBVIOUS
<1>3. IsFiniteSet(U) BY <1>2, FS_Subset
<1> HIDE DEF U, V, src2
<1>5. Cardinality(V) = Cardinality(U) + 1 BY <1>1, <1>2, <1>3, FS_AddElement
<1>6. Cardinality(U) \in Nat BY <1>3, FS_CardinalityType
<1>7. n = Cardinality(U) BY DEF Counted, U
<1>8. n + 1 = Cardinality(V) /\ n + 1 \in Nat /\ n + 1 <= Total
  BY <1>5, <1>6, <1>7, BufferCommitsAssumption
<1>9. ASSUME NEW d \in Drawers PROVE Cardinality(src2[d]) <= PerClient
  <2>1. src[d] \subseteq M /\ k \notin src[d] OBVIOUS
  <2>2. IsFiniteSet(src[d]) BY <2>1, FS_Subset
  <2>3. Cardinality(src[d]) \in Nat /\ Cardinality(src[d]) <= PerClient
    BY <2>2, FS_CardinalityType DEF Counted
  <2>4. CASE d = c
    <3>1. src2[d] = src[d] \cup {k} BY <2>4 DEF src2
    <3>2. Cardinality(src2[d]) = Cardinality(src[d]) + 1 BY <2>1, <2>2, <3>1, FS_AddElement
    <3> QED BY <2>3, <2>4, <3>2, BufferCommitsAssumption
  <2>5. CASE d # c
    <3>1. src2[d] = src[d] BY <2>5 DEF src2
    <3> QED BY <2>3, <3>1
  <2> QED BY <2>4, <2>5
<1>10. Counted(src2, n + 1) BY ONLY <1>8, <1>9 DEF Counted, V
<1> QED BY <1>10 DEF src2

\* What every step keeps.
BcTypes ==
  /\ \E n \in Nat : DOMAIN made = 1..n
  /\ DOMAIN made \subseteq Commits /\ \A k \in DOMAIN made : made[k].on \in Surfaces
  /\ sources \in [Drawers -> SUBSET DOMAIN made] /\ listed \in [Surfaces -> SUBSET DOMAIN made]
  /\ DOMAIN queue = Surfaces
  /\ blocked \subseteq DOMAIN made /\ fenced \subseteq DOMAIN made
  /\ finished \subseteq DOMAIN made /\ Over \subseteq DOMAIN made
  /\ alive \subseteq Surfaces /\ client \in [Drawers -> {"up", "killed", "gone"}]
\* A client whose point was turned down commits no more, and a point it had
\* listed is signalled or still waits for its surface to go.
TurnedDown ==
  /\ rejected \cup unlisted \subseteq Explicits(made)
  /\ \A k \in rejected \cup unlisted : client[DrawerOf[made[k].on]] # "up"
  /\ \A k \in rejected \ signalled :
       made[k].on \in alive /\ k \in listed[made[k].on] /\ k \notin finished
BcInv ==
  /\ BcTypes /\ TurnedDown
  /\ Placed(made, queue, listed)
  /\ Watched(queue, made, alive, sources, blocked, fenced, client)
  /\ Fenced(queue, wrapper, alive, sources, fenced, client)
  /\ Counted(sources, sourceCount)

LEMMA MadeFinite ==
  ASSUME BcInv
  PROVE  /\ IsFiniteSet(DOMAIN made) /\ NoCommit \notin DOMAIN made
         /\ Cardinality(DOMAIN made) + 1 \notin DOMAIN made
         /\ DOMAIN made \cup {Cardinality(DOMAIN made) + 1} = 1..(Cardinality(DOMAIN made) + 1)
         /\ Cardinality(DOMAIN made) \in Nat
<1>1. PICK n \in Nat : DOMAIN made = 1..n BY DEF BcInv, BcTypes
<1>2. IsFiniteSet(1..n) /\ Cardinality(1..n) = n
  <2>1. IsFiniteSet(1..n) /\ Cardinality(1..n) = IF 1 > n THEN 0 ELSE n - 1 + 1 BY FS_Interval
  <2> QED BY <2>1
<1>3. n + 1 \notin 1..n /\ (1..n) \cup {n + 1} = 1..(n + 1) OBVIOUS
<1>4. NoCommit \notin DOMAIN made BY BufferCommitsAssumption DEF BcInv, BcTypes
<1> QED BY ONLY <1>1, <1>2, <1>3, <1>4

LEMMA SourcesApart ==
  ASSUME BcInv
  PROVE  Apiece(sources)
<1> SUFFICES ASSUME NEW c \in Drawers, NEW d \in Drawers, NEW k \in sources[c], k \in sources[d]
             PROVE  c = d
  BY DEF Apiece
<1>1. k \in Commits BY DEF BcInv, BcTypes
<1>2. DrawerOf[made[k].on] = c /\ DrawerOf[made[k].on] = d BY <1>1 DEF BcInv, Watched
<1> QED BY <1>2

LEMMA ReadWithin ==
  ASSUME NEW c, NEW q, NEW holds, NEW mk, NEW living, NEW ls,
         Reads(c, q, holds, mk, living, ls),
         finished \subseteq DOMAIN mk, Over \subseteq DOMAIN mk
  PROVE  finished' \subseteq DOMAIN mk /\ Over' \subseteq DOMAIN mk /\ DOMAIN queue' = Surfaces
<1>1. ASSUME NEW s \in Surfaces, NEW k,
             Finishes(s, k, c, q, holds, mk, living) \/ Signals(s, k, c, q, holds, mk, living)
      PROVE  k \in DOMAIN mk
  <2>1. CASE Mine(s, c, living)
    <3>1. ReadIs(s, DOMAIN mk, q[s], holds, mk) BY <2>1, ReadMine
    <3>2. s \notin alive \ living BY <2>1 DEF Mine
    <3> QED BY <1>1, <3>1, <3>2 DEF ReadIs, Finishes, Signals, Explicits
  <2>2. CASE ~ Mine(s, c, living)
    <3>1. s \in alive \ living /\ (k \in listed[s] \/ k \in Explicits(mk))
      BY <1>1, <2>2 DEF Finishes, Signals
    <3>2. ls = listed BY <3>1 DEF Reads
    <3>3. listed[s] \subseteq DOMAIN mk BY <3>2 DEF Reads, Placed, Traced
    <3> QED BY <3>1, <3>3 DEF Explicits
  <2> QED BY <2>1, <2>2
<1>2. /\ \A k : k \in finished' <=>
           k \in finished \/ \E s \in Surfaces : Finishes(s, k, c, q, holds, mk, living)
      /\ \A k : k \in Over' <=>
           k \in Over \/ \E s \in Surfaces : Signals(s, k, c, q, holds, mk, living)
  BY ReadFinishes
<1>3. finished \subseteq DOMAIN mk /\ Over \subseteq DOMAIN mk OBVIOUS
<1>4. DOMAIN queue' = Surfaces BY DEF Reads, Clear
<1> QED BY ONLY <1>1, <1>2, <1>3, <1>4

\* A read after which each part holds again, given that it holds of what is read.
Settles(c, q, holds, mk, living, ls) ==
  /\ Reads(c, q, holds, mk, living, ls)
  /\ made' = mk /\ alive' = living
  /\ \A s \in Surfaces : listed'[s] = IF s \in alive \ living THEN {} ELSE ls[s]
  /\ Watched(q, mk, living, sources', blocked', fenced', client')
  /\ blocked' \subseteq holds /\ (client'[c] = "up" => holds = blocked')
  /\ \A s \in living : wrapper[s] # NoCommit => wrapper[s] \notin fenced'
  /\ \A s \in living : ~ Mine(s, c, living) /\ client'[DrawerOf[s]] = "up" /\ q[s] # <<>>
                         => Head(q[s]) \in sources'[DrawerOf[s]]
Settled ==
  /\ Placed(made, queue, listed)
  /\ Watched(queue, made, alive, sources, blocked, fenced, client)
  /\ Fenced(queue, wrapper, alive, sources, fenced, client)

LEMMA ReadSettles ==
  ASSUME NEW c, NEW q, NEW holds, NEW mk, NEW living, NEW ls,
         Settles(c, q, holds, mk, living, ls)
  PROVE  Settled'
<1>1. Reads(c, q, holds, mk, living, ls) BY DEF Settles
<1>2. After(mk, living, ls) BY <1>1, ReadPlaces
<1>3. /\ Watched(queue', mk, living, sources', blocked', fenced', client')
      /\ Fenced(queue', wrapper', living, sources', fenced', client')
  <2>1. /\ Watched(q, mk, living, sources', blocked', fenced', client')
        /\ blocked' \subseteq holds /\ (client'[c] = "up" => holds = blocked')
        /\ \A s \in living : wrapper[s] # NoCommit => wrapper[s] \notin fenced'
        /\ \A s \in living : ~ Mine(s, c, living) /\ client'[DrawerOf[s]] = "up" /\ q[s] # <<>>
                               => Head(q[s]) \in sources'[DrawerOf[s]]
    BY DEF Settles
  <2> QED BY ONLY <1>1, <2>1, ReadWatches
<1>4. made' = mk /\ alive' = living BY DEF Settles
<1>5. \A s \in Surfaces : listed'[s] = IF s \in alive \ living THEN {} ELSE ls[s]
  BY DEF Settles
<1>6. Placed(made, queue, listed)'
  <2>1. ASSUME NEW s \in Surfaces
        PROVE  /\ Traced(s, made', queue'[s], wrapper'[s], finished', listed'[s], Over')
               /\ s \notin alive' => queue'[s] = <<>> /\ wrapper'[s] = NoCommit
    BY ONLY <1>2, <1>4, <1>5, s \in Surfaces DEF After
  <2> QED BY ONLY <2>1 DEF Placed
<1>7. /\ Watched(queue, made, alive, sources, blocked, fenced, client)'
      /\ Fenced(queue, wrapper, alive, sources, fenced, client)'
  BY ONLY <1>3, <1>4
<1> QED BY ONLY <1>6, <1>7 DEF Settled

\* Reading the queues adopts no point that was turned down, and a surface that
\* goes signals those it listed.
LEMMA ReadStays ==
  ASSUME BcInv, NEW c, NEW q, NEW holds, NEW mk, NEW living, NEW ls,
         Settles(c, q, holds, mk, living, ls),
         \A x \in DOMAIN made : x \in DOMAIN mk /\ mk[x] = made[x],
         \A t \in Surfaces : listed[t] \ finished \subseteq ls[t],
         client' = client
  PROVE  TurnedDown'
<1>1. Reads(c, q, holds, mk, living, ls) /\ made' = mk /\ alive' = living BY DEF Settles
<1>2. rejected' = rejected /\ unlisted' = unlisted BY <1>1 DEF Reads, turnedDown
<1>3. TurnedDown BY DEF BcInv
<1>4. \A k \in rejected \cup unlisted :
        /\ k \in DOMAIN made /\ mk[k] = made[k] /\ k \in Explicits(mk)
        /\ made[k].on \in Surfaces /\ k \in Over
  BY <1>3 DEF TurnedDown, Explicits, BcInv, BcTypes, Over
<1>5. ASSUME NEW k \in rejected, k \notin signalled'
      PROVE  mk[k].on \in living /\ k \in listed'[mk[k].on] /\ k \notin finished'
  <2> DEFINE s == made[k].on
  <2>1. /\ k \in DOMAIN mk /\ mk[k].on = s /\ k \in Explicits(mk) /\ s \in Surfaces /\ k \in Over
    BY <1>1, <1>4
  <2> HIDE DEF s
  <2>2. \A t \in Surfaces : ~ Signals(t, k, c, q, holds, mk, living) /\ k \notin signalled
    BY <1>1, <1>5, ReadFinishes
  <2>3. s \in alive /\ k \in listed[s] /\ k \notin finished
    <3>1. k \in rejected \ signalled BY <1>5, <2>1, <2>2
    <3> QED BY ONLY <1>3, <3>1 DEF TurnedDown, s
  <2>4. s \in living BY <2>1, <2>2, <2>3 DEF Signals
  <2>5. k \in listed'[s]
    <3>1. listed'[s] = ls[s] BY <2>1, <2>4 DEF Settles
    <3> QED BY <2>1, <2>3, <3>1
  <2>6. ASSUME k \in finished' PROVE FALSE
    <3>1. PICK t \in Surfaces : Finishes(t, k, c, q, holds, mk, living)
      BY <1>1, <2>3, <2>6, ReadFinishes
    <3>2. t = s BY <1>1, <2>1, <3>1, OwnRead
    <3>3. Mine(s, c, living) /\ k \in Applied(s, q[s], holds, mk).adopted
      BY <2>4, <3>1, <3>2 DEF Finishes
    <3>4. ReadIs(s, DOMAIN mk, q[s], holds, mk) BY <1>1, <2>1, <3>3, ReadMine
    <3>5. k \in Range(q[s]) BY <3>3, <3>4 DEF ReadIs, Through
    <3>6. Traced(s, mk, q[s], wrapper[s], finished, ls[s], Over) BY <1>1, <2>1 DEF Reads, Placed
    <3> QED BY ONLY <2>1, <3>5, <3>6 DEF Traced
  <2> QED BY <2>1, <2>4, <2>5, <2>6
<1> QED BY <1>1, <1>2, <1>3, <1>4, <1>5 DEF TurnedDown

LEMMA QueueStays ==
  ASSUME BcInv, NEW s \in Surfaces
  PROVE  /\ queue[s] \in Seq(DOMAIN made) /\ Range(queue[s]) \subseteq DOMAIN made
         /\ \A k \in Range(queue[s]) : made[k].on = s
<1>1. queue[s] \in Seq(DOMAIN made) /\ \A k \in Range(queue[s]) : k \in DOMAIN made /\ made[k].on = s
  BY DEF BcInv, Placed, Traced
<1> QED BY <1>1

LEMMA WatcherKeeps ==
  ASSUME BcInv, NEW c \in Drawers, NEW k \in Commits, WatcherFires(c, k)
  PROVE  BcInv'
<1>1. /\ k \in sources[c] /\ k \notin fenced
      /\ sources' = [sources EXCEPT ![c] = @ \ {k}] /\ sourceCount' = sourceCount - 1
      /\ blocked' = blocked \ {k}
      /\ Clear(c, queue, blocked', made, alive)
      /\ made' = made /\ fenced' = fenced /\ listed' = listed /\ alive' = alive /\ client' = client
      /\ UNCHANGED turnedDown
  BY DEF WatcherFires
<1>2. Apiece(sources) BY SourcesApart
<1>3. IsFiniteSet(DOMAIN made) /\ NoCommit \notin DOMAIN made BY MadeFinite
<1>4. BcTypes /\ sources \in [Drawers -> SUBSET DOMAIN made] BY DEF BcInv, BcTypes
<1>5. Reads(c, queue, blocked', made, alive, listed)
  BY <1>1, <1>3 DEF Reads, BcInv, BcTypes
<1>6. Counted(sources, sourceCount)'
  <2>1. {k} \in SUBSET sources[c] /\ Cardinality({k}) = 1 BY <1>1, FS_Singleton
  <2>2. Counted(sources, sourceCount) BY DEF BcInv
  <2>3. Counted([sources EXCEPT ![c] = @ \ {k}], sourceCount - Cardinality({k}))
    BY ONLY <1>2, <1>3, <1>4, <2>1, <2>2, c \in Drawers, WatchersLess, BufferCommitsAssumption
  <2> QED BY <1>1, <2>1, <2>3
<1>7. \A d \in Drawers : sources'[d] = sources[d] \ {k}
  BY <1>1, <1>2, <1>4 DEF Apiece
<1>8. Watched(queue, made, alive, sources', blocked', fenced', client')
  <2>0. Watched(queue, made, alive, sources, blocked, fenced, client) BY DEF BcInv
  <2>1. ASSUME NEW d \in Drawers, NEW x \in Commits, x \in sources'[d]
        PROVE  /\ made[x].on \in alive /\ DrawerOf[made[x].on] = d
               /\ x \in Range(queue[made[x].on]) /\ x \in blocked'
    BY <1>1, <1>7, <2>0, <2>1 DEF Watched
  <2>2. ASSUME NEW s \in alive
        PROVE  /\ Range(queue[s]) \cap fenced' \subseteq blocked'
               /\ client'[DrawerOf[s]] = "up" => Range(queue[s]) \cap blocked' \subseteq sources'[DrawerOf[s]]
    <3>1. DrawerOf[s] \in Drawers BY BufferCommitsAssumption, <1>4 DEF BcTypes
    <3> QED BY <1>1, <1>7, <2>0, <3>1 DEF Watched
  <2> QED BY ONLY <2>1, <2>2 DEF Watched
<1>9. \A s \in alive : /\ wrapper[s] # NoCommit => wrapper[s] \notin fenced'
                       /\ ~ Mine(s, c, alive) /\ client'[DrawerOf[s]] = "up" /\ queue[s] # <<>>
                            => Head(queue[s]) \in sources'[DrawerOf[s]]
  <2> TAKE s \in alive
  <2>1. Fenced(queue, wrapper, alive, sources, fenced, client) BY DEF BcInv
  <2>2. ~ Mine(s, c, alive) => DrawerOf[s] # c BY DEF Mine
  <2>3. ~ Mine(s, c, alive) => sources'[DrawerOf[s]] = sources[DrawerOf[s]]
    BY <1>1, <1>4, <2>2
  <2> QED BY <1>1, <2>1, <2>3 DEF Fenced
<1>10. Settles(c, queue, blocked', made, alive, listed)
  BY <1>1, <1>5, <1>8, <1>9 DEF Settles
<1>11. Settled' BY <1>10, ReadSettles
<1>12. finished' \subseteq DOMAIN made /\ Over' \subseteq DOMAIN made /\ DOMAIN queue' = Surfaces
  <2>1. finished \subseteq DOMAIN made /\ Over \subseteq DOMAIN made BY <1>4 DEF BcTypes
  <2> QED BY ONLY <1>5, <2>1, ReadWithin
<1>13. sources' \in [Drawers -> SUBSET DOMAIN made] BY <1>1, <1>4
<1>14. BcTypes' BY <1>1, <1>4, <1>12, <1>13 DEF BcTypes
<1>15. TurnedDown'
  <2>1. \A t \in Surfaces : listed[t] \ finished \subseteq listed[t] OBVIOUS
  <2> QED BY <1>1, <1>10, <2>1, ReadStays
<1> QED BY <1>6, <1>11, <1>14, <1>15 DEF BcInv, Settled

LEMMA DestroyKeeps ==
  ASSUME BcInv, NEW s \in Surfaces, DestroySurface(s)
  PROVE  BcInv'
<1> DEFINE c == DrawerOf[s]
           mine == {k \in sources[c] : made[k].on = s}
           living == alive \ {s}
           holds == IF client[c] = "up" THEN blocked' ELSE Commits
<1>1. /\ s \in alive /\ alive' = living
      /\ sources' = [sources EXCEPT ![c] = @ \ mine]
      /\ sourceCount' = sourceCount - Cardinality(mine)
      /\ blocked' = blocked \ mine /\ listed' = [listed EXCEPT ![s] = {}]
      /\ Clear(c, queue, holds, made, living)
      /\ made' = made /\ fenced' = fenced /\ client' = client /\ UNCHANGED turnedDown
  BY DEF DestroySurface
<1>2. Apiece(sources) BY SourcesApart
<1>3. IsFiniteSet(DOMAIN made) /\ NoCommit \notin DOMAIN made BY MadeFinite
<1>4. BcTypes /\ sources \in [Drawers -> SUBSET DOMAIN made] /\ alive \subseteq Surfaces
  BY DEF BcInv, BcTypes
<1>5. c \in Drawers BY BufferCommitsAssumption
<1>6. Reads(c, queue, holds, made, living, listed)
  <2>1. living \subseteq alive /\ alive \subseteq Surfaces /\ Placed(made, queue, listed)
    BY <1>4 DEF BcInv
  <2>2. Clear(c, queue, holds, made, living) /\ UNCHANGED turnedDown BY <1>1
  <2> HIDE DEF living, holds, c
  <2> QED BY <1>3, <2>1, <2>2 DEF Reads
<1>7. \A d \in Drawers : sources'[d] = IF d = c THEN sources[d] \ mine ELSE sources[d]
  BY <1>1, <1>4
<1>8. Counted(sources, sourceCount)'
  <2>1. mine \in SUBSET sources[c] OBVIOUS
  <2>2. Counted(sources, sourceCount) BY DEF BcInv
  <2> HIDE DEF mine, c
  <2>3. Counted([sources EXCEPT ![c] = @ \ mine], sourceCount - Cardinality(mine))
    BY ONLY <1>2, <1>3, <1>4, <1>5, <2>1, <2>2, WatchersLess, BufferCommitsAssumption
  <2> QED BY <1>1, <2>3
<1>9. Watched(queue, made, living, sources', blocked', fenced', client')
  <2>0. Watched(queue, made, alive, sources, blocked, fenced, client) BY DEF BcInv
  <2>1. ASSUME NEW d \in Drawers, NEW x \in Commits, x \in sources'[d]
        PROVE  /\ made[x].on \in living /\ DrawerOf[made[x].on] = d
               /\ x \in Range(queue[made[x].on]) /\ x \in blocked'
    <3>1. x \in sources[d] /\ (d = c => x \notin mine) BY <1>7, <2>1
    <3>2. /\ made[x].on \in alive /\ DrawerOf[made[x].on] = d
          /\ x \in Range(queue[made[x].on]) /\ x \in blocked
      BY <2>0, <3>1 DEF Watched
    <3>3. made[x].on # s BY <3>1, <3>2
    <3> QED BY <1>1, <3>2, <3>3
  <2>2. ASSUME NEW t \in living
        PROVE  /\ Range(queue[t]) \cap fenced' \subseteq blocked'
               /\ client'[DrawerOf[t]] = "up" => Range(queue[t]) \cap blocked' \subseteq sources'[DrawerOf[t]]
    <3>1. t \in Surfaces /\ t # s /\ t \in alive BY <1>4
    <3>2. DrawerOf[t] \in Drawers BY BufferCommitsAssumption, <3>1
    <3>3. \A k \in Range(queue[t]) : made[k].on = t BY <3>1, QueueStays
    <3>4. Range(queue[t]) \cap mine = {} BY <3>1, <3>3
    <3>5. /\ Range(queue[t]) \cap fenced \subseteq blocked
          /\ client[DrawerOf[t]] = "up" => Range(queue[t]) \cap blocked \subseteq sources[DrawerOf[t]]
      BY <2>0, <3>1 DEF Watched
    <3>6. sources[DrawerOf[t]] \ mine \subseteq sources'[DrawerOf[t]] BY <1>7, <3>2
    <3> HIDE DEF mine
    <3> QED BY <1>1, <3>4, <3>5, <3>6
  <2> QED BY ONLY <2>1, <2>2 DEF Watched
<1>10. \A t \in living :
         /\ wrapper[t] # NoCommit => wrapper[t] \notin fenced'
         /\ ~ Mine(t, c, living) /\ client'[DrawerOf[t]] = "up" /\ queue[t] # <<>>
              => Head(queue[t]) \in sources'[DrawerOf[t]]
  <2> TAKE t \in living
  <2>1. Fenced(queue, wrapper, alive, sources, fenced, client) /\ t \in alive BY DEF BcInv
  <2>2. ~ Mine(t, c, living) => DrawerOf[t] # c BY DEF Mine
  <2>3. ~ Mine(t, c, living) => sources'[DrawerOf[t]] = sources[DrawerOf[t]]
    BY <1>4, <1>7, <2>2, BufferCommitsAssumption
  <2> QED BY <1>1, <2>1, <2>3 DEF Fenced
<1>11. blocked' \subseteq holds /\ (client'[c] = "up" => holds = blocked')
  BY <1>1, <1>4 DEF BcTypes
<1>12. \A t \in Surfaces : listed'[t] = IF t \in alive \ living THEN {} ELSE listed[t]
  <2>1. listed \in [Surfaces -> SUBSET DOMAIN made] BY <1>4 DEF BcTypes
  <2>2. \A t \in Surfaces : t \in alive \ living <=> t = s BY <1>1
  <2> QED BY <1>1, <2>1, <2>2
<1> HIDE DEF living, holds, c
<1>13. Settles(c, queue, holds, made, living, listed)
  BY ONLY <1>1, <1>6, <1>9, <1>10, <1>11, <1>12 DEF Settles
<1>14. Settled' BY <1>13, ReadSettles
<1>15. finished' \subseteq DOMAIN made /\ Over' \subseteq DOMAIN made /\ DOMAIN queue' = Surfaces
  <2>1. finished \subseteq DOMAIN made /\ Over \subseteq DOMAIN made BY <1>4 DEF BcTypes
  <2> QED BY ONLY <1>6, <2>1, ReadWithin
<1>16. /\ sources' \in [Drawers -> SUBSET DOMAIN made]
       /\ listed' \in [Surfaces -> SUBSET DOMAIN made]
  BY <1>1, <1>4, <1>5 DEF BcTypes
<1>17. BcTypes' BY <1>1, <1>4, <1>15, <1>16 DEF BcTypes, living
<1>18. TurnedDown'
  <2>1. \A t \in Surfaces : listed[t] \ finished \subseteq listed[t] OBVIOUS
  <2> QED BY <1>1, <1>13, <2>1, ReadStays
<1> QED BY <1>8, <1>14, <1>17, <1>18 DEF BcInv, Settled

LEMMA FenceKeeps ==
  ASSUME BcInv, NEW k \in Commits, FenceSignals(k)
  PROVE  BcInv'
<1>1. /\ fenced' = fenced \ {k}
      /\ made' = made /\ sources' = sources /\ sourceCount' = sourceCount /\ blocked' = blocked
      /\ queue' = queue /\ wrapper' = wrapper /\ finished' = finished /\ listed' = listed
      /\ signalled' = signalled /\ rejected' = rejected /\ unlisted' = unlisted
      /\ alive' = alive /\ client' = client /\ Over' = Over
  BY DEF FenceSignals, turnedDown, Over
<1>2. BcTypes' BY <1>1 DEF BcInv, BcTypes
<1>3. Placed(made, queue, listed)' BY <1>1 DEF BcInv, Placed
<1>4. Watched(queue, made, alive, sources, blocked, fenced, client)' BY <1>1 DEF BcInv, Watched
<1>5. Fenced(queue, wrapper, alive, sources, fenced, client)' BY <1>1 DEF BcInv, Fenced
<1>6. Counted(sources, sourceCount)' BY <1>1 DEF BcInv
<1>7. TurnedDown' BY <1>1 DEF BcInv, TurnedDown
<1> QED BY <1>2, <1>3, <1>4, <1>5, <1>6, <1>7 DEF BcInv

LEMMA GoneKeeps ==
  ASSUME BcInv, NEW c \in Drawers, ClientGone(c)
  PROVE  BcInv'
<1>1. /\ client' = [client EXCEPT ![c] = "gone"]
      /\ sources' = [sources EXCEPT ![c] = {}]
      /\ sourceCount' = sourceCount - Cardinality(sources[c])
      /\ made' = made /\ fenced' = fenced /\ blocked' = blocked /\ queue' = queue
      /\ wrapper' = wrapper /\ finished' = finished /\ listed' = listed
      /\ signalled' = signalled /\ rejected' = rejected /\ unlisted' = unlisted
      /\ alive' = alive /\ Over' = Over
  BY DEF ClientGone, turnedDown, Over
<1>2. BcTypes /\ sources \in [Drawers -> SUBSET DOMAIN made] BY DEF BcInv, BcTypes
<1>3. \A d \in Drawers : /\ sources'[d] = IF d = c THEN {} ELSE sources[d]
                         /\ client'[d] = IF d = c THEN "gone" ELSE client[d]
  BY <1>1, <1>2 DEF BcTypes
<1>4. Counted(sources, sourceCount)'
  <2>1. Apiece(sources) /\ IsFiniteSet(DOMAIN made) BY SourcesApart, MadeFinite
  <2>2. Counted(sources, sourceCount) /\ sources[c] \in SUBSET sources[c] BY DEF BcInv
  <2>3. Counted([sources EXCEPT ![c] = @ \ sources[c]], sourceCount - Cardinality(sources[c]))
    BY ONLY <1>2, <2>1, <2>2, c \in Drawers, WatchersLess, BufferCommitsAssumption
  <2>4. [sources EXCEPT ![c] = @ \ sources[c]] = [sources EXCEPT ![c] = {}] OBVIOUS
  <2> QED BY <1>1, <2>3, <2>4
<1>5. Watched(queue, made, alive, sources, blocked, fenced, client)'
  <2>0. Watched(queue, made, alive, sources, blocked, fenced, client) BY DEF BcInv
  <2>1. \A s \in alive : DrawerOf[s] \in Drawers BY BufferCommitsAssumption, <1>2 DEF BcTypes
  <2>2. Watched(queue, made, alive, sources', blocked, fenced, client')
    BY <1>3, <2>0, <2>1 DEF Watched
  <2> QED BY ONLY <1>1, <2>2
<1>6. Fenced(queue, wrapper, alive, sources, fenced, client)'
  <2>0. Fenced(queue, wrapper, alive, sources, fenced, client) BY DEF BcInv
  <2>1. \A s \in alive : DrawerOf[s] \in Drawers BY BufferCommitsAssumption, <1>2 DEF BcTypes
  <2>2. Fenced(queue, wrapper, alive, sources', fenced, client')
    BY <1>3, <2>0, <2>1 DEF Fenced
  <2> QED BY ONLY <1>1, <2>2
<1>7. Placed(made, queue, listed)' BY <1>1 DEF BcInv, Placed
<1>8. BcTypes' BY <1>1, <1>2 DEF BcTypes
<1>9. TurnedDown'
  <2>1. \A k \in rejected \cup unlisted : DrawerOf[made[k].on] \in Drawers
    BY <1>2, BufferCommitsAssumption DEF BcInv, TurnedDown, Explicits, BcTypes
  <2> QED BY <1>1, <1>3, <2>1 DEF BcInv, TurnedDown
<1> QED BY <1>4, <1>5, <1>6, <1>7, <1>8, <1>9 DEF BcInv

\* A new commit, before any queue is read: nothing else changes for a surface,
\* and the commit itself waits, or cost its client the connection.
Grown(mk, k) ==
  /\ k \notin DOMAIN made /\ k # NoCommit /\ DOMAIN mk = DOMAIN made \cup {k}
  /\ \A x \in DOMAIN made : mk[x] = made[x]

LEMMA TracedGrow ==
  ASSUME NEW s, NEW mk, NEW k, NEW q, NEW w, NEW ls, NEW fin2, NEW ls2, NEW sig2,
         Grown(mk, k), Traced(s, made, q, w, finished, ls, Over),
         \A x \in DOMAIN made : (x \in fin2 <=> x \in finished) /\ (x \in sig2 <=> x \in Over),
         ls \ finished \subseteq ls2, ls2 \subseteq ls \cup {k},
         k \in ls2 => mk[k].on = s,
         k \in Explicits(mk) /\ mk[k].on = s => k \in sig2
  PROVE  Traced(s, mk, q, w, fin2, ls2, sig2)
<1>1. Explicits(mk) \subseteq Explicits(made) \cup {k} /\ Explicits(made) = Explicits(mk) \cap DOMAIN made
  BY DEF Grown, Explicits
<1>2. /\ q \in Seq(DOMAIN made) /\ IsInjective(q) /\ w \notin Range(q)
      /\ w \in DOMAIN made \cup {NoCommit}
      /\ \A x \in Range(q) \cup ls : x \in DOMAIN made /\ made[x].on = s
      /\ w # NoCommit => made[w].on = s
      /\ Range(q) \cap Explicits(made) \subseteq ls \ finished
      /\ \A x \in Explicits(made) : made[x].on = s => (x \in Over <=> ~(x \in Range(q) \/ x = w))
  BY DEF Traced
<1>3. q \in Seq(DOMAIN mk)
  <2>1. DOMAIN made \subseteq DOMAIN mk BY DEF Grown
  <2> QED BY <1>2, <2>1
<1>4. \A x \in Range(q) \cup ls2 : x \in DOMAIN mk /\ mk[x].on = s BY <1>2 DEF Grown
<1>5. w \in DOMAIN mk \cup {NoCommit} /\ (w # NoCommit => mk[w].on = s)
  BY <1>2 DEF Grown
<1>6. Range(q) \cap Explicits(mk) \subseteq ls2 \ fin2 BY <1>1, <1>2
<1>7. ASSUME NEW x \in Explicits(mk), mk[x].on = s
      PROVE  x \in sig2 <=> ~(x \in Range(q) \/ x = w)
  <2>1. CASE x = k
    <3>1. k \notin Range(q) /\ k # w BY <1>2 DEF Grown
    <3> QED BY <1>7, <2>1, <3>1
  <2>2. CASE x # k
    <3>1. x \in Explicits(made) /\ x \in DOMAIN made BY <1>1, <1>7, <2>2
    <3>2. made[x].on = s BY <1>7, <3>1 DEF Grown
    <3> QED BY <1>2, <3>1, <3>2
  <2> QED BY <2>1, <2>2
<1> QED BY ONLY <1>2, <1>3, <1>4, <1>5, <1>6, <1>7 DEF Traced

LEMMA AppendedOnce ==
  ASSUME NEW D, NEW q \in Seq(D), IsInjective(q), NEW k \in D, k \notin Range(q)
  PROVE  /\ Append(q, k) \in Seq(D) /\ IsInjective(Append(q, k))
         /\ Range(Append(q, k)) = Range(q) \cup {k}
         /\ Append(q, k) # <<>>
         /\ q # <<>> => Head(Append(q, k)) = Head(q)
<1> DEFINE r == Append(q, k)
<1>1. /\ r \in Seq(D) /\ Len(r) = Len(q) + 1 /\ Len(q) \in Nat
      /\ DOMAIN q = 1..Len(q) /\ DOMAIN r = 1..(Len(q) + 1)
      /\ \A i \in 1..Len(q) : r[i] = q[i]
      /\ r[Len(q) + 1] = k
  OBVIOUS
<1>2. r # <<>> /\ (q # <<>> => Head(r) = Head(q))
  <2>1. Len(r) # 0 BY <1>1
  <2>2. q # <<>> => 1 \in 1..Len(q) BY <1>1
  <2>3. Head(r) = r[1] /\ (q # <<>> => Head(q) = q[1]) BY <2>1
  <2> QED BY <1>1, <2>1, <2>2, <2>3
<1> HIDE DEF r
<1>3. 1..(Len(q) + 1) = (1..Len(q)) \cup {Len(q) + 1} /\ Len(q) + 1 \notin 1..Len(q) BY <1>1
<1>4. \A i \in DOMAIN q : q[i] # k BY DEF Range
<1>5. \A i, j \in DOMAIN r : r[i] = r[j] => i = j BY <1>1, <1>3, <1>4 DEF IsInjective
<1>6. Range(r) = Range(q) \cup {k} BY <1>1, <1>3 DEF Range
<1>7. IsInjective(r) BY <1>5 DEF IsInjective
<1> QED BY <1>1, <1>2, <1>6, <1>7 DEF r

\* The commit that is let in waits at the end of its surface's queue.
LEMMA TracedAppend ==
  ASSUME NEW s, NEW mk, NEW k, NEW q, NEW w, NEW ls, NEW ls2,
         Grown(mk, k), Traced(s, made, q, w, finished, ls, Over),
         finished \subseteq DOMAIN made, Over \subseteq DOMAIN made,
         ls \ finished \subseteq ls2, ls2 \subseteq ls \cup {k},
         mk[k].on = s, k \in Explicits(mk) => k \in ls2
  PROVE  Traced(s, mk, Append(q, k), w, finished, ls2, Over)
<1>1. Explicits(mk) \subseteq Explicits(made) \cup {k} /\ Explicits(made) = Explicits(mk) \cap DOMAIN made
  BY DEF Grown, Explicits
<1>2. /\ q \in Seq(DOMAIN made) /\ IsInjective(q) /\ w \notin Range(q)
      /\ w \in DOMAIN made \cup {NoCommit}
      /\ \A x \in Range(q) \cup ls : x \in DOMAIN made /\ made[x].on = s
      /\ w # NoCommit => made[w].on = s
      /\ Range(q) \cap Explicits(made) \subseteq ls \ finished
      /\ \A x \in Explicits(made) : made[x].on = s => (x \in Over <=> ~(x \in Range(q) \/ x = w))
  BY DEF Traced
<1>3. k \notin DOMAIN made /\ k # NoCommit /\ k \in DOMAIN mk /\ k \notin Range(q) /\ k # w
  BY <1>2 DEF Grown
<1>4. q \in Seq(DOMAIN mk)
  <2>1. DOMAIN made \subseteq DOMAIN mk BY DEF Grown
  <2> QED BY <1>2, <2>1
<1>5. /\ Append(q, k) \in Seq(DOMAIN mk) /\ IsInjective(Append(q, k))
      /\ Range(Append(q, k)) = Range(q) \cup {k}
  BY <1>2, <1>3, <1>4, AppendedOnce
<1>6. \A x \in Range(Append(q, k)) \cup ls2 : x \in DOMAIN mk /\ mk[x].on = s
  BY <1>2, <1>3, <1>5 DEF Grown
<1>7. w \notin Range(Append(q, k)) /\ w \in DOMAIN mk \cup {NoCommit} /\ (w # NoCommit => mk[w].on = s)
  BY <1>2, <1>3, <1>5 DEF Grown
<1>8. Range(Append(q, k)) \cap Explicits(mk) \subseteq ls2 \ finished
  BY <1>1, <1>2, <1>3, <1>5
<1>9. ASSUME NEW x \in Explicits(mk), mk[x].on = s
      PROVE  x \in Over <=> ~(x \in Range(Append(q, k)) \/ x = w)
  <2>1. CASE x = k BY <1>3, <1>5, <2>1
  <2>2. CASE x # k
    <3>1. x \in Explicits(made) /\ x \in DOMAIN made BY <1>1, <1>9, <2>2
    <3>2. made[x].on = s BY <1>9, <3>1 DEF Grown
    <3> QED BY <1>2, <1>5, <2>2, <3>1, <3>2
  <2> QED BY <2>1, <2>2
<1> QED BY ONLY <1>5, <1>6, <1>7, <1>8, <1>9 DEF Traced

\* A commit that is rejected: its client is killed, and its point is turned down.
Refused(k, s, mk, X) ==
  /\ Grown(mk, k) /\ mk[k].on = s /\ s \in Surfaces /\ made' = mk
  /\ (\E n \in Nat : DOMAIN mk = 1..n) /\ DOMAIN mk \subseteq Commits
  /\ UNCHANGED <<fenced, sources, sourceCount, blocked, queue, wrapper, alive, finished, signalled>>
  /\ client' = [client EXCEPT ![DrawerOf[s]] = "killed"]
  /\ s \in alive /\ X = {k} \cap Explicits(mk)
  /\ \/ rejected' = rejected /\ unlisted' = unlisted \cup X
     \/ unlisted' = unlisted /\ rejected' = rejected \cup X /\ X \subseteq listed'[s]
NowListed(k, s, mk) ==
  /\ listed' \in [Surfaces -> SUBSET DOMAIN mk]
  /\ \A t \in Surfaces : /\ listed[t] \ finished \subseteq listed'[t]
                         /\ listed'[t] \subseteq listed[t] \cup {k}
                         /\ k \in listed'[t] => t = s

LEMMA RefusedKeeps ==
  ASSUME BcInv, NEW k, NEW s, NEW mk, NEW X, Refused(k, s, mk, X), NowListed(k, s, mk)
  PROVE  BcInv'
<1>1. /\ Grown(mk, k) /\ mk[k].on = s /\ s \in Surfaces /\ made' = mk
      /\ s \in alive /\ X = {k} \cap Explicits(mk)
      /\ Over' = Over \cup X /\ finished' = finished /\ signalled' = signalled
      /\ fenced' = fenced /\ sources' = sources /\ sourceCount' = sourceCount /\ blocked' = blocked
      /\ queue' = queue /\ wrapper' = wrapper /\ alive' = alive
      /\ client' = [client EXCEPT ![DrawerOf[s]] = "killed"]
  BY DEF Refused, Over
<1>2. /\ k \notin DOMAIN made /\ k # NoCommit /\ DOMAIN mk = DOMAIN made \cup {k}
      /\ \A x \in DOMAIN made : mk[x] = made[x]
  BY <1>1 DEF Grown
<1>3. BcTypes BY DEF BcInv
<1>4. \A d \in Drawers : client'[d] = "up" => client[d] = "up" BY <1>1, <1>3 DEF BcTypes
<1>5. BcTypes'
  <2>1. /\ \E n \in Nat : DOMAIN mk = 1..n
        /\ DOMAIN mk \subseteq Commits
    BY DEF Refused
  <2>2. \A x \in DOMAIN mk : mk[x].on \in Surfaces BY <1>1, <1>2, <1>3 DEF BcTypes
  <2>3. sources \in [Drawers -> SUBSET DOMAIN mk] BY <1>2, <1>3 DEF BcTypes
  <2>4. listed' \in [Surfaces -> SUBSET DOMAIN mk] BY DEF NowListed
  <2>5. client' \in [Drawers -> {"up", "killed", "gone"}] BY <1>1, <1>3 DEF BcTypes
  <2>6. /\ blocked \subseteq DOMAIN mk /\ fenced \subseteq DOMAIN mk
        /\ finished' \subseteq DOMAIN mk /\ Over' \subseteq DOMAIN mk
        /\ alive \subseteq Surfaces /\ DOMAIN queue = Surfaces
    BY <1>1, <1>2, <1>3 DEF BcTypes
  <2> QED BY ONLY <1>1, <2>1, <2>2, <2>3, <2>4, <2>5, <2>6 DEF BcTypes
<1>6. Placed(made, queue, listed)'
  <2>1. ASSUME NEW t \in Surfaces
        PROVE  /\ Traced(t, mk, queue[t], wrapper[t], finished', listed'[t], Over')
               /\ t \notin alive => queue[t] = <<>> /\ wrapper[t] = NoCommit
    <3>1. /\ Traced(t, made, queue[t], wrapper[t], finished, listed[t], Over)
          /\ t \notin alive => queue[t] = <<>> /\ wrapper[t] = NoCommit
      BY DEF BcInv, Placed
    <3>2. \A x \in DOMAIN made : (x \in finished' <=> x \in finished) /\ (x \in Over' <=> x \in Over)
      BY <1>1, <1>2
    <3>3. /\ listed[t] \ finished \subseteq listed'[t] /\ listed'[t] \subseteq listed[t] \cup {k}
          /\ k \in listed'[t] => mk[k].on = t
      BY <1>1 DEF NowListed
    <3>4. k \in Explicits(mk) /\ mk[k].on = t => k \in Over' BY <1>1
    <3> QED BY ONLY <1>1, <3>1, <3>2, <3>3, <3>4, TracedGrow
  <2> QED BY ONLY <1>1, <2>1 DEF Placed
<1>7. Watched(queue, made, alive, sources, blocked, fenced, client)'
  <2>0. Watched(queue, made, alive, sources, blocked, fenced, client) BY DEF BcInv
  <2>1. \A d \in Drawers : \A x \in sources[d] : x \in DOMAIN made /\ mk[x] = made[x]
    BY <1>2, <1>3 DEF BcTypes
  <2>2. \A t \in alive : DrawerOf[t] \in Drawers BY <1>3, BufferCommitsAssumption DEF BcTypes
  <2>3. Watched(queue, mk, alive, sources, blocked, fenced, client')
    BY ONLY <1>4, <2>0, <2>1, <2>2 DEF Watched
  <2> QED BY ONLY <1>1, <2>3
<1>8. Fenced(queue, wrapper, alive, sources, fenced, client)'
  <2>0. Fenced(queue, wrapper, alive, sources, fenced, client) BY DEF BcInv
  <2>1. \A t \in alive : DrawerOf[t] \in Drawers BY <1>3, BufferCommitsAssumption DEF BcTypes
  <2>2. Fenced(queue, wrapper, alive, sources, fenced, client') BY ONLY <1>4, <2>0, <2>1 DEF Fenced
  <2> QED BY ONLY <1>1, <2>2
<1>9. Counted(sources, sourceCount)' BY <1>1 DEF BcInv
<1>10. TurnedDown'
  <2>1. TurnedDown /\ DrawerOf[s] \in Drawers BY <1>1, BufferCommitsAssumption DEF BcInv
  <2>2. \/ rejected' = rejected /\ unlisted' = unlisted \cup X
        \/ unlisted' = unlisted /\ rejected' = rejected \cup X /\ X \subseteq listed'[s]
    BY DEF Refused
  <2>3. k \notin finished BY <1>2, <1>3 DEF BcTypes
  <2>4. Explicits(made) \subseteq Explicits(mk) /\ Explicits(made) \subseteq DOMAIN made
    BY <1>2 DEF Explicits
  <2>5. rejected' \cup unlisted' \subseteq Explicits(mk) BY <1>1, <2>1, <2>2, <2>4 DEF TurnedDown
  <2>6. ASSUME NEW x \in rejected' \cup unlisted' PROVE client'[DrawerOf[mk[x].on]] # "up"
    <3>1. CASE x = k BY <1>1, <1>3, <2>1, <3>1 DEF BcTypes
    <3>2. CASE x # k
      <4>1. x \in rejected \cup unlisted BY <1>1, <2>2, <2>6, <3>2
      <4>2. mk[x] = made[x] /\ DrawerOf[made[x].on] \in Drawers
        BY <1>2, <1>3, <2>1, <2>4, <4>1, BufferCommitsAssumption DEF TurnedDown, BcTypes
      <4> QED BY <1>4, <2>1, <4>1, <4>2 DEF TurnedDown
    <3> QED BY <3>1, <3>2
  <2>7. ASSUME NEW x \in rejected', x \notin signalled
        PROVE  mk[x].on \in alive /\ x \in listed'[mk[x].on] /\ x \notin finished
    <3>1. CASE x = k
      <4>1. k \notin rejected BY <1>2, <2>1, <2>4 DEF TurnedDown
      <4>2. k \in X /\ X \subseteq listed'[s] BY <1>1, <2>2, <2>7, <3>1, <4>1
      <4> QED BY <1>1, <2>3, <3>1, <4>2
    <3>2. CASE x # k
      <4>1. x \in rejected BY <1>1, <2>2, <2>7, <3>2
      <4>2. mk[x] = made[x] BY <1>2, <2>1, <2>4, <4>1 DEF TurnedDown
      <4>3. made[x].on \in alive /\ x \in listed[made[x].on] /\ x \notin finished
        BY <2>1, <2>7, <4>1 DEF TurnedDown
      <4>4. made[x].on \in Surfaces BY <1>3, <4>3 DEF BcTypes
      <4> QED BY <4>2, <4>3, <4>4 DEF NowListed
    <3> QED BY <3>1, <3>2
  <2> QED BY ONLY <1>1, <2>5, <2>6, <2>7 DEF TurnedDown
<1> QED BY <1>5, <1>6, <1>7, <1>8, <1>9, <1>10 DEF BcInv

\* A commit that is let in: it waits at the end of its queue, with a watcher
\* when it must, and the client's queues are read.
LetIn(k, s, mk, watch) ==
  LET c == DrawerOf[s]
  IN /\ Grown(mk, k) /\ mk[k].on = s /\ s \in alive /\ made' = mk
     /\ (\E n \in Nat : DOMAIN mk = 1..n) /\ DOMAIN mk \subseteq Commits
     /\ UNCHANGED <<alive, client, turnedDown>>
     /\ watch => Cardinality(sources[c]) < PerClient /\ sourceCount < Total
     /\ fenced' \subseteq fenced \cup {k} /\ (k \in fenced' => watch)
     /\ sources' = IF watch THEN [sources EXCEPT ![c] = @ \cup {k}] ELSE sources
     /\ sourceCount' = sourceCount + (IF watch THEN 1 ELSE 0)
     /\ blocked' = IF watch THEN blocked \cup {k} ELSE blocked
     /\ k \in Explicits(mk) => k \in listed'[s]
     /\ Clear(c, [queue EXCEPT ![s] = Append(@, k)], blocked', mk, alive)

LEMMA LetInKeeps ==
  ASSUME BcInv, NEW k, NEW s, NEW mk, NEW watch \in BOOLEAN, LetIn(k, s, mk, watch), NowListed(k, s, mk)
  PROVE  BcInv'
<1> DEFINE c == DrawerOf[s]
           q == [queue EXCEPT ![s] = Append(@, k)]
<1>1. /\ Grown(mk, k) /\ mk[k].on = s /\ s \in alive /\ made' = mk
      /\ (\E n \in Nat : DOMAIN mk = 1..n) /\ DOMAIN mk \subseteq Commits
      /\ alive' = alive /\ client' = client /\ UNCHANGED turnedDown
      /\ watch => Cardinality(sources[c]) < PerClient /\ sourceCount < Total
      /\ fenced' \subseteq fenced \cup {k} /\ (k \in fenced' => watch)
      /\ sources' = IF watch THEN [sources EXCEPT ![c] = @ \cup {k}] ELSE sources
      /\ sourceCount' = sourceCount + (IF watch THEN 1 ELSE 0)
      /\ blocked' = IF watch THEN blocked \cup {k} ELSE blocked
      /\ k \in Explicits(mk) => k \in listed'[s]
      /\ Clear(c, q, blocked', mk, alive)
  BY DEF LetIn
<1>2. /\ k \notin DOMAIN made /\ k # NoCommit /\ DOMAIN mk = DOMAIN made \cup {k}
      /\ \A x \in DOMAIN made : mk[x] = made[x]
  BY <1>1 DEF Grown
<1>3. /\ BcTypes /\ sources \in [Drawers -> SUBSET DOMAIN made] /\ alive \subseteq Surfaces
      /\ s \in Surfaces /\ DOMAIN queue = Surfaces
      /\ finished \subseteq DOMAIN made /\ Over \subseteq DOMAIN made
      /\ blocked \subseteq DOMAIN made /\ fenced \subseteq DOMAIN made
  BY <1>1 DEF BcInv, BcTypes
<1>4. c \in Drawers BY <1>3, BufferCommitsAssumption
<1>5. IsFiniteSet(DOMAIN made) /\ NoCommit \notin DOMAIN mk BY <1>2, MadeFinite
<1>6. q[s] = Append(queue[s], k) /\ \A t \in Surfaces : t # s => q[t] = queue[t] BY <1>3
<1>7. /\ \A d \in Drawers : sources'[d] = IF watch /\ d = c THEN sources[d] \cup {k} ELSE sources[d]
      /\ sources' \in [Drawers -> SUBSET DOMAIN mk]
  <2>1. CASE watch BY <1>1, <1>2, <1>3, <1>4, <2>1
  <2>2. CASE ~watch BY <1>1, <1>2, <1>3, <1>4, <2>2
  <2> QED BY <2>1, <2>2
<1>8. Counted(sources, sourceCount)'
  <2>1. Counted(sources, sourceCount) BY DEF BcInv
  <2>2. CASE watch
    <3>1. sourceCount < Total /\ Cardinality(sources[c]) < PerClient BY <1>1, <2>2
    <3> HIDE DEF c
    <3>2. Counted([sources EXCEPT ![c] = @ \cup {k}], sourceCount + 1)
      BY ONLY <1>2, <1>3, <1>4, <1>5, <2>1, <3>1, WatchersMore, BufferCommitsAssumption
    <3> QED BY <1>1, <2>2, <3>2
  <2>3. CASE ~watch
    <3>1. sourceCount \in Nat BY <2>1 DEF Counted
    <3>2. sources' = sources /\ sourceCount' = sourceCount BY <1>1, <2>3, <3>1
    <3> QED BY <2>1, <3>2
  <2> QED BY <2>2, <2>3
<1>9. Placed(mk, q, listed')
  <2>1. ASSUME NEW t \in Surfaces
        PROVE  /\ Traced(t, mk, q[t], wrapper[t], finished, listed'[t], Over)
               /\ t \notin alive => q[t] = <<>> /\ wrapper[t] = NoCommit
    <3>1. /\ Traced(t, made, queue[t], wrapper[t], finished, listed[t], Over)
          /\ t \notin alive => queue[t] = <<>> /\ wrapper[t] = NoCommit
      BY DEF BcInv, Placed
    <3>2. /\ listed[t] \ finished \subseteq listed'[t] /\ listed'[t] \subseteq listed[t] \cup {k}
          /\ k \in listed'[t] => mk[k].on = t
      BY <1>1 DEF NowListed
    <3>3. CASE t = s
      <4>1. Traced(t, mk, Append(queue[t], k), wrapper[t], finished, listed'[t], Over)
        BY ONLY <1>1, <1>3, <3>1, <3>2, <3>3, TracedAppend
      <4> QED BY <1>1, <1>6, <3>3, <4>1
    <3>4. CASE t # s
      <4>1. k \in Explicits(mk) /\ mk[k].on = t => k \in Over BY <1>1, <3>4
      <4>2. \A x \in DOMAIN made : (x \in finished <=> x \in finished) /\ (x \in Over <=> x \in Over)
        OBVIOUS
      <4>3. Traced(t, mk, queue[t], wrapper[t], finished, listed'[t], Over)
        BY ONLY <1>1, <3>1, <3>2, <4>1, <4>2, TracedGrow
      <4> QED BY <1>6, <3>1, <3>4, <4>3
    <3> QED BY <3>3, <3>4
  <2> HIDE DEF q
  <2> QED BY ONLY <2>1 DEF Placed
<1>10. \A t \in alive : /\ DrawerOf[t] \in Drawers
                        /\ Range(queue[t]) \subseteq DOMAIN made
                        /\ Range(q[t]) = IF t = s THEN Range(queue[t]) \cup {k} ELSE Range(queue[t])
  <2> TAKE t \in alive
  <2>1. t \in Surfaces /\ DrawerOf[t] \in Drawers BY <1>3, BufferCommitsAssumption
  <2>2. Range(queue[t]) \subseteq DOMAIN made BY <2>1, QueueStays
  <2>3. queue[t] \in Seq(DOMAIN mk) /\ IsInjective(queue[t]) /\ k \in DOMAIN mk /\ k \notin Range(queue[t])
    <3>1. queue[t] \in Seq(DOMAIN made) /\ IsInjective(queue[t])
      BY <2>1 DEF BcInv, Placed, Traced
    <3>2. DOMAIN made \subseteq DOMAIN mk BY <1>2
    <3>3. queue[t] \in Seq(DOMAIN mk) BY ONLY <3>1, <3>2
    <3> QED BY <1>2, <2>2, <3>1, <3>3
  <2>4. Range(Append(queue[t], k)) = Range(queue[t]) \cup {k} BY ONLY <2>3, AppendedOnce
  <2> HIDE DEF q
  <2> QED BY <1>6, <2>1, <2>2, <2>4
<1> HIDE DEF q
<1>11. Watched(q, mk, alive, sources', blocked', fenced', client')
  <2>0. Watched(queue, made, alive, sources, blocked, fenced, client) BY DEF BcInv
  <2>1. ASSUME NEW d \in Drawers, NEW x \in Commits, x \in sources'[d]
        PROVE  /\ mk[x].on \in alive /\ DrawerOf[mk[x].on] = d
               /\ x \in Range(q[mk[x].on]) /\ x \in blocked'
    <3>1. CASE x = k
      <4>1. watch /\ d = c BY <1>2, <1>3, <1>7, <2>1, <3>1
      <4> QED BY <1>1, <1>10, <3>1, <4>1
    <3>2. CASE x # k
      <4>1. x \in sources[d] /\ mk[x] = made[x] BY <1>2, <1>3, <1>7, <2>1, <3>2
      <4>2. /\ mk[x].on \in alive /\ DrawerOf[mk[x].on] = d
            /\ x \in Range(queue[mk[x].on]) /\ x \in blocked
        BY <2>0, <4>1 DEF Watched
      <4>3. blocked \subseteq blocked' BY <1>1
      <4> QED BY <1>10, <4>2, <4>3
    <3> QED BY <3>1, <3>2
  <2>2. ASSUME NEW t \in alive
        PROVE  /\ Range(q[t]) \cap fenced' \subseteq blocked'
               /\ client'[DrawerOf[t]] = "up" => Range(q[t]) \cap blocked' \subseteq sources'[DrawerOf[t]]
    <3>1. /\ Range(queue[t]) \cap fenced \subseteq blocked
          /\ client[DrawerOf[t]] = "up" => Range(queue[t]) \cap blocked \subseteq sources[DrawerOf[t]]
      BY <2>0 DEF Watched
    <3>2. blocked \subseteq blocked' /\ (k \in fenced' => k \in blocked')
          /\ blocked' \subseteq blocked \cup {k} /\ (k \in blocked' => watch)
      BY <1>1, <1>2, <1>3
    <3>3. /\ sources[DrawerOf[t]] \subseteq sources'[DrawerOf[t]]
          /\ watch /\ t = s => k \in sources'[DrawerOf[t]]
      BY <1>4, <1>7, <1>10
    <3>4. k \notin Range(queue[t]) BY <1>2, <1>10
    <3>5. Range(q[t]) = IF t = s THEN Range(queue[t]) \cup {k} ELSE Range(queue[t]) BY <1>10
    <3>6. fenced' \subseteq fenced \cup {k} /\ client' = client BY <1>1
    <3> QED BY ONLY <3>1, <3>2, <3>3, <3>4, <3>5, <3>6
  <2> QED BY ONLY <2>1, <2>2 DEF Watched
<1>12. \A t \in alive : /\ wrapper[t] # NoCommit => wrapper[t] \notin fenced'
                        /\ ~ Mine(t, c, alive) /\ client'[DrawerOf[t]] = "up" /\ q[t] # <<>>
                             => Head(q[t]) \in sources'[DrawerOf[t]]
  <2> TAKE t \in alive
  <2>1. Fenced(queue, wrapper, alive, sources, fenced, client) BY DEF BcInv
  <2>2. wrapper[t] # k
    <3>1. t \in Surfaces BY <1>3
    <3> QED BY <1>2, <3>1 DEF BcInv, Placed, Traced
  <2>3. ~ Mine(t, c, alive) => DrawerOf[t] # c /\ t # s BY DEF Mine
  <2>4. ~ Mine(t, c, alive) => q[t] = queue[t] /\ sources'[DrawerOf[t]] = sources[DrawerOf[t]]
    BY <1>3, <1>6, <1>7, <1>10, <2>3
  <2>5. fenced' \subseteq fenced \cup {k} /\ client' = client BY <1>1
  <2> QED BY ONLY <2>1, <2>2, <2>4, <2>5 DEF Fenced
<1>13. Reads(c, q, blocked', mk, alive, listed')
  BY <1>1, <1>3, <1>5, <1>9 DEF Reads
<1> HIDE DEF c
<1>14. Settles(c, q, blocked', mk, alive, listed')
  BY ONLY <1>1, <1>11, <1>12, <1>13 DEF Settles
<1>15. Settled' BY <1>14, ReadSettles
<1>16. finished' \subseteq DOMAIN mk /\ Over' \subseteq DOMAIN mk /\ DOMAIN queue' = Surfaces
  <2>1. finished \subseteq DOMAIN mk /\ Over \subseteq DOMAIN mk BY <1>2, <1>3
  <2> QED BY ONLY <1>13, <2>1, ReadWithin
<1>17. BcTypes'
  <2>1. \A x \in DOMAIN mk : mk[x].on \in Surfaces BY <1>1, <1>2, <1>3 DEF BcTypes
  <2>2. listed' \in [Surfaces -> SUBSET DOMAIN mk] BY DEF NowListed
  <2>3. client' \in [Drawers -> {"up", "killed", "gone"}] BY <1>1, <1>3 DEF BcTypes
  <2>4. blocked' \subseteq DOMAIN mk /\ fenced' \subseteq DOMAIN mk BY <1>1, <1>2, <1>3
  <2> QED BY ONLY <1>1, <1>3, <1>7, <1>16, <2>1, <2>2, <2>3, <2>4 DEF BcTypes
<1>18. TurnedDown'
  <2>1. \A x \in DOMAIN made : x \in DOMAIN mk /\ mk[x] = made[x] BY <1>2
  <2>2. \A t \in Surfaces : listed[t] \ finished \subseteq listed'[t] BY DEF NowListed
  <2> QED BY ONLY BcInv, <1>1, <1>14, <2>1, <2>2, ReadStays
<1> QED BY <1>8, <1>15, <1>17, <1>18 DEF BcInv, Settled

LEMMA CommitKeeps ==
  ASSUME BcInv, NEW k \in Commits, NEW s \in Surfaces, NEW buf, NEW explicit \in BOOLEAN,
         NEW busy \in BOOLEAN, NEW works \in BOOLEAN, Commit(k, s, buf, explicit, busy, works)
  PROVE  BcInv'
<1> DEFINE c == DrawerOf[s]
           open == listed[s] \ finished
           watch == explicit \/ busy
           admitted == Cardinality(sources[c]) < PerClient /\ sourceCount < Total
           mk == [x \in DOMAIN made \cup {k} |->
                    IF x = k THEN [on |-> s, buf |-> buf, explicit |-> explicit] ELSE made[x]]
           full == explicit /\ Cardinality(open) >= PerClient
           X == IF explicit THEN {k} ELSE {}
<1>1. k = Cardinality(DOMAIN made) + 1 /\ s \in alive /\ made' = mk /\ alive' = alive
  BY DEF Commit
<1>2. Grown(mk, k) /\ mk[k].on = s /\ (k \in Explicits(mk) <=> explicit)
  <2>1. k \notin DOMAIN made BY <1>1, MadeFinite
  <2>2. k # NoCommit BY BufferCommitsAssumption
  <2> QED BY <2>1, <2>2 DEF Grown, Explicits
<1>3. (\E n \in Nat : DOMAIN mk = 1..n) /\ DOMAIN mk \subseteq Commits
  <2>1. DOMAIN mk = 1..(Cardinality(DOMAIN made) + 1) /\ Cardinality(DOMAIN made) \in Nat
    BY <1>1, MadeFinite
  <2>2. DOMAIN made \subseteq Commits BY DEF BcInv, BcTypes
  <2>3. DOMAIN mk = DOMAIN made \cup {k} OBVIOUS
  <2> HIDE DEF mk
  <2>4. Cardinality(DOMAIN made) + 1 \in Nat BY <2>1
  <2>5. \E n \in Nat : DOMAIN mk = 1..n BY ONLY <2>1, <2>4
  <2>6. DOMAIN mk \subseteq Commits BY ONLY <2>2, <2>3, k \in Commits
  <2> QED BY <2>5, <2>6
<1>4. listed \in [Surfaces -> SUBSET DOMAIN made] /\ k \notin DOMAIN made
  BY <1>2 DEF BcInv, BcTypes, Grown
<1>5. DOMAIN mk = DOMAIN made \cup {k} OBVIOUS
<1>6. CASE full
  <2>1. /\ client' = [client EXCEPT ![c] = "killed"]
        /\ unlisted' = unlisted \cup {k} /\ rejected' = rejected
        /\ listed' = [listed EXCEPT ![s] = open]
        /\ UNCHANGED <<fenced, sources, sourceCount, blocked, queue, wrapper, finished, signalled>>
    BY <1>6 DEF Commit, Reject
  <2>0. {k} = {k} \cap Explicits(mk) BY <1>2, <1>6
  <2> HIDE DEF mk
  <2>2. Refused(k, s, mk, {k}) BY <1>1, <1>2, <1>3, <2>0, <2>1 DEF Refused
  <2>3. NowListed(k, s, mk) BY <1>4, <1>5, <2>1 DEF NowListed
  <2> QED BY <2>2, <2>3, RefusedKeeps
<1>7. ASSUME ~full PROVE NowListed(k, s, mk)
  <2>1. listed' = IF explicit THEN [listed EXCEPT ![s] = open \cup {k}] ELSE listed
    BY <1>7 DEF Commit
  <2> HIDE DEF mk
  <2> QED BY <1>4, <1>5, <2>1 DEF NowListed
<1>8. CASE ~full /\ watch /\ ~(admitted /\ works)
  <2>1. /\ client' = [client EXCEPT ![c] = "killed"]
        /\ rejected' = rejected \cup X /\ unlisted' = unlisted
        /\ UNCHANGED <<fenced, sources, sourceCount, blocked, queue, wrapper, finished, signalled>>
    BY <1>8 DEF Commit, Reject
  <2>0. X \subseteq listed'[s]
    <3>1. explicit => listed' = [listed EXCEPT ![s] = open \cup {k}] BY <1>8 DEF Commit
    <3> QED BY <1>4, <3>1
  <2>2. X = {k} \cap Explicits(mk) BY <1>2
  <2> HIDE DEF mk, X
  <2>3. Refused(k, s, mk, X) BY <1>1, <1>2, <1>3, <2>0, <2>1, <2>2 DEF Refused
  <2>4. NowListed(k, s, mk) BY <1>7, <1>8
  <2> QED BY ONLY BcInv, <2>3, <2>4, RefusedKeeps, BufferCommitsAssumption
<1>9. CASE ~full /\ ~(watch /\ ~(admitted /\ works))
  <2>1. /\ client' = client /\ UNCHANGED turnedDown
        /\ fenced' = IF busy THEN fenced \cup {k} ELSE fenced
        /\ sources' = IF watch THEN [sources EXCEPT ![c] = @ \cup {k}] ELSE sources
        /\ sourceCount' = sourceCount + (IF watch THEN 1 ELSE 0)
        /\ blocked' = IF watch THEN blocked \cup {k} ELSE blocked
        /\ Clear(c, [queue EXCEPT ![s] = Append(@, k)], blocked', mk, alive)
    BY <1>9 DEF Commit
  <2>2. NowListed(k, s, mk) BY <1>7, <1>9
  <2>3. k \in Explicits(mk) => k \in listed'[s]
    <3>1. explicit => listed' = [listed EXCEPT ![s] = open \cup {k}] BY <1>9 DEF Commit
    <3> QED BY <1>2, <1>4, <3>1
  <2>4. k \notin fenced BY <1>4 DEF BcInv, BcTypes
  <2> HIDE DEF mk
  <2>5. LetIn(k, s, mk, watch) BY <1>1, <1>2, <1>3, <1>9, <2>1, <2>3, <2>4 DEF LetIn
  <2>6. watch \in BOOLEAN OBVIOUS
  <2> HIDE DEF watch
  <2> QED BY ONLY BcInv, <2>2, <2>5, <2>6, LetInKeeps, BufferCommitsAssumption
<1> QED BY <1>6, <1>8, <1>9

LEMMA CommitsStart == BcInit => BcInv
<1> SUFFICES ASSUME BcInit PROVE BcInv OBVIOUS
<1>1. /\ made = [k \in {} |-> 0] /\ fenced = {} /\ sources = [c \in Drawers |-> {}] /\ sourceCount = 0
      /\ blocked = {} /\ queue = [s \in Surfaces |-> <<>>] /\ wrapper = [s \in Surfaces |-> NoCommit]
      /\ finished = {} /\ listed = [s \in Surfaces |-> {}] /\ signalled = {}
      /\ rejected = {} /\ unlisted = {} /\ Over = {}
      /\ alive = Surfaces /\ client = [c \in Drawers |-> "up"]
  BY DEF BcInit, Over
<1>2. DOMAIN made = {} /\ DOMAIN made = 1..0 BY <1>1
<1>3. BcTypes
  <2>1. \E n \in Nat : DOMAIN made = 1..n BY <1>2
  <2> QED BY <1>1, <1>2, <2>1 DEF BcTypes
<1>4. Placed(made, queue, listed)
  <2>1. <<>> \in Seq(DOMAIN made) /\ IsInjective(<<>>) /\ Range(<<>>) = {}
    BY DEF IsInjective, Range
  <2>2. Explicits(made) = {} BY <1>2 DEF Explicits
  <2>3. \A s \in Surfaces : queue[s] = <<>> /\ wrapper[s] = NoCommit /\ listed[s] = {} BY <1>1
  <2> QED BY ONLY <2>1, <2>2, <2>3 DEF Placed, Traced
<1>5. Watched(queue, made, alive, sources, blocked, fenced, client)
  BY <1>1 DEF Watched
<1>6. Fenced(queue, wrapper, alive, sources, fenced, client)
  BY <1>1 DEF Fenced
<1>7. Counted(sources, sourceCount)
  <2>1. UNION {sources[c] : c \in Drawers} = {} BY <1>1
  <2>2. Cardinality({}) = 0 BY FS_EmptySet
  <2>3. \A c \in Drawers : Cardinality(sources[c]) <= PerClient
    BY <1>1, <2>2, BufferCommitsAssumption
  <2>4. sourceCount = 0 /\ 0 <= Total BY <1>1, BufferCommitsAssumption
  <2>5. sourceCount = Cardinality(UNION {sources[c] : c \in Drawers}) BY ONLY <2>1, <2>2, <2>4
  <2> QED BY ONLY <2>3, <2>4, <2>5 DEF Counted
<1>8. TurnedDown BY <1>1 DEF TurnedDown
<1> QED BY <1>3, <1>4, <1>5, <1>6, <1>7, <1>8 DEF BcInv

LEMMA CommitsStep == BcInv /\ [BcNext]_bcVars => BcInv'
<1> SUFFICES ASSUME BcInv, [BcNext]_bcVars PROVE BcInv' OBVIOUS
<1>1. ASSUME NEW k \in Commits, NEW s \in Surfaces, NEW b \in Buffers,
             NEW e \in BOOLEAN, NEW busy \in BOOLEAN, NEW works \in BOOLEAN,
             Commit(k, s, b, e, busy, works)
      PROVE  BcInv'
  BY <1>1, CommitKeeps
<1>2. ASSUME NEW k \in Commits, FenceSignals(k) PROVE BcInv' BY <1>2, FenceKeeps
<1>3. ASSUME NEW c \in Drawers, NEW k \in Commits, WatcherFires(c, k) PROVE BcInv'
  BY <1>3, WatcherKeeps
<1>4. ASSUME NEW s \in Surfaces, DestroySurface(s) PROVE BcInv' BY <1>4, DestroyKeeps
<1>5. ASSUME NEW c \in Drawers, ClientGone(c) PROVE BcInv' BY <1>5, GoneKeeps
<1>6. CASE UNCHANGED bcVars
  <2>1. /\ made' = made /\ fenced' = fenced /\ sources' = sources /\ sourceCount' = sourceCount
        /\ blocked' = blocked /\ queue' = queue /\ wrapper' = wrapper /\ finished' = finished
        /\ listed' = listed /\ signalled' = signalled /\ rejected' = rejected /\ unlisted' = unlisted
        /\ alive' = alive /\ client' = client /\ Over' = Over
    BY <1>6 DEF bcVars, Over
  <2>2. BcTypes' BY <2>1 DEF BcInv, BcTypes
  <2>3. Placed(made, queue, listed)' BY <2>1 DEF BcInv, Placed
  <2>4. Watched(queue, made, alive, sources, blocked, fenced, client)' BY <2>1 DEF BcInv
  <2>5. Fenced(queue, wrapper, alive, sources, fenced, client)' BY <2>1 DEF BcInv
  <2>6. Counted(sources, sourceCount)' BY <2>1 DEF BcInv
  <2>7. TurnedDown' BY <2>1 DEF BcInv, TurnedDown
  <2> QED BY <2>2, <2>3, <2>4, <2>5, <2>6, <2>7 DEF BcInv
<1> QED BY <1>1, <1>2, <1>3, <1>4, <1>5, <1>6 DEF BcNext

LEMMA CommitsAgree == BcInv => CommitsAccounted
<1> SUFFICES ASSUME BcInv PROVE CommitsAccounted OBVIOUS
<1>1. BcTypes BY DEF BcInv
<1>2. WatchersCounted
  <2>1. \A c \in Drawers : \A k \in sources[c] : k \in Commits BY <1>1 DEF BcTypes
  <2>2. \A c \in Drawers : \A k \in sources[c] : made[k].on \in alive /\ k \in Range(queue[made[k].on])
    BY <2>1 DEF BcInv, Watched
  <2>3. Counted(sources, sourceCount) BY DEF BcInv
  <2> QED BY ONLY <2>2, <2>3 DEF WatchersCounted, Counted
<1>3. PointsAccounted
  <2> SUFFICES ASSUME NEW k \in DOMAIN made, made[k].explicit
               PROVE  LET s == made[k].on
                          waits == k \in Range(queue[s])
                          kept == k \in Held(s)
                          down == k \in rejected \cup unlisted
                      IN /\ waits \/ kept \/ down \/ k \in signalled
                         /\ ~(waits /\ kept) /\ ~((waits \/ kept) /\ (down \/ k \in signalled))
                         /\ down => client[DrawerOf[s]] # "up"
                         /\ k \in rejected => k \in signalled \/ (s \in alive /\ k \in listed[s] \ finished)
    BY DEF PointsAccounted
  <2> DEFINE s == made[k].on
  <2>1. s \in Surfaces /\ k # NoCommit BY <1>1, MadeFinite DEF BcTypes
  <2>2. k \in Explicits(made) BY DEF Explicits
  <2>3. Traced(s, made, queue[s], wrapper[s], finished, listed[s], Over)
    BY <2>1 DEF BcInv, Placed
  <2>4. /\ wrapper[s] \notin Range(queue[s])
        /\ k \in Over <=> ~(k \in Range(queue[s]) \/ k = wrapper[s])
    BY <2>2, <2>3 DEF Traced
  <2>5. k \in Held(s) <=> k = wrapper[s] BY <2>1 DEF Held
  <2>6. k \in Over <=> k \in rejected \cup unlisted \/ k \in signalled BY DEF Over
  <2>7. /\ k \in rejected \cup unlisted => client[DrawerOf[s]] # "up"
        /\ k \in rejected => k \in signalled \/ (s \in alive /\ k \in listed[s] \ finished)
    BY DEF BcInv, TurnedDown
  <2> HIDE DEF s
  <2> QED BY ONLY <2>4, <2>5, <2>6, <2>7 DEF s
<1>4. FencesHold
  <2>1. Fenced(queue, wrapper, alive, sources, fenced, client) BY DEF BcInv
  <2> QED BY ONLY <2>1 DEF FencesHold, Fenced, Held
<1> QED BY <1>2, <1>3, <1>4 DEF CommitsAccounted

\* Watchers, release points and fences hold together, for any number of
\* surfaces, clients, buffers and commits: every watcher has a commit to wake
\* and is counted once, every explicit commit waits, is kept, was signalled or
\* cost its client the connection (and unless it was over the limit is then
\* signalled with its surface), and nothing a GPU still writes is shown
\* (state/session.rs dmabuf_blockers, handlers/explicit_sync.rs PendingRelease).
THEOREM CommitsAreAccounted == BcSpec => []CommitsAccounted
<1>1. BcInit => BcInv BY CommitsStart
<1>2. BcInv /\ [BcNext]_bcVars => BcInv' BY CommitsStep
<1>3. BcInv => CommitsAccounted BY CommitsAgree
<1> QED BY <1>1, <1>2, <1>3, PTL DEF BcSpec
=============================================================================

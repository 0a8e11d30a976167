----------------------------- MODULE MCServices -----------------------------
(***************************************************************************)
(* Small instances of the services that share no state, for TLC.  A        *)
(* behaviour follows one of them; the others stay in their initial state.  *)
(* The gateway is followed twice, as its limiter and its trail meet only   *)
(* in the producer's row: time passes and the audit worker gives nothing   *)
(* up, or the clock stands still and the worker may fail.                  *)
(***************************************************************************)
EXTENDS Gateway, Live, Windows, TLC

CONSTANTS c1, c2, e1, e2, e3, e4

VARIABLE focus

serviceVars == <<focus, gateVars, liveVars, windowVars>>

AmountFew == e1 :> 2 @@ e2 :> 1 @@ e3 :> NoAmount @@ e4 :> -1
UserFew == e1 :> "u" @@ e2 :> "v" @@ e3 :> "u" @@ e4 :> NoUser

\* Beyond Exact a float has one bit less.
FloatFew(n) == IF n \in (-Exact)..Exact THEN n ELSE 2 * (n \div 2)

GroupsFew == <<"g1", "g2">>

Init ==
    /\ focus \in {"gate", "trail", "stream", "lag", "windows"}
    /\ GateInit /\ LiveInit /\ WindowInit
    /\ focus # "windows" => time = [e \in Samples |-> 0]

Next ==
    /\ UNCHANGED focus
    /\ \/ focus = "gate" /\ GateNext /\ UNCHANGED <<misfits, deadAudits, liveVars, windowVars>>
       \/ focus = "trail" /\ GateNext /\ UNCHANGED <<now, liveVars, windowVars>>
       \/ focus = "stream" /\ StreamNext /\ UNCHANGED <<gateVars, windowVars>>
       \/ focus = "lag" /\ LagNext /\ UNCHANGED <<gateVars, windowVars>>
       \/ focus = "windows" /\ WindowNext /\ UNCHANGED <<gateVars, liveVars>>

Spec == Init /\ [][Next]_serviceVars

CallerSymmetry == Permutations(Callers)
=============================================================================

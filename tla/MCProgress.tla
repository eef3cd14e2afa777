----------------------------- MODULE MCProgress -----------------------------
(***************************************************************************)
(* What must eventually happen, in small instances one of which each       *)
(* behaviour is of (focus).  Two of GenerationLifecycle: "settle", one     *)
(* worker whose prompts end by themselves, with stops and crashes; and     *)
(* "cancel", two workers whose prompts may run for ever, without a stop.   *)
(* And "reels", demo reels of two images with one disturbance.             *)
(***************************************************************************)
EXTENDS MCGenerationLifecycle

CONSTANTS i1, i2, k1, k2, noSignature

VARIABLES
    gens, entries, wanted, paused, age, wasBusy, resetAsked, requests, work, turn, calm, used,
    focus

K == INSTANCE GenerationLifecycle WITH
        Instances <- {i1, i2}, Deployments <- {{i1, i2}},
        Carries <- [g \in Gens |-> {i1, i2}], FaultKinds <- {"cancelfail", "vanish"}

MCOrder == <<k1, k2>>
MCSignatures == {"plain", "error"}
MCBroken == {"error"}
MCForeground == {"request"}
D == INSTANCE DemoReels WITH
        Order <- MCOrder, Signatures <- MCSignatures, Broken <- MCBroken, NoSignature <- noSignature,
        MaxRows <- 2, Attempts <- 2, Requests <- MCForeground, Idle <- 2, MaxEvents <- 1

reelVars == <<gens, entries, wanted, paused, age, wasBusy, resetAsked, requests, work, turn, calm, used>>
allVars  == <<vars, reelVars, focus>>

FocusInit ==
    /\ focus \in {"settle", "cancel", "reels"}
    /\ D!DemoReelsInit /\ IF focus = "cancel" THEN K!Init ELSE Init

Settles(A) == focus = "settle" /\ A /\ UNCHANGED <<reelVars, focus>>
Cancels(A) == focus = "cancel" /\ A /\ UNCHANGED <<reelVars, focus>>
Plays(A)   == focus = "reels" /\ A /\ UNCHANGED <<vars, focus>>

FocusNext == Settles(Next) \/ Cancels(K!Next) \/ Plays(D!DemoReelsNext)

(* ApplicationFairness for the first two, NativeFairness for the first,    *)
(* that of DemoReels for the third; conditions of different parts share a  *)
(* formula.                                                                *)
FocusSpec ==
    /\ FocusInit /\ [][FocusNext]_allVars
    /\ \A g \in Gens : WF_allVars(Settles(Resume(g)) \/ Cancels(K!Resume(g)))
    /\ \A p \in Prompts : /\ WF_allVars(Settles(NotifyCancel(p)) \/ Cancels(K!NotifyCancel(p)))
                          /\ WF_allVars(Settles(NativeFinish(p)))
    /\ WF_allVars(Settles(Dispatcher) \/ Cancels(K!Dispatcher) \/ Plays(D!Looping))
    /\ WF_allVars(Settles(Recovery) \/ Cancels(K!Recovery) \/ Plays(D!Leaving))
    /\ WF_allVars(Settles(StopRecovery \/ Halt \/ Restart) \/ Cancels(K!StopRecovery \/ K!Halt \/ K!Restart))
    /\ SF_allVars(Plays(D!Working)) /\ SF_allVars(Plays(D!Cleaning))

(* See the modules for what the properties say.                            *)
AllSettle           == focus = "settle" => SettlesEventually
DeletionsCarriedOut == focus = "settle" => DeletionUnlessStopped
CancelsReachNative  == focus = "cancel" => K!CancelReachesNative
ReelsComplete       == focus = "reels" => D!ReelCompletes
=============================================================================

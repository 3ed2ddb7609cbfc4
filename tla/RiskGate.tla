-------------------------------- MODULE RiskGate --------------------------------
(***************************************************************************)
(* Whether an entry is real money: RiskManager.evaluate decides once which *)
(* rules it is judged by, the gateway and the client decide later where it *)
(* is sent.  Between them the kill switch, the readiness latch             *)
(* (live_entries_blocked) and the graduation ladder's cells may turn.      *)
(* Both live gates (AURAMAUR_LIVE, execution.live) are open: what is left  *)
(* of settings.is_live is the kill switch.                                 *)
(***************************************************************************)
EXTENDS Integers

CONSTANTS
    Intent,   \* the entries
    Unfit,    \* those that a live-only check refuses (category, divergence, dispute)
    Turns     \* how often the conditions turn (bound of the model)

ASSUME RiskAssumption ==
    /\ Unfit \subseteq Intent
    /\ Turns \in Nat

VARIABLES
    intent,    \* how far each entry has come, and what was decided of it
    halt,      \* the KILL_SWITCH file is there
    latch,     \* live_entries_blocked
    demoted,   \* the entries whose cell is paper-forced, as the ladder has it cached
    lifted,    \* ghost: the entries that were under way when the file was removed
    turns      \* how often the conditions have turned

conditions == <<halt, latch, demoted, lifted, turns>>
gateVars == <<intent, conditions>>

-----------------------------------------------------------------------------
IntentPlaces == {"idle", "scoped", "approved", "built", "refused", "paper", "live"}

UnderWay(e) == intent[e].at \in {"scoped", "approved", "built"}

RiskInit ==
    /\ intent = [e \in Intent |-> [at |-> "idle", forced |-> FALSE, asPaper |-> FALSE, dry |-> FALSE]]
    /\ halt \in BOOLEAN /\ latch \in BOOLEAN
    /\ demoted \in SUBSET Intent
    /\ lifted = {} /\ turns = 0

Refuses(e) == intent' = [intent EXCEPT ![e].at = "refused"]

-----------------------------------------------------------------------------
(* RiskManager.evaluate.                                                   *)

\* paper_forced: every restriction that routes the entry to paper, the one its
\* strategy or its caller declares, or an extreme divergence, included.
PaperForced(e, declared) == latch \/ declared \/ e \in demoted

\* is_paper_entry scopes the checks that follow.
EntryScoped(e, declared) ==
    /\ intent[e].at = "idle"
    /\ intent' = [intent EXCEPT ![e] = [at |-> "scoped", forced |-> PaperForced(e, declared),
                                        asPaper |-> halt \/ PaperForced(e, declared), dry |-> FALSE]]
    /\ UNCHANGED conditions

\* check_kill_switch, and for what is judged as live the allowlist, the divergence
\* band and the dispute gate; any other check may refuse as well.
Clears(e) == ~halt /\ (intent[e].asPaper \/ e \notin Unfit)

EntryApproved(e) ==
    /\ intent[e].at = "scoped" /\ Clears(e)
    /\ intent' = [intent EXCEPT ![e].at = "approved"]
    /\ UNCHANGED conditions

EntryRefused(e) ==
    /\ intent[e].at = "scoped"
    /\ Refuses(e)
    /\ UNCHANGED conditions

-----------------------------------------------------------------------------
(* ExecutionGateway.submit and PolymarketClient.place_order.               *)

\* Mutant: the decision reports the ladder's view alone.
Restricted_Ladder(e) == e \in demoted

\* RiskDecision.force_paper: the value that scoped the checks.
Restricted(e) == intent[e].forced

EntryBuilt(e) ==
    /\ intent[e].at = "approved"
    /\ intent' = [intent EXCEPT ![e].at = "built", ![e].dry = halt \/ Restricted(e)]
    /\ UNCHANGED conditions

\* No order could be built, or the market is at its cap.
EntrySkipped(e) ==
    /\ intent[e].at = "built"
    /\ Refuses(e)
    /\ UNCHANGED conditions

\* The kill switch again, then the order's own gate.
EntryPlaced(e) ==
    /\ intent[e].at = "built"
    /\ IF halt THEN Refuses(e)
       ELSE intent' = [intent EXCEPT ![e].at = IF intent[e].dry THEN "paper" ELSE "live"]
    /\ UNCHANGED conditions

-----------------------------------------------------------------------------
(* What turns meanwhile.                                                   *)

Turn == turns < Turns /\ turns' = turns + 1

TouchesHalt ==
    /\ ~halt /\ Turn
    /\ halt' = TRUE
    /\ UNCHANGED <<intent, latch, demoted, lifted>>

LiftsHalt ==
    /\ halt /\ Turn
    /\ halt' = FALSE
    /\ lifted' = lifted \cup {e \in Intent : UnderWay(e)}
    /\ UNCHANGED <<intent, latch, demoted>>

\* _run_live_gate moves the latch in both directions.
LiveGateRuns ==
    /\ Turn
    /\ latch' = ~latch
    /\ UNCHANGED <<intent, halt, demoted, lifted>>

\* The cached cell expires and the record says otherwise, or a grant ends.
CellTurns(e) ==
    /\ Turn
    /\ demoted' = IF e \in demoted THEN demoted \ {e} ELSE demoted \cup {e}
    /\ UNCHANGED <<intent, halt, latch, lifted>>

-----------------------------------------------------------------------------
RiskNext ==
    \/ \E e \in Intent :
         \/ \E declared \in BOOLEAN : EntryScoped(e, declared)
         \/ EntryApproved(e) \/ EntryRefused(e)
         \/ EntryBuilt(e) \/ EntrySkipped(e) \/ EntryPlaced(e)
         \/ CellTurns(e)
    \/ TouchesHalt \/ LiftsHalt \/ LiveGateRuns

RiskSpec == RiskInit /\ [][RiskNext]_gateVars

-----------------------------------------------------------------------------
(* Properties.                                                             *)

RiskTypeOK ==
    /\ intent \in [Intent -> [at : IntentPlaces, forced : BOOLEAN, asPaper : BOOLEAN, dry : BOOLEAN]]
    /\ halt \in BOOLEAN /\ latch \in BOOLEAN
    /\ demoted \subseteq Intent /\ lifted \subseteq Intent
    /\ turns \in 0 .. Turns

\* No "guard into a permission": what a live-only check would refuse never goes out with
\* real money because something that was to keep it on paper turned between the gate
\* and the order, unless the operator removed the kill switch in the middle of it.
LiveIsScreened ==
    \A e \in Unfit \ lifted : intent[e].at # "live"
=============================================================================

------------------------- MODULE ReserveReconciler -------------------------
(***************************************************************************)
(* The mainnet reserve check of the statistics engine,                     *)
(* Stats.startCheckAssetAlarm and sendDing (crosschainstats.go, lines      *)
(* 550-828).  For every token basic with Property = 1 a pass reads, for    *)
(* each of its tokens, the lock-proxy balance and the total supply from    *)
(* the chain (with retries), applies the hard-coded supply overrides and   *)
(* zeroes the supply on the basic's home chain, sums supply - balance into *)
(* the basic's Difference, adds the O3 balance for WBTC, and alerts on     *)
(* every non-extra basic whose Difference is worth more than the           *)
(* threshold, unless its Reason is the text "all node is not working".     *)
(*                                                                         *)
(* Data is abstracted: a token is a <<basic, chain>> pair; the chain       *)
(* values are small naturals fixed for a behaviour (every valuation is an  *)
(* initial state); the USD value of a Difference d is d * Price[b] in      *)
(* whole dollars, so the rounding of StringFixed(0) (line 629) does not    *)
(* arise; an RPC failure is its error text, one of Reasons.                *)
(***************************************************************************)
EXTENDS Integers, FiniteSets, FiniteSetsExt

CONSTANTS
    Basics,       \* the token basics with Property = 1 (model values)
    Chains,       \* chain ids (model values)
    Entries,      \* the tokens: <<basic, chain>> pairs
    Home,         \* Home[b]: the chain id of the basic (basic.ChainId)
    Extra,        \* the names listed by inExtraBasic
    Misprecise,   \* the tokens notToken skips (USDT with Precision # 6)
    Unlisted,     \* the tokens whose Property is not 1
    Overridden,   \* the tokens specialBasic gives a fixed supply
    OverrideVal,  \* OverrideVal[e]: that fixed supply
    O3Basic,      \* the basic named "WBTC"
    O3Flow,       \* the WBTC balance the O3 endpoint reports
    Price,        \* Price[b]: USD per unit of Difference
    Threshold,    \* the alert threshold (10000 dollars)
    Values,       \* the balances and supplies the chains may hold
    Reasons,      \* the error texts a failed RPC read may carry
    AllNodesDown, \* the text "all node is not working"
    Faults        \* TRUE: reads, the O3 request and the post may fail

ASSUME ReserveAssumption ==
    /\ Entries \subseteq Basics \X Chains
    /\ Home \in [Basics -> Chains]
    /\ Extra \subseteq Basics /\ O3Basic \in Basics
    /\ Misprecise \cup Unlisted \cup Overridden \subseteq Entries
    /\ OverrideVal \in [Entries -> Nat]
    /\ O3Flow \in Nat /\ Price \in [Basics -> Nat] /\ Threshold \in Nat
    /\ Values \subseteq Nat /\ AllNodesDown \in Reasons /\ "none" \notin Reasons
    /\ Faults \in BOOLEAN

VARIABLES
    bal,      \* bal[e]: the lock-proxy balance of token e on its chain
    sup,      \* sup[e]: the total supply of token e on its chain
    pc,       \* "idle", "basic" (choosing a basic), "token", "crashed"
    btodo,    \* the basics of this pass not yet checked
    cur,      \* the basic being checked
    etodo,    \* its tokens not yet read
    diff,     \* totalFlow of the current basic
    reason,   \* assetDetail.Reason of the current basic ("none" if empty)
    res,      \* resAssetDetails: [basic, diff, reason] records
    alerts,   \* the basics the last sendDing flagged
    sent      \* the basics of the last alert actually posted

vars == <<bal, sup, pc, btodo, cur, etodo, diff, reason, res, alerts, sent>>

Outcomes == {"ok"} \cup Reasons

\* AssetDetail (lines 557-565), reduced to what sendDing reads.
Detail == [basic : Basics, diff : Int, reason : Reasons \cup {"none"}]

\* inExtraBasic (lines 655-663).
InExtraBasic(b) == b \in Extra

\* specialBasic (lines 664-721): a fixed supply for the listed tokens.
SpecialBasic(e, s) == IF e \in Overridden THEN OverrideVal[e] ELSE s

\* notToken (lines 722-727).
NotToken(e) == e \in Misprecise

\* getAndRetryBalance (lines 772-784): the value if some try succeeds, else
\* the last error; startCheckAssetAlarm then uses 0 (lines 594-598).
BalanceRead(e, out) == IF out = "ok" THEN bal[e] ELSE 0

\* getAndRetryTotalSupply (lines 786-798), with 0 on error (602-607).
SupplyRead(e, out) == IF out = "ok" THEN sup[e] ELSE 0

\* Lines 608-613: the override, then a zero supply on the home chain.
EffSupply(e, s) ==
    IF ~InExtraBasic(e[1]) /\ Home[e[1]] = e[2] THEN 0 ELSE SpecialBasic(e, s)

\* Lines 626-630 and 806-809: Difference > 0 and worth more than 10000.
Material(b, d) == d > 0 /\ d * Price[b] > Threshold

\* sendDing (lines 800-828): the basics it flags.
Flagged(R) == {r.basic : r \in {x \in R : x.reason # AllNodesDown /\ Material(x.basic, x.diff)}}

TypeOK ==
    /\ bal \in [Entries -> Values] /\ sup \in [Entries -> Values]
    /\ pc \in {"idle", "basic", "token", "crashed"}
    /\ btodo \subseteq Basics /\ cur \in Basics /\ etodo \subseteq Entries
    /\ diff \in Int /\ reason \in Reasons \cup {"none"}
    /\ res \subseteq Detail /\ alerts \subseteq Basics /\ sent \subseteq alerts

Init ==
    /\ bal \in [Entries -> Values]
    /\ sup \in [Entries -> Values]
    /\ pc = "idle"
    /\ btodo = {}
    /\ cur \in Basics
    /\ etodo = {}
    /\ diff = 0
    /\ reason = "none"
    /\ res = {}
    /\ alerts = {}
    /\ sent = {}

-----------------------------------------------------------------------------
(* startCheckAssetAlarm                                                    *)

\* Lines 567-578: GetPropertytokenBasic, then a loop over the basics.
StartCheck ==
    /\ pc = "idle"
    /\ pc' = "basic"
    /\ btodo' = Basics
    /\ res' = {}
    /\ UNCHANGED <<bal, sup, cur, etodo, diff, reason, alerts, sent>>

\* Lines 579-582: a new AssetDetail and totalFlow for basic b.
NextBasic(b) ==
    /\ pc = "basic"
    /\ b \in btodo
    /\ pc' = "token"
    /\ btodo' = btodo \ {b}
    /\ cur' = b
    /\ etodo' = {e \in Entries : e[1] = b}
    /\ diff' = 0
    /\ reason' = "none"
    /\ UNCHANGED <<bal, sup, res, alerts, sent>>

\* Lines 584-589: notToken and Property # 1 skip the token.
SkipToken(e) ==
    /\ pc = "token"
    /\ e \in etodo
    /\ (NotToken(e) \/ e \in Unlisted)
    /\ etodo' = etodo \ {e}
    /\ UNCHANGED <<bal, sup, pc, btodo, cur, diff, reason, res, alerts, sent>>

\* Mutant (checks ExplainedAlarm): a failed balance read leaves no Reason.
CheckTokenNoReason(e, bo, so) ==
    /\ pc = "token"
    /\ e \in etodo
    /\ ~NotToken(e) /\ e \notin Unlisted
    /\ Faults \/ (bo = "ok" /\ so = "ok")
    /\ diff' = diff + EffSupply(e, SupplyRead(e, so)) - BalanceRead(e, bo)
    /\ reason' = IF so # "ok" THEN so ELSE reason
    /\ etodo' = etodo \ {e}
    /\ UNCHANGED <<bal, sup, pc, btodo, cur, res, alerts, sent>>

(***************************************************************************)
(* Lines 590-616 for token e: read the balance (outcome bo) and the supply *)
(* (outcome so), each failure recording its text as the Reason and         *)
(* reading 0; override, home-chain zero, and add supply - balance.         *)
(***************************************************************************)
CheckToken(e, bo, so) ==
    /\ pc = "token"
    /\ e \in etodo
    /\ ~NotToken(e) /\ e \notin Unlisted
    /\ Faults \/ (bo = "ok" /\ so = "ok")
    /\ diff' = diff + EffSupply(e, SupplyRead(e, so)) - BalanceRead(e, bo)
    /\ reason' = IF so # "ok" THEN so ELSE IF bo # "ok" THEN bo ELSE reason
    /\ etodo' = etodo \ {e}
    /\ UNCHANGED <<bal, sup, pc, btodo, cur, res, alerts, sent>>

(***************************************************************************)
(* Lines 617-632: getO3Data, then the extra basics are set aside and the   *)
(* others appended to resAssetDetails.  For WBTC the O3 request succeeds   *)
(* (o3ok) and adds its balance to the Difference, or answers with a        *)
(* status other than 200 and adds nothing (lines 734-738).                 *)
(***************************************************************************)
EndBasic(o3ok) ==
    /\ pc = "token"
    /\ etodo = {}
    /\ Faults \/ o3ok
    /\ LET d == diff + IF cur = O3Basic /\ o3ok THEN O3Flow ELSE 0 IN
         res' = IF InExtraBasic(cur) THEN res
                ELSE res \cup {[basic |-> cur, diff |-> d, reason |-> reason]}
    /\ pc' = "basic"
    /\ UNCHANGED <<bal, sup, btodo, cur, etodo, diff, reason, alerts, sent>>

(***************************************************************************)
(* Lines 733-734: when http.Get fails, response is nil and the deferred    *)
(* response.Body.Close() dereferences it: the goroutine panics and the     *)
(* process ends.                                                           *)
(***************************************************************************)
O3Panic ==
    /\ Faults
    /\ pc = "token"
    /\ etodo = {}
    /\ cur = O3Basic
    /\ pc' = "crashed"
    /\ UNCHANGED <<bal, sup, btodo, cur, etodo, diff, reason, res, alerts, sent>>

\* Lines 634-637 and sendDing: flag, then post; a failed post is only logged.
Send(posted) ==
    /\ pc = "basic"
    /\ btodo = {}
    /\ Faults \/ posted
    /\ alerts' = Flagged(res)
    /\ sent' = IF posted THEN Flagged(res) ELSE {}
    /\ pc' = "idle"
    /\ UNCHANGED <<bal, sup, btodo, cur, etodo, diff, reason, res>>

Next ==
    \/ StartCheck
    \/ \E b \in Basics : NextBasic(b)
    \/ \E e \in Entries : SkipToken(e)
    \/ \E e \in Entries, bo, so \in Outcomes : CheckToken(e, bo, so)
    \/ \E o3ok \in BOOLEAN : EndBasic(o3ok)
    \/ O3Panic
    \/ \E posted \in BOOLEAN : Send(posted)

Spec == Init /\ [][Next]_vars

-----------------------------------------------------------------------------
(* Properties                                                              *)

\* What the pass ought to find with every read and the O3 request succeeding.
TrueDiff(b) ==
    MapThenSumSet(LAMBDA e : EffSupply(e, sup[e]) - bal[e],
                  {e \in Entries : e[1] = b /\ ~NotToken(e) /\ e \notin Unlisted})
    + (IF b = O3Basic THEN O3Flow ELSE 0)

(***************************************************************************)
(* Every alert is explained: after a pass, a basic that sendDing flagged   *)
(* is either really unbalanced by more than the threshold, or its detail   *)
(* carries the text of a failed read.  It fails if a read that degrades to *)
(* zero (lines 594-607) leaves no Reason behind.                           *)
(***************************************************************************)
ExplainedAlarm ==
    pc = "idle" =>
        \A b \in alerts :
            Material(b, TrueDiff(b)) \/ \E r \in res : r.basic = b /\ r.reason # "none"

(***************************************************************************)
(* A balanced asset raises no alert: after a pass, no basic whose supplies *)
(* and balances really cancel out (Difference <= 0) has been flagged.      *)
(***************************************************************************)
BalancedNoAlert ==
    pc = "idle" => \A b \in alerts : TrueDiff(b) > 0

=============================================================================

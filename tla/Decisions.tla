----------------------------- MODULE Decisions -----------------------------
(***************************************************************************)
(* The decision on an application, an invoice or an agreement              *)
(* (domain/decisions.ts, routes/decisions.ts) and the effects it leaves    *)
(* for people to carry out (routes/effects.ts), when several people have   *)
(* to confirm either.                                                      *)
(*                                                                         *)
(* A press on the decision is checked first and then waits for the lock of *)
(* the request, so that roles and other presses may come between; a press  *)
(* on an effect takes the lock first.                                      *)
(* Left out: what is decided, the document, its render and the receipt     *)
(* that commit with the decision, amounts and named groups (they choose    *)
(* the rule), and the partner handoff behind an invoice.                   *)
(***************************************************************************)
EXTENDS Integers, FiniteSets

CONSTANTS
  Person,
  Preparer,   \* the person whose agent prepared the request
  EffectKind, \* plannedEffects of an approval
  SamePerson, \* rule.allow_requester
  MaxNeeded   \* bound: rule.approvals_required

ASSUME DecisionAssumption ==
  /\ IsFiniteSet(Person) /\ Preparer \in Person
  /\ SamePerson \in BOOLEAN
  /\ MaxNeeded \in Nat \ {0}

VARIABLES
  asked,      \* the requests row
  decided,    \* the decisions row: who, or nobody yet
  confirmers, \* decision_confirmations
  pressing,   \* the presses on the decision that passed their check
  todo,       \* the effects rows
  carriers,   \* effect_confirmations
  decides,    \* who passes the rule for the decision as it is now
  carries,    \* who passes the rule for its effects
  needed      \* how many each rule needs

decisionVars == <<asked, decided, confirmers, pressing, todo, carriers, decides, carries, needed>>
ruleVars == <<decides, carries, needed>>

Nobody == [by |-> {}, as |-> "none"]

DecisionTypeOK ==
  /\ asked \in {"pending", "approved", "declined", "withdrawn"}
  /\ decided \in [by : SUBSET Person, as : {"none", "approve", "decline"}]
  /\ confirmers \subseteq Person
  /\ pressing \in [Person -> {"none", "approve", "decline"}]
  /\ todo \in [EffectKind -> {"none", "pending", "done", "cancelled"}]
  /\ carriers \in [EffectKind -> SUBSET Person]
  /\ decides \subseteq Person /\ carries \subseteq Person
  /\ needed \in [decision : 1..MaxNeeded, effect : 1..MaxNeeded]

DecisionInit ==
  /\ asked = "pending" /\ decided = Nobody
  /\ confirmers = {} /\ pressing = [p \in Person |-> "none"]
  /\ todo = [e \in EffectKind |-> "none"]
  /\ carriers = [e \in EffectKind |-> {}]
  /\ decides \in SUBSET Person /\ carries \in SUBSET Person
  /\ needed \in [decision : 1..MaxNeeded, effect : 1..MaxNeeded]

-----------------------------------------------------------------------------
(* createDecision *)

(* eligibleForDecision *)
MayDecideNow(p) == p \in decides /\ (SamePerson \/ p # Preparer)

(* requireDecider, at the start of the transaction. *)
Press(p, as) ==
  /\ pressing[p] = "none"
  /\ MayDecideNow(p)
  /\ pressing' = [pressing EXCEPT ![p] = as]
  /\ UNCHANGED <<asked, decided, confirmers, todo, carriers, ruleVars>>

(* countConfirmations of those who pass the rule as it is now. *)
Counted(who) == {p \in who : MayDecideNow(p)}

Pressed(p) == pressing' = [pressing EXCEPT ![p] = "none"]

(* The request is not pending any more: the answer is the decision there is. *)
PressTooLate(p) ==
  /\ pressing[p] # "none" /\ asked # "pending"
  /\ Pressed(p)
  /\ UNCHANGED <<asked, decided, confirmers, todo, carriers, ruleVars>>

Confirm(p) ==
  /\ pressing[p] = "approve" /\ asked = "pending"
  /\ Cardinality(Counted(confirmers \cup {p})) < needed.decision
  /\ confirmers' = confirmers \cup {p}
  /\ Pressed(p)
  /\ UNCHANGED <<asked, decided, todo, carriers, ruleVars>>

Approve(p) ==
  /\ pressing[p] = "approve" /\ asked = "pending"
  /\ Cardinality(Counted(confirmers \cup {p})) >= needed.decision
  /\ confirmers' = confirmers \cup {p}
  /\ decided' = [by |-> {p}, as |-> "approve"]
  /\ asked' = "approved"
  /\ todo' = [e \in EffectKind |-> "pending"]
  /\ Pressed(p)
  /\ UNCHANGED <<carriers, ruleVars>>

Decline(p) ==
  /\ pressing[p] = "decline" /\ asked = "pending"
  /\ decided' = [by |-> {p}, as |-> "decline"]
  /\ asked' = "declined"
  /\ Pressed(p)
  /\ UNCHANGED <<confirmers, todo, carriers, ruleVars>>

(* A correction of the handoff behind it withdraws a pending request. *)
Withdrawn ==
  /\ asked = "pending"
  /\ asked' = "withdrawn"
  /\ UNCHANGED <<decided, confirmers, pressing, todo, carriers, ruleVars>>

-----------------------------------------------------------------------------
(* executeEffect *)

(* Mutant of Approvers: the one whose press completed it alone. *)
ApproversLast == decided.by
(* decision_approvers: the decider and everybody who confirmed. *)
Approvers == decided.by \cup confirmers

MayCarry(p) == p \in carries /\ (SamePerson \/ p \notin Approvers)

(* With a rule of one person the press is not even recorded. *)
CarriersWith(e, p) == IF needed.effect > 1 THEN carriers[e] \cup {p} ELSE carriers[e]
Hands(e, p) == {q \in CarriersWith(e, p) \cup {p} : MayCarry(q)}

CarryConfirm(e, p) ==
  /\ todo[e] = "pending" /\ MayCarry(p)
  /\ Cardinality(Hands(e, p)) < needed.effect
  /\ carriers' = [carriers EXCEPT ![e] = CarriersWith(e, p)]
  /\ UNCHANGED <<asked, decided, confirmers, pressing, todo, ruleVars>>

(* Unavailable or simulated: it is recorded who did it. *)
CarryOut(e, p) ==
  /\ todo[e] = "pending" /\ MayCarry(p)
  /\ needed.effect > 1 => Cardinality(Hands(e, p)) >= needed.effect
  /\ carriers' = [carriers EXCEPT ![e] = CarriersWith(e, p)]
  /\ todo' = [todo EXCEPT ![e] = "done"]
  /\ UNCHANGED <<asked, decided, confirmers, pressing, ruleVars>>

(* createDocumentVersion: what is pending belongs to the version before. *)
NewVersion ==
  /\ \E e \in EffectKind : todo[e] = "pending"
  /\ todo' = [e \in EffectKind |-> IF todo[e] = "pending" THEN "cancelled" ELSE todo[e]]
  /\ UNCHANGED <<asked, decided, confirmers, pressing, carriers, ruleVars>>

(* Roles, memberships and rules change. *)
RulesChange ==
  /\ \E p \in Person : \/ decides' \in {decides \cup {p}, decides \ {p}} /\ UNCHANGED carries
                       \/ carries' \in {carries \cup {p}, carries \ {p}} /\ UNCHANGED decides
  /\ UNCHANGED <<asked, decided, confirmers, pressing, todo, carriers, needed>>

NeedsChange ==
  /\ needed' \in [decision : 1..MaxNeeded, effect : 1..MaxNeeded]
  /\ UNCHANGED <<asked, decided, confirmers, pressing, todo, carriers, decides, carries>>

DecisionNext ==
  \/ \E p \in Person : \/ Press(p, "approve") \/ Press(p, "decline") \/ PressTooLate(p)
                       \/ Confirm(p) \/ Approve(p) \/ Decline(p)
                       \/ \E e \in EffectKind : CarryConfirm(e, p) \/ CarryOut(e, p)
  \/ Withdrawn \/ NewVersion \/ RulesChange \/ NeedsChange

DecisionSpec == DecisionInit /\ [][DecisionNext]_decisionVars

-----------------------------------------------------------------------------
(* Properties *)

(* A decision is made once, and approved only by as many people as the rule asks for
   at that moment, who still pass it; and each of its effects is carried out once, by
   as many, none of whom approved the request and all of whom still may, and never
   after a new version cancelled it (recordDecision: "one who lost the role no longer
   counts"; requireEffectApprover: "both approvers count as having approved it"). *)
TakesEnoughPeople ==
  [][/\ decided # Nobody => decided' = decided /\ confirmers' = confirmers
     /\ asked # "approved" /\ asked' = "approved" =>
          \E who \in SUBSET confirmers' :
            Cardinality(who) >= needed.decision /\ \A p \in who : MayDecideNow(p)
     /\ \A e \in EffectKind :
          /\ todo[e] \in {"done", "cancelled"} => todo'[e] = todo[e]
          /\ todo[e] # "done" /\ todo'[e] = "done" =>
               /\ decided.as = "approve"
               /\ \E who \in SUBSET Person :
                    /\ Cardinality(who) >= needed.effect
                    /\ needed.effect > 1 => who \subseteq carriers'[e]
                    /\ \A p \in who : p \in carries /\ (SamePerson \/ p \notin decided.by \cup confirmers)]_decisionVars
=============================================================================

---------------------------- MODULE PeopleProofs ----------------------------
(***************************************************************************)
(* Proofs about Decisions and Invitations, for any people, seats and       *)
(* workers: types; a decision and its effects take the people their rules  *)
(* ask for; an invitation is mailed once, except where the code was        *)
(* misled; and a seat is held for whoever it was reserved for.             *)
(***************************************************************************)
EXTENDS Decisions, Invitations, FiniteSetTheorems, TLAPS

-----------------------------------------------------------------------------
(* Decisions *)

(* A request is decided exactly when it was approved or declined, and until it is
   approved there are no effects. *)
DecidedIsRecorded ==
  /\ asked = "approved" <=> decided.as = "approve"
  /\ asked = "declined" <=> decided.as = "decline"
  /\ decided.as = "none" => decided = Nobody
  /\ asked # "approved" => \A e \in EffectKind : todo[e] = "none"

DecisionInv == DecisionTypeOK /\ DecidedIsRecorded

USE DecisionAssumption

(* Every step keeps the types and the record of the decision. *)
LEMMA DecisionStep == DecisionInv /\ [DecisionNext]_decisionVars => DecisionInv'
<1> SUFFICES ASSUME DecisionInv, [DecisionNext]_decisionVars PROVE DecisionInv'
  OBVIOUS
<1> USE DEF DecisionInv, DecisionTypeOK, DecidedIsRecorded
<1>1. ASSUME NEW p \in Person, NEW as \in {"approve", "decline"}, Press(p, as) PROVE DecisionInv'
  BY <1>1 DEF Press, ruleVars
<1>2. ASSUME NEW p \in Person, PressTooLate(p) PROVE DecisionInv'
  BY <1>2 DEF PressTooLate, Pressed, ruleVars
<1>3. ASSUME NEW p \in Person, Confirm(p) PROVE DecisionInv'
  BY <1>3 DEF Confirm, Pressed, ruleVars
<1>4. ASSUME NEW p \in Person, Approve(p) PROVE DecisionInv'
  BY <1>4 DEF Approve, Pressed, ruleVars
<1>5. ASSUME NEW p \in Person, Decline(p) PROVE DecisionInv'
  BY <1>5 DEF Decline, Pressed, ruleVars
<1>6. ASSUME NEW p \in Person, NEW e \in EffectKind, CarryConfirm(e, p) PROVE DecisionInv'
  BY <1>6 DEF CarryConfirm, CarriersWith, ruleVars
<1>7. ASSUME NEW p \in Person, NEW e \in EffectKind, CarryOut(e, p) PROVE DecisionInv'
  BY <1>7 DEF CarryOut, CarriersWith, ruleVars
<1>8. CASE Withdrawn
  BY <1>8 DEF Withdrawn, ruleVars
<1>9. CASE NewVersion
  BY <1>9 DEF NewVersion, ruleVars
<1>10. CASE RulesChange
  BY <1>10 DEF RulesChange
<1>11. CASE NeedsChange
  BY <1>11 DEF NeedsChange
<1>12. CASE UNCHANGED decisionVars
  BY <1>12 DEF decisionVars, ruleVars
<1> QED
  BY <1>1, <1>2, <1>3, <1>4, <1>5, <1>6, <1>7, <1>8, <1>9, <1>10, <1>11, <1>12 DEF DecisionNext

LEMMA DecisionStart == DecisionInit => DecisionInv
BY DEF DecisionInit, DecisionInv, DecisionTypeOK, DecidedIsRecorded, Nobody

(* DecisionTypeOK always holds, whatever createDecision and executeEffect interleave. *)
THEOREM DecisionTyping == DecisionSpec => []DecisionTypeOK
<1>1. DecisionInv => DecisionTypeOK
  BY DEF DecisionInv
<1> QED BY <1>1, DecisionStart, DecisionStep, PTL DEF DecisionSpec

(* What one step may do to a decision and its effects: the action of TakesEnoughPeople. *)
TakesEnough ==
  /\ decided # Nobody => decided' = decided /\ confirmers' = confirmers
  /\ asked # "approved" /\ asked' = "approved" =>
       \E who \in SUBSET confirmers' :
         Cardinality(who) >= needed.decision /\ \A p \in who : MayDecideNow(p)
  /\ \A e \in EffectKind :
       /\ todo[e] \in {"done", "cancelled"} => todo'[e] = todo[e]
       /\ todo[e] # "done" /\ todo'[e] = "done" =>
            /\ decided.as = "approve"
            /\ \E who \in SUBSET Person :
                 /\ Cardinality(who) >= needed.effect
                 /\ needed.effect > 1 => who \subseteq carriers'[e]
                 /\ \A p \in who : p \in carries /\ (SamePerson \/ p \notin decided.by \cup confirmers)

(* Every step takes enough people. *)
LEMMA EnoughStep == DecisionInv /\ [DecisionNext]_decisionVars => [TakesEnough]_decisionVars
<1> SUFFICES ASSUME DecisionInv, DecisionNext PROVE TakesEnough
  OBVIOUS
<1> USE DEF DecisionInv, DecisionTypeOK, DecidedIsRecorded
<1>once. decided # Nobody => asked \notin {"pending"}
  BY DEF Nobody
<1>1. ASSUME NEW p \in Person, NEW as \in {"approve", "decline"}, Press(p, as) PROVE TakesEnough
  BY <1>1 DEF Press, ruleVars, TakesEnough
<1>2. ASSUME NEW p \in Person, PressTooLate(p) PROVE TakesEnough
  BY <1>2 DEF PressTooLate, ruleVars, TakesEnough
<1>3. ASSUME NEW p \in Person, Confirm(p) PROVE TakesEnough
  BY <1>once, <1>3 DEF Confirm, ruleVars, TakesEnough
<1>4. ASSUME NEW p \in Person, Approve(p) PROVE TakesEnough
  <2>1. Counted(confirmers \cup {p}) \in SUBSET confirmers'
    BY <1>4 DEF Approve, Counted
  <2>2. /\ Cardinality(Counted(confirmers \cup {p})) >= needed.decision
        /\ \A q \in Counted(confirmers \cup {p}) : MayDecideNow(q)
    BY <1>4 DEF Approve, Counted
  <2>3. \A e \in EffectKind : todo[e] = "none" /\ todo'[e] = "pending"
    BY <1>4 DEF Approve
  <2> QED BY <1>once, <1>4, <2>1, <2>2, <2>3 DEF Approve, TakesEnough
<1>5. ASSUME NEW p \in Person, Decline(p) PROVE TakesEnough
  BY <1>once, <1>5 DEF Decline, ruleVars, TakesEnough
<1>6. ASSUME NEW p \in Person, NEW e \in EffectKind, CarryConfirm(e, p) PROVE TakesEnough
  BY <1>6 DEF CarryConfirm, ruleVars, TakesEnough
<1>7. ASSUME NEW p \in Person, NEW e \in EffectKind, CarryOut(e, p) PROVE TakesEnough
  <2>1. decided.as = "approve" /\ todo[e] = "pending"
    BY <1>7 DEF CarryOut
  <2>2. \A d \in EffectKind : d # e => todo'[d] = todo[d]
    BY <1>7 DEF CarryOut
  <2>3. \E who \in SUBSET Person :
          /\ Cardinality(who) >= needed.effect
          /\ needed.effect > 1 => who \subseteq carriers'[e]
          /\ \A q \in who : q \in carries /\ (SamePerson \/ q \notin decided.by \cup confirmers)
    <3>1. CASE needed.effect > 1
      <4>1. Hands(e, p) \in SUBSET Person /\ Hands(e, p) \subseteq carriers'[e]
        BY <1>7, <3>1 DEF CarryOut, Hands, CarriersWith
      <4>2. \A q \in Hands(e, p) : q \in carries /\ (SamePerson \/ q \notin decided.by \cup confirmers)
        BY DEF Hands, MayCarry, Approvers
      <4> QED BY <1>7, <3>1, <4>1, <4>2 DEF CarryOut
    <3>2. CASE needed.effect = 1
      <4>1. Cardinality({p}) = 1
        BY FS_Singleton
      <4>2. p \in carries /\ (SamePerson \/ p \notin decided.by \cup confirmers)
        BY <1>7 DEF CarryOut, MayCarry, Approvers
      <4> QED BY <3>2, <4>1, <4>2
    <3>3. needed.effect = 1 \/ needed.effect > 1
      OBVIOUS
    <3> QED BY <3>1, <3>2, <3>3
  <2> QED BY <1>7, <2>1, <2>2, <2>3 DEF CarryOut, ruleVars, TakesEnough
<1>8. CASE Withdrawn
  BY <1>8 DEF Withdrawn, ruleVars, TakesEnough
<1>9. CASE NewVersion
  BY <1>9 DEF NewVersion, ruleVars, TakesEnough
<1>10. CASE RulesChange
  BY <1>10 DEF RulesChange, TakesEnough
<1>11. CASE NeedsChange
  BY <1>11 DEF NeedsChange, TakesEnough
<1> QED
  BY <1>1, <1>2, <1>3, <1>4, <1>5, <1>6, <1>7, <1>8, <1>9, <1>10, <1>11 DEF DecisionNext

(* TakesEnoughPeople: whatever roles and rules change while presses wait for the lock, a
   decision and each of its effects takes as many people as its rule asks for then. *)
THEOREM TakesEnoughPeopleAlways == DecisionSpec => TakesEnoughPeople
<1> QED BY DecisionStart, DecisionStep, EnoughStep, PTL DEF DecisionSpec, TakesEnoughPeople, TakesEnough

-----------------------------------------------------------------------------
(* Invitations: types *)

Row == [status : {"none", "pending", "accepted", "withdrawn", "expired", "resent"},
        delivery : {"not_required", "queued", "sending", "delivered", "failed", "stuck"},
        workos : BOOLEAN]
Operation == [preparation : {"none", "awaiting_connection", "queued", "ready", "failed"},
              cancellation : {"none", "requested", "complete"}, due : BOOLEAN]
SeatRow == [state : {"available", "reserved", "assigned", "quarantined"},
            holder : Invitation \cup {NoInvitation}]

USE InvitationAssumption

LEMMA NoInvitationIsNone == NoInvitation \notin Invitation
BY DEF NoInvitation, Invitation

(* What expireInvitationReservations makes of each row, operation and seat. *)
LEMMA SweptFacts ==
  ASSUME InviteTypeOK
  PROVE /\ Swept.rows \in [Invitation -> Row]
        /\ Swept.operations \in [Invitation -> Operation]
        /\ Swept.seats \in [Seat -> SeatRow]
        /\ \A i \in Invitation :
             /\ Swept.rows[i].status = IF i \in Expiring THEN "expired" ELSE invitation[i].status
             /\ i \notin Expiring => Swept.rows[i] = invitation[i]
        /\ \A c \in Seat :
             Swept.seats[c] = IF seat[c].state = "reserved" /\ seat[c].holder \in Expiring
                              THEN FreeSeat ELSE seat[c]
        /\ Expiring \subseteq Invitation
        /\ \A i \in Expiring : Pending(i)
<1> USE DEF InviteTypeOK, Row, Operation, SeatRow
<1>1. Expiring \subseteq Invitation /\ \A i \in Expiring : Pending(i)
  BY DEF Expiring
<1>2. Swept.rows = [i \in Invitation |-> IF i \in Expiring
        THEN [invitation[i] EXCEPT !.status = "expired", !.delivery =
                IF @ \in {"delivered", "stuck"} THEN @ ELSE "failed"]
        ELSE invitation[i]]
  BY DEF Swept
<1>3. Swept.operations = [i \in Invitation |-> IF i \in Expiring /\ Backed(i)
        THEN [operation[i] EXCEPT !.cancellation = "complete", !.due = FALSE] ELSE operation[i]]
  BY DEF Swept
<1>4. Swept.seats = Released(seat, Expiring)
  BY DEF Swept
<1>5. Swept.rows \in [Invitation -> Row]
  <2>1. ASSUME NEW i \in Invitation
        PROVE [invitation[i] EXCEPT !.status = "expired", !.delivery =
                 IF @ \in {"delivered", "stuck"} THEN @ ELSE "failed"] \in Row
    <3>1. invitation[i] \in Row
      OBVIOUS
    <3> QED BY <3>1 DEF Row
  <2>2. \A i \in Invitation : invitation[i] \in Row
    OBVIOUS
  <2> HIDE DEF InviteTypeOK, Row
  <2> QED BY <1>2, <2>1, <2>2
<1>6. Swept.operations \in [Invitation -> Operation]
  <2>1. ASSUME NEW i \in Invitation
        PROVE /\ operation[i] \in Operation
              /\ [operation[i] EXCEPT !.cancellation = "complete", !.due = FALSE] \in Operation
    <3>1. operation[i] \in Operation
      OBVIOUS
    <3> HIDE DEF InviteTypeOK
    <3> QED BY <3>1 DEF Operation
  <2> HIDE DEF InviteTypeOK, Operation
  <2> QED BY <1>3, <2>1
<1>7. ASSUME NEW c \in Seat
      PROVE Swept.seats[c] = IF seat[c].state = "reserved" /\ seat[c].holder \in Expiring
                             THEN FreeSeat ELSE seat[c]
  BY <1>1, <1>4 DEF Released, HeldBy
<1>8. Swept.seats \in [Seat -> SeatRow]
  BY <1>4, <1>7 DEF Released, FreeSeat
<1>9. ASSUME NEW i \in Invitation
      PROVE /\ Swept.rows[i].status = IF i \in Expiring THEN "expired" ELSE invitation[i].status
            /\ i \notin Expiring => Swept.rows[i] = invitation[i]
  <2>1. invitation[i] \in Row
    OBVIOUS
  <2> HIDE DEF InviteTypeOK
  <2> QED BY <1>2, <2>1 DEF Row
<1> QED BY <1>1, <1>5, <1>6, <1>7, <1>8, <1>9

(* Releasing, reserving and transferring keep the types of the seats. *)
LEMMA SeatTypes ==
  ASSUME NEW seats \in [Seat -> SeatRow]
  PROVE /\ \A rows : Released(seats, rows) \in [Seat -> SeatRow]
        /\ \A i \in Invitation : Reserves(seats, i) => seat' \in [Seat -> SeatRow]
<1>1. ASSUME NEW rows PROVE Released(seats, rows) \in [Seat -> SeatRow]
  BY DEF Released, FreeSeat, SeatRow
<1>2. ASSUME NEW i \in Invitation, Reserves(seats, i) PROVE seat' \in [Seat -> SeatRow]
  BY <1>2 DEF Reserves, SeatRow, Available
<1> QED BY <1>1, <1>2

LEMMA DriftTypes ==
  ASSUME NEW seats \in SUBSET Seat, InviteTypeOK, Drifts(seats)
  PROVE InviteTypeOK'
BY DEF Drifts, InviteTypeOK

LEMMA DeliversTypes ==
  ASSUME InviteTypeOK, NEW rows \in [Invitation -> Row], NEW i \in Invitation, Delivers(rows, i)
  PROVE /\ invitation' \in [Invitation -> Row]
        /\ sendDue' \subseteq Invitation /\ late' \subseteq Invitation
<1>1. CASE rows[i].status = "pending" /\ rows[i].delivery = "not_required"
  <2>1. [rows[i] EXCEPT !.delivery = "queued"] \in Row
    BY DEF Row
  <2>2. invitation' = [rows EXCEPT ![i] = [rows[i] EXCEPT !.delivery = "queued"]]
    BY <1>1 DEF Delivers
  <2>3. invitation' \in [Invitation -> Row]
    BY <2>1, <2>2
  <2>4. sendDue' \subseteq Invitation /\ late' \subseteq Invitation
    BY <1>1 DEF Delivers, InviteTypeOK
  <2> QED BY <2>3, <2>4
<1>2. CASE ~(rows[i].status = "pending" /\ rows[i].delivery = "not_required")
  BY <1>2 DEF Delivers, InviteTypeOK
<1> QED BY <1>1, <1>2

(* Every request about an invitation keeps the types. *)
LEMMA RequestTypes ==
  ASSUME InviteTypeOK, NEW i \in Invitation, InviteRequest(i)
  PROVE InviteTypeOK'
<1>types. /\ operation \in [Invitation -> Operation] /\ seat \in [Seat -> SeatRow]
      /\ invitation \in [Invitation -> Row]
  BY DEF InviteTypeOK, Row, Operation, SeatRow
<1>fresh. Unsent \in Row /\ Queued \in Row /\ NoOperation \in Operation
  BY DEF Unsent, Queued, Row, NoOperation, Operation
<1>1. CASE InviteSetup(i)
  <2>1. invitation' \in [Invitation -> Row]
    BY <1>types, <1>fresh, <1>1 DEF InviteSetup
  <2>2. operation' \in [Invitation -> Operation]
    BY <1>types, <1>1 DEF InviteSetup, Operation
  <2> QED BY <1>1, <2>1, <2>2 DEF InviteSetup, InviteTypeOK, Row, Operation
<1>2. CASE InviteNow(i)
  <2>1. CASE Drifts(Considered(seat, i))
    BY <2>1, DriftTypes DEF Considered, HeldBy, Available
  <2>2. CASE ~Drifts(Considered(seat, i))
    <3>1. Reserves(seat, i) /\ invitation' = [invitation EXCEPT ![i] = Queued]
      BY <1>2, <2>2 DEF InviteNow
    <3>2. seat' \in [Seat -> SeatRow]
      BY <1>types, <3>1, SeatTypes
    <3>3. invitation' \in [Invitation -> Row]
      BY <1>types, <1>fresh, <3>1
    <3>4. strayed' \subseteq Invitation
      BY <3>1 DEF Reserves, InviteTypeOK
    <3> QED BY <1>2, <2>2, <3>2, <3>3, <3>4 DEF InviteNow, InviteTypeOK, Row, SeatRow
  <2> QED BY <2>1, <2>2
<1>3. CASE InviteAgain(i)
  <2>1. CASE Drifts(Considered(Swept.seats, i))
    BY <2>1, DriftTypes DEF Considered, HeldBy, Available
  <2>2. CASE ~Drifts(Considered(Swept.seats, i))
    <3>1. Reserves(Swept.seats, i) /\ invitation' = Swept.rows /\ operation' = Swept.operations
      BY <1>3, <2>2 DEF InviteAgain
    <3>2. seat' \in [Seat -> SeatRow]
      BY <3>1, SeatTypes, SweptFacts
    <3>4. strayed' \subseteq Invitation
      BY <3>1 DEF Reserves, InviteTypeOK
    <3>5. invitation' \in [Invitation -> Row] /\ operation' \in [Invitation -> Operation]
      BY <3>1, SweptFacts
    <3> QED BY <1>3, <2>2, <3>2, <3>4, <3>5 DEF InviteAgain, InviteTypeOK, Row, SeatRow, Operation
  <2> QED BY <2>1, <2>2
<1>4. CASE Withdraw(i)
  <2>1. invitation' \in [Invitation -> Row]
    BY <1>types, <1>4 DEF Withdraw, Row
  <2>2. operation' \in [Invitation -> Operation]
    <3>1. [operation[i] EXCEPT !.cancellation = "requested", !.due = TRUE] \in Operation
      BY <1>types DEF Operation
    <3>2. operation' \in {operation, [operation EXCEPT ![i] = [operation[i] EXCEPT !.cancellation = "requested", !.due = TRUE]]}
      BY <1>types, <1>4 DEF Withdraw, Operation
    <3> QED BY <1>types, <3>1, <3>2
  <2>3. seat' \in [Seat -> SeatRow]
    BY <1>types, <1>4, SeatTypes DEF Withdraw, Freed
  <2> QED BY <1>4, <2>1, <2>2, <2>3 DEF Withdraw, InviteTypeOK, Row, Operation, SeatRow
<1>5. CASE ComesLate(i)
  BY <1>5 DEF ComesLate, InviteTypeOK
<1>6. ASSUME NEW next \in Invitation, ResendNow(i, next) PROVE InviteTypeOK'
  <2>1. CASE Drifts(HeldBy(Swept.seats, i)) \/ Drifts(Considered(Swept.seats, next))
    BY <2>1, DriftTypes DEF Considered, HeldBy, Available
  <2>2. CASE ~(Drifts(HeldBy(Swept.seats, i)) \/ Drifts(Considered(Swept.seats, next)))
    <3>1. /\ invitation' = Superseded(i, next, Queued) /\ operation' = Swept.operations
          /\ IF HeldBy(Swept.seats, i) # {}
             THEN seat' = Transferred(i, next) /\ UNCHANGED strayed
             ELSE Reserves(Swept.seats, next)
          /\ sendDue' = sendDue \cup {next}
          /\ UNCHANGED <<late, current, reported, proof, sender, mailed, misled>>
      BY <1>6, <2>2 DEF ResendNow
    <3>2. seat' \in [Seat -> SeatRow] /\ strayed' \subseteq Invitation
      <4>1. Transferred(i, next) \in [Seat -> SeatRow]
        BY SweptFacts DEF Transferred, SeatRow
      <4>2. CASE HeldBy(Swept.seats, i) # {}
        BY <3>1, <4>1, <4>2 DEF InviteTypeOK
      <4>3. CASE HeldBy(Swept.seats, i) = {}
        BY <3>1, <4>3, SeatTypes, SweptFacts DEF Reserves, InviteTypeOK
      <4> QED BY <4>2, <4>3
    <3>3. invitation' \in [Invitation -> Row]
      <4>1. [Swept.rows[i] EXCEPT !.status = "resent"] \in Row
        BY SweptFacts DEF Row
      <4> QED BY <1>fresh, <3>1, <4>1, SweptFacts DEF Superseded
    <3>4. operation' \in [Invitation -> Operation]
      BY <3>1, SweptFacts
    <3> QED BY <3>1, <3>2, <3>3, <3>4 DEF InviteTypeOK, Row, SeatRow, Operation
  <2> QED BY <2>1, <2>2
<1>7. ASSUME NEW next \in Invitation, ResendSetup(i, next) PROVE InviteTypeOK'
  <2>1. CASE Drifts(HeldBy(Swept.seats, i))
    BY <2>1, DriftTypes DEF HeldBy
  <2>2. CASE ~Drifts(HeldBy(Swept.seats, i))
    <3> DEFINE op == Swept.operations[i]
               moved == [op EXCEPT !.preparation = IF @ = "ready" /\ ~(HeldBy(Swept.seats, i) # {}) THEN "queued" ELSE @,
                                   !.due = TRUE]
    <3>1. /\ invitation' = Superseded(i, next, Unsent) /\ seat' = Transferred(i, next)
          /\ operation' = [Swept.operations EXCEPT ![i] = NoOperation, ![next] = moved]
          /\ UNCHANGED <<late, current, reported, proof, sendDue, sender, mailed, misled, strayed>>
      BY <1>7, <2>2 DEF ResendSetup
    <3>2. seat' \in [Seat -> SeatRow]
      BY <3>1, SweptFacts DEF Transferred, SeatRow
    <3>3. invitation' \in [Invitation -> Row]
      <4>1. [Swept.rows[i] EXCEPT !.status = "resent"] \in Row
        BY SweptFacts DEF Row
      <4> QED BY <1>fresh, <3>1, <4>1, SweptFacts DEF Superseded
    <3>4. operation' \in [Invitation -> Operation]
      <4>1. op \in Operation
        BY SweptFacts
      <4>2. moved \in Operation
        <5> HIDE DEF op
        <5> QED BY <4>1 DEF Operation
      <4> HIDE DEF moved
      <4> QED BY <1>fresh, <3>1, <4>2, SweptFacts
    <3> QED BY <3>1, <3>2, <3>3, <3>4 DEF InviteTypeOK, Row, SeatRow, Operation
  <2> QED BY <2>1, <2>2
<1> QED BY <1>1, <1>2, <1>3, <1>4, <1>5, <1>6, <1>7 DEF InviteRequest

(* Every step of a setup keeps the types. *)
LEMMA SetupTypes ==
  ASSUME InviteTypeOK, NEW i \in Invitation, SetupStep(i)
  PROVE InviteTypeOK'
<1>types. /\ operation \in [Invitation -> Operation] /\ seat \in [Seat -> SeatRow]
      /\ invitation \in [Invitation -> Row]
  BY DEF InviteTypeOK, Row, Operation, SeatRow
<1>bumped. \A p \in {"none", "awaiting_connection", "queued", "ready", "failed"},
          c \in {"none", "requested", "complete"} : Bump(i, p, c) \in [Invitation -> Operation]
  BY <1>types DEF Bump, Operation
<1>1. CASE StepCancels(i)
  <2>1. operation' \in [Invitation -> Operation]
    BY <1>types, <1>bumped, <1>1 DEF StepCancels, Operation
  <2>2. seat' \in [Seat -> SeatRow]
    BY <1>types, <1>1, SeatTypes DEF StepCancels
  <2> QED BY <1>1, <2>1, <2>2 DEF StepCancels, InviteTypeOK, Operation, SeatRow
<1>2. CASE StepRevoked(i)
  <2>1. operation' \in [Invitation -> Operation]
    BY <1>types, <1>bumped, <1>2 DEF StepRevoked, Operation
  <2>2. seat' \in [Seat -> SeatRow]
    BY <1>types, <1>2, SeatTypes DEF StepRevoked
  <2> QED BY <1>2, <2>1, <2>2 DEF StepRevoked, InviteTypeOK, Operation, SeatRow
<1>3. CASE StepDelivers(i)
  <2>1. CASE Drifts(HeldBy(seat, i))
    BY <2>1, DriftTypes DEF HeldBy
  <2>2. CASE ~Drifts(HeldBy(seat, i))
    <3>1. /\ Delivers(invitation, i)
          /\ \E again \in BOOLEAN : operation' = [operation EXCEPT ![i].due = again]
          /\ UNCHANGED <<seat, current, reported, proof, sender, mailed, misled, strayed>>
      BY <1>3, <2>2 DEF StepDelivers
    <3>2. operation' \in [Invitation -> Operation]
      BY <1>types, <3>1 DEF Operation
    <3>3. /\ invitation' \in [Invitation -> Row]
          /\ sendDue' \subseteq Invitation /\ late' \subseteq Invitation
      BY <1>types, <3>1, DeliversTypes
    <3> QED BY <3>1, <3>2, <3>3 DEF InviteTypeOK, Row, Operation
  <2> QED BY <2>1, <2>2
<1>4. CASE StepReserves(i)
  <2> DEFINE op == Swept.operations[i]
  <2>0. op \in Operation
    BY SweptFacts
  <2>1. CASE Drifts(Considered(Swept.seats, i))
    BY <2>1, DriftTypes DEF Considered, HeldBy, Available
  <2>2. CASE /\ Reserves(Swept.seats, i)
             /\ Delivers(Swept.rows, i)
             /\ operation' = IF i \in Expiring THEN Swept.operations
                             ELSE [Swept.operations EXCEPT ![i] = [op EXCEPT !.preparation = "ready", !.due = FALSE]]
             /\ UNCHANGED <<current, reported, proof, sender, mailed, misled>>
    <3>1. [op EXCEPT !.preparation = "ready", !.due = FALSE] \in Operation
      BY <2>0 DEF Operation
    <3>2. operation' \in [Invitation -> Operation]
      BY <2>2, <3>1, SweptFacts
    <3>3. /\ invitation' \in [Invitation -> Row]
          /\ sendDue' \subseteq Invitation /\ late' \subseteq Invitation
      BY <2>2, DeliversTypes, SweptFacts
    <3>4. seat' \in [Seat -> SeatRow]
      BY <2>2, SeatTypes, SweptFacts
    <3>5. strayed' \subseteq Invitation
      BY <2>2 DEF Reserves, InviteTypeOK
    <3> QED BY <2>2, <3>2, <3>3, <3>4, <3>5 DEF InviteTypeOK, Row, Operation, SeatRow
  <2>3. ASSUME NEW p \in {"awaiting_connection", "failed"},
               invitation' = Swept.rows, seat' = Swept.seats,
               operation' = IF i \in Expiring THEN Swept.operations
                            ELSE [Swept.operations EXCEPT ![i] = [op EXCEPT !.preparation = p, !.due = FALSE]],
               UNCHANGED <<late, current, reported, proof, sendDue, sender, mailed, misled, strayed>>
        PROVE InviteTypeOK'
    <3>1. [op EXCEPT !.preparation = p, !.due = FALSE] \in Operation
      BY <2>0 DEF Operation
    <3>2. operation' \in [Invitation -> Operation]
      BY <2>3, <3>1, SweptFacts
    <3>3. invitation' \in [Invitation -> Row] /\ seat' \in [Seat -> SeatRow]
      BY <2>3, SweptFacts
    <3> QED BY <2>3, <3>2, <3>3 DEF InviteTypeOK, Row, Operation, SeatRow
  <2> QED BY <1>4, <2>1, <2>2, <2>3 DEF StepReserves
<1>5. CASE Wake(i)
  <2>1. operation' \in [Invitation -> Operation]
    BY <1>types, <1>5 DEF Wake, Operation
  <2> QED BY <1>5, <2>1 DEF Wake, InviteTypeOK, Operation
<1> QED BY <1>1, <1>2, <1>3, <1>4, <1>5 DEF SetupStep

SenderRow == [at : {"idle", "calling", "accepted", "unavailable", "refused", "failing"},
              of : Invitation \cup {NoInvitation}]

(* Every step of a sender keeps the types. *)
LEMMA SenderTypes ==
  ASSUME InviteTypeOK, NEW w \in Sender, SendStep(w)
  PROVE InviteTypeOK'
<1>types. /\ operation \in [Invitation -> Operation] /\ seat \in [Seat -> SeatRow]
      /\ invitation \in [Invitation -> Row] /\ sender \in [Sender -> SenderRow]
      /\ sendDue \subseteq Invitation
  BY DEF InviteTypeOK, Row, Operation, SeatRow, SenderRow
<1>rests. ASSUME Rests(w) PROVE sender' \in [Sender -> SenderRow]
  BY <1>types, <1>rests DEF Rests, Resting, SenderRow
<1>goes. ASSUME NEW at \in {"calling", "accepted", "unavailable", "refused", "failing"},
               NEW i \in Invitation \cup {NoInvitation}, Goes(w, at, i)
        PROVE sender' \in [Sender -> SenderRow]
  BY <1>types, <1>goes DEF Goes, SenderRow
<1>records. ASSUME NEW i, NEW d \in {"delivered", "failed", "stuck"}, NEW b \in BOOLEAN, Recorded(i, d, b)
         PROVE invitation' \in [Invitation -> Row]
  <2>1. CASE i \in Invitation
    <3>1. [invitation[i] EXCEPT !.delivery = d, !.workos = @ \/ b] \in Row
      <4>1. invitation[i] \in Row
        BY <1>types, <2>1
      <4>2. (invitation[i].workos \/ b) \in BOOLEAN
        OBVIOUS
      <4> QED BY <4>1, <4>2 DEF Row
    <3>2. invitation' \in {invitation, [invitation EXCEPT ![i] = [invitation[i] EXCEPT !.delivery = d, !.workos = @ \/ b]]}
      BY <1>records, <1>types, <2>1 DEF Recorded
    <3> QED BY <1>types, <3>1, <3>2
  <2>2. CASE i \notin Invitation
    BY <1>types, <1>records, <2>2 DEF Recorded
  <2> QED BY <2>1, <2>2
<1>1. ASSUME NEW i \in Invitation, SendNothing(w, i) PROVE InviteTypeOK'
  <2>1. invitation' \in [Invitation -> Row]
    <3>1. [Swept.rows[i] EXCEPT !.delivery = "delivered"] \in Row
      BY SweptFacts DEF Row
    <3>2. invitation' \in {Swept.rows, [Swept.rows EXCEPT ![i] = [Swept.rows[i] EXCEPT !.delivery = "delivered"]]}
      BY <1>1, SweptFacts DEF SendNothing
    <3> QED BY <3>1, <3>2, SweptFacts
  <2>2. operation' \in [Invitation -> Operation] /\ seat' \in [Seat -> SeatRow]
    BY <1>1, SweptFacts DEF SendNothing
  <2>3. sendDue' \subseteq Invitation
    BY <1>types, <1>1 DEF SendNothing, JobMayBeOver
  <2> QED BY <1>1, <2>1, <2>2, <2>3 DEF SendNothing, InviteTypeOK, Row, Operation, SeatRow
<1>2. ASSUME NEW i \in Invitation, SendRefused(w, i) PROVE InviteTypeOK'
  <2>1. /\ operation' \in [Invitation -> Operation] /\ seat' \in [Seat -> SeatRow]
        /\ invitation' \in [Invitation -> Row]
    BY <1>2, SweptFacts DEF SendRefused
  <2>2. sender' \in [Sender -> SenderRow]
    BY <1>goes, <1>2 DEF SendRefused
  <2> QED BY <1>2, <2>1, <2>2 DEF SendRefused, InviteTypeOK, Row, Operation, SeatRow, SenderRow
<1>3. ASSUME NEW i \in Invitation, SendBegins(w, i) PROVE InviteTypeOK'
  <2>1. operation' \in [Invitation -> Operation] /\ seat' \in [Seat -> SeatRow]
    BY <1>3, SweptFacts DEF SendBegins
  <2>2. invitation' \in [Invitation -> Row]
    <3>1. [Swept.rows[i] EXCEPT !.delivery = "sending"] \in Row
      BY SweptFacts DEF Row
    <3>2. invitation' = [Swept.rows EXCEPT ![i] = [Swept.rows[i] EXCEPT !.delivery = "sending"]]
      BY <1>3, SweptFacts DEF SendBegins
    <3> QED BY <3>1, <3>2, SweptFacts
  <2>3. sender' \in [Sender -> SenderRow]
    BY <1>goes, <1>3 DEF SendBegins
  <2> QED BY <1>3, <2>1, <2>2, <2>3 DEF SendBegins, InviteTypeOK, Row, Operation, SeatRow, SenderRow
<1>4. ASSUME NEW answer \in {"accepted", "unavailable", "refused"}, NEW taken \in {0, 1},
             CallWorkos(w, answer, taken)
      PROVE InviteTypeOK'
  <2>1. sender' \in [Sender -> SenderRow]
    BY <1>types, <1>goes, <1>4 DEF CallWorkos, SenderRow
  <2>2. ASSUME NEW f \in [Invitation -> Nat], NEW i
        PROVE [f EXCEPT ![i] = @ + taken] \in [Invitation -> Nat]
    <3>1. CASE i \in Invitation
      <4>1. f[i] + taken \in Nat
        BY <3>1
      <4> QED BY <4>1
    <3>2. CASE i \notin Invitation
      BY <3>2
    <3> QED BY <3>1, <3>2
  <2>3. mailed' \in [Invitation -> Nat] /\ misled' \in [Invitation -> Nat]
    BY <1>4, <2>2 DEF CallWorkos, InviteTypeOK
  <2> QED BY <1>4, <2>1, <2>3 DEF CallWorkos, InviteTypeOK, SenderRow
<1>5. CASE RecordDelivered(w)
  <2>1. invitation' \in [Invitation -> Row] /\ sender' \in [Sender -> SenderRow]
    BY <1>rests, <1>records, <1>5 DEF RecordDelivered
  <2>2. late' \subseteq Invitation /\ sendDue' \subseteq Invitation
    BY <1>5 DEF RecordDelivered, JobMayBeOver, InviteTypeOK
  <2> QED BY <1>5, <2>1, <2>2 DEF RecordDelivered, InviteTypeOK, Row, SenderRow
<1>6. CASE RecordCommitFails(w)
  <2>1. invitation' \in [Invitation -> Row] /\ sender' \in [Sender -> SenderRow]
    BY <1>types, <1>rests, <1>records, <1>6 DEF RecordCommitFails
  <2>2. sendDue' \subseteq Invitation
    BY <1>6 DEF RecordCommitFails, JobMayBeOver, InviteTypeOK
  <2> QED BY <1>6, <2>1, <2>2 DEF RecordCommitFails, InviteTypeOK, Row, SenderRow
<1>7. CASE RecordFailed(w)
  <2>1. invitation' \in [Invitation -> Row] /\ sender' \in [Sender -> SenderRow]
    BY <1>rests, <1>records, <1>7 DEF RecordFailed
  <2>2. sendDue' \subseteq Invitation
    BY <1>7 DEF RecordFailed, JobMayBeOver, InviteTypeOK
  <2> QED BY <1>7, <2>1, <2>2 DEF RecordFailed, InviteTypeOK, Row, SenderRow
<1>8. CASE SenderLost(w)
  <2>1. sender' \in [Sender -> SenderRow]
    BY <1>rests, <1>8 DEF SenderLost
  <2> QED BY <1>8, <2>1 DEF SenderLost, InviteTypeOK, SenderRow
<1>9. ASSUME NEW i \in Invitation, SendUnconfigured(w, i) PROVE InviteTypeOK'
  <2>1. invitation' \in [Invitation -> Row]
    <3>1. [invitation[i] EXCEPT !.delivery = "failed"] \in Row
      BY <1>types DEF Row
    <3>2. invitation' = [invitation EXCEPT ![i] = [invitation[i] EXCEPT !.delivery = "failed"]]
      BY <1>types, <1>9 DEF SendUnconfigured
    <3> QED BY <1>types, <3>1, <3>2
  <2>2. misled' \in [Invitation -> Nat]
    BY <1>9 DEF SendUnconfigured, InviteTypeOK
  <2> QED BY <1>9, <2>1, <2>2 DEF SendUnconfigured, InviteTypeOK, Row
<1> QED BY <1>1, <1>2, <1>3, <1>4, <1>5, <1>6, <1>7, <1>8, <1>9 DEF SendStep

(* Every step of a seat keeps the types. *)
LEMMA SeatStepTypes ==
  ASSUME InviteTypeOK, NEW c \in Seat, SeatStep(c)
  PROVE InviteTypeOK'
<1>1. ASSUME NEW i \in Invitation, Prove(i, c) PROVE InviteTypeOK'
  <2>1. CASE Drifts({c})
    BY <2>1, DriftTypes
  <2>2. CASE ~Drifts({c})
    BY <1>1, <2>2 DEF Prove, InviteTypeOK
  <2> QED BY <2>1, <2>2
<1>2. ASSUME NEW i \in Invitation, Join(i, c) PROVE InviteTypeOK'
  <2>1. CASE Drifts({c})
    BY <2>1, DriftTypes
  <2>2. CASE ~Drifts({c})
    <3>1. invitation' \in [Invitation -> Row]
      <4>1. invitation \in [Invitation -> Row] /\ invitation' = [invitation EXCEPT ![i].status = "accepted"]
        BY <1>2, <2>2 DEF Join, InviteTypeOK, Row
      <4>2. [invitation[i] EXCEPT !.status = "accepted"] \in Row
        BY <4>1 DEF Row
      <4> QED BY <4>1, <4>2
    <3>2. seat' \in [Seat -> SeatRow]
      <4>1. seat \in [Seat -> SeatRow] /\ seat' = [seat EXCEPT ![c].state = "assigned"]
        BY <1>2, <2>2 DEF Join, InviteTypeOK, SeatRow
      <4>2. [seat[c] EXCEPT !.state = "assigned"] \in SeatRow
        BY <4>1 DEF SeatRow
      <4> QED BY <4>1, <4>2
    <3> QED BY <1>2, <2>2, <3>1, <3>2 DEF Join, InviteTypeOK, Row, SeatRow
  <2> QED BY <2>1, <2>2
<1>3. CASE GrantChanges(c)
  BY <1>3 DEF GrantChanges, InviteTypeOK
<1>4. CASE QuarantineSeat(c)
  <2>1. seat' \in [Seat -> SeatRow]
    BY <1>4 DEF QuarantineSeat, InviteTypeOK, SeatRow
  <2> QED BY <1>4, <2>1 DEF QuarantineSeat, InviteTypeOK, SeatRow
<1>5. CASE ReportLost(c)
  BY <1>5 DEF ReportLost, InviteTypeOK
<1> QED BY <1>1, <1>2, <1>3, <1>4, <1>5 DEF SeatStep

LEMMA InviteTypes == InviteTypeOK /\ [InviteNext]_inviteVars => InviteTypeOK'
<1> SUFFICES ASSUME InviteTypeOK, [InviteNext]_inviteVars PROVE InviteTypeOK'
  OBVIOUS
<1>1. CASE ExpireInvitations
  BY <1>1, SweptFacts DEF ExpireInvitations, InviteTypeOK, Row, Operation, SeatRow
<1>2. CASE ProofTooOld
  BY <1>2 DEF ProofTooOld, InviteTypeOK
<1>3. CASE UNCHANGED inviteVars
  BY <1>3 DEF inviteVars, InviteTypeOK
<1> QED BY <1>1, <1>2, <1>3, RequestTypes, SetupTypes, SenderTypes, SeatStepTypes DEF InviteNext

LEMMA InviteStart == InviteInit => InviteTypeOK
BY DEF InviteInit, InviteTypeOK, NoRowYet, NoOperation, FreeSeat, Resting

(* InviteTypeOK always holds, whatever requests, jobs and workers interleave. *)
THEOREM InviteTyping == InviteSpec => []InviteTypeOK
BY InviteStart, InviteTypes, PTL DEF InviteSpec

-----------------------------------------------------------------------------
(* Invitations: mailed once *)

(* A row that MaySend and Deliverable will let nobody send again. *)
Keyed(row) ==
  \/ row.status \notin {"none", "pending"}
  \/ row.status = "pending" /\ (row.delivery \in {"sending", "stuck"} \/ row.workos)

(* How many sends may yet begin. *)
SendsLeft(row) == IF Keyed(row) THEN 0 ELSE 1

(* What WorkOS accepted of a row, what it is being asked, and what it may be asked anew
   come to one, and to one more for each time that the code was misled. *)
Fit(callers, accepted, row, wrong) ==
  IsFiniteSet(callers) /\ accepted + Cardinality(callers) + SendsLeft(row) <= 1 + wrong

MailFits ==
  /\ \A w \in Sender : sender[w].at # "idle" => sender[w].of \in Invitation
  /\ \A i \in Invitation : Fit(Asking(i), mailed[i], invitation[i], misled[i])

(* A row that is asked less, and cannot be sent again when it could not before, fits. *)
LEMMA FitsLess ==
  ASSUME NEW A, NEW B \in SUBSET A, NEW m \in Nat, NEW n \in Nat, NEW row, NEW now,
         Fit(A, m, row, n), Keyed(row) => Keyed(now)
  PROVE  Fit(B, m, now, n)
<1>1. IsFiniteSet(A)
  BY DEF Fit
<1>2. IsFiniteSet(B) /\ Cardinality(B) <= Cardinality(A)
  BY <1>1, FS_Subset
<1>3. Cardinality(B) \in Nat /\ Cardinality(A) \in Nat
  BY <1>1, <1>2, FS_CardinalityType
<1>4. SendsLeft(now) \in {0, 1} /\ SendsLeft(row) \in {0, 1} /\ SendsLeft(now) <= SendsLeft(row)
  BY DEF SendsLeft
<1> QED BY <1>2, <1>3, <1>4 DEF Fit

(* A worker that asked, and asks no more, leaves room for one email, or for one send. *)
LEMMA FitsWithout ==
  ASSUME NEW A, NEW w \in A, NEW m \in Nat, NEW n \in Nat, NEW row, Fit(A, m, row, n)
  PROVE  /\ \A taken \in {0, 1} : Fit(A \ {w}, m + taken, row, n)
         /\ \A now : Fit(A \ {w}, m, now, n)
<1>1. /\ IsFiniteSet(A \ {w})
      /\ Cardinality(A \ {w}) = Cardinality(A) - 1 /\ Cardinality(A) \in Nat
  BY FS_RemoveElement, FS_CardinalityType DEF Fit
<1>2. SendsLeft(row) \in {0, 1} /\ \A now : SendsLeft(now) \in {0, 1}
  BY DEF SendsLeft
<1>3. ASSUME NEW taken \in {0, 1} PROVE Fit(A \ {w}, m + taken, row, n)
  BY <1>1, <1>2, <1>3 DEF Fit
<1>4. ASSUME NEW now PROVE Fit(A \ {w}, m, now, n)
  BY <1>1, <1>2, <1>4 DEF Fit
<1> QED BY <1>3, <1>4

(* A worker begins to ask what nobody could ask again but it. *)
LEMMA FitsWith ==
  ASSUME NEW A, NEW w, NEW m \in Nat, NEW n \in Nat, NEW row, NEW now,
         Fit(A, m, row, n), w \notin A, ~Keyed(row), Keyed(now)
  PROVE  Fit(A \cup {w}, m, now, n)
<1>1. /\ IsFiniteSet(A \cup {w})
      /\ Cardinality(A \cup {w}) = Cardinality(A) + 1 /\ Cardinality(A) \in Nat
  BY FS_AddElement, FS_CardinalityType DEF Fit
<1>2. SendsLeft(row) = 1 /\ SendsLeft(now) = 0
  BY DEF SendsLeft
<1> QED BY <1>1, <1>2 DEF Fit

(* The code is misled: WorkOS has one more than it knows of, or a row may be sent anew. *)
LEMMA FitsMisled ==
  ASSUME NEW A, NEW m \in Nat, NEW n \in Nat, NEW row, Fit(A, m, row, n)
  PROVE  /\ \A taken \in {0, 1} : Fit(A, m + taken, row, n + taken)
         /\ \A now : Fit(A, m, now, n + 1)
<1>1. IsFiniteSet(A) /\ Cardinality(A) \in Nat
  BY FS_CardinalityType DEF Fit
<1>2. SendsLeft(row) \in {0, 1} /\ \A now : SendsLeft(now) \in {0, 1}
  BY DEF SendsLeft
<1>3. ASSUME NEW taken \in {0, 1} PROVE Fit(A, m + taken, row, n + taken)
  BY <1>1, <1>2, <1>3 DEF Fit
<1>4. ASSUME NEW now PROVE Fit(A, m, now, n + 1)
  BY <1>1, <1>2, <1>4 DEF Fit
<1> QED BY <1>3, <1>4

(* Whatever leaves the senders alone and lets no keyed row be sent again is harmless. *)
LEMMA MailFrame ==
  ASSUME InviteTypeOK, MailFits, UNCHANGED <<sender, mailed, misled>>,
         \A i \in Invitation : Keyed(invitation[i]) => Keyed(invitation[i]')
  PROVE MailFits'
<1> SUFFICES ASSUME NEW i \in Invitation
             PROVE Fit(Asking(i)', mailed[i], invitation'[i], misled[i])
  BY DEF MailFits
<1>1. Asking(i)' = Asking(i) /\ Asking(i) \in SUBSET Asking(i)
  BY DEF Asking
<1>2. mailed[i] \in Nat /\ misled[i] \in Nat
  BY DEF InviteTypeOK
<1>3. Fit(Asking(i), mailed[i], invitation[i], misled[i])
  BY DEF MailFits
<1> QED BY <1>1, <1>2, <1>3, FitsLess

LEMMA SweptKeyed ==
  ASSUME InviteTypeOK, NEW i \in Invitation, Keyed(invitation[i])
  PROVE Keyed(Swept.rows[i])
BY SweptFacts DEF Keyed

(* Every request about an invitation leaves what was sent as it is. *)
LEMMA RequestMail ==
  ASSUME InviteTypeOK, MailFits, NEW i \in Invitation, InviteRequest(i)
  PROVE MailFits'
<1> SUFFICES /\ UNCHANGED <<sender, mailed, misled>>
             /\ \A j \in Invitation : Keyed(invitation[j]) => Keyed(invitation[j]')
  BY MailFrame
<1>types. invitation \in [Invitation -> Row]
  BY DEF InviteTypeOK, Row
<1>unkeyed. ASSUME NEW j \in Invitation, NextRow(j) PROVE ~Keyed(invitation[j])
  <2>1. invitation[j].status = "none"
    BY <1>unkeyed DEF NextRow, Invitation
  <2> QED BY <2>1 DEF Keyed
<1>1. CASE InviteSetup(i)
  BY <1>types, <1>unkeyed, <1>1 DEF InviteSetup
<1>2. CASE InviteNow(i)
  BY <1>types, <1>unkeyed, <1>2 DEF InviteNow, Drifts
<1>3. CASE InviteAgain(i)
  BY <1>types, <1>3, SweptKeyed DEF InviteAgain, Drifts
<1>4. CASE Withdraw(i)
  BY <1>types, <1>4 DEF Withdraw, Keyed, Row
<1>5. CASE ComesLate(i)
  BY <1>5 DEF ComesLate
<1>6. ASSUME NEW next \in Invitation, ResendNow(i, next) \/ ResendSetup(i, next)
      PROVE /\ UNCHANGED <<sender, mailed, misled>>
            /\ \A j \in Invitation : Keyed(invitation[j]) => Keyed(invitation[j]')
  <2>1. UNCHANGED <<sender, mailed, misled>>
    BY <1>6 DEF ResendNow, ResendSetup, Drifts
  <2>2. CASE UNCHANGED invitation
    BY <2>1, <2>2
  <2>3. ASSUME NEW as, invitation' = Superseded(i, next, as)
        PROVE \A j \in Invitation : Keyed(invitation[j]) => Keyed(invitation[j]')
    <3> SUFFICES ASSUME NEW j \in Invitation, Keyed(invitation[j]) PROVE Keyed(invitation'[j])
      OBVIOUS
    <3>1. NextRow(next)
      BY <1>6 DEF ResendNow, ResendSetup, Resendable
    <3>2. j # next
      BY <1>unkeyed, <3>1
    <3>3. CASE j = i
      <4>1. invitation'[j].status = "resent"
        BY <2>3, <3>2, <3>3, SweptFacts DEF Superseded, Row
      <4> QED BY <4>1 DEF Keyed
    <3>4. CASE j # i
      <4>1. invitation'[j] = Swept.rows[j]
        BY <2>3, <3>2, <3>4, SweptFacts DEF Superseded
      <4> QED BY <4>1, SweptKeyed
    <3> QED BY <3>3, <3>4
  <2>4. UNCHANGED invitation \/ \E as : invitation' = Superseded(i, next, as)
    BY <1>6 DEF ResendNow, ResendSetup, Drifts
  <2> QED BY <2>1, <2>2, <2>3, <2>4
<1> QED BY <1>1, <1>2, <1>3, <1>4, <1>5, <1>6 DEF InviteRequest

LEMMA DeliversKeyed ==
  ASSUME NEW rows \in [Invitation -> Row], NEW i \in Invitation, Delivers(rows, i),
         NEW j \in Invitation, Keyed(rows[j])
  PROVE Keyed(invitation'[j])
BY DEF Delivers, Keyed, Row

(* Every step of a setup leaves what was sent as it is. *)
LEMMA SetupMail ==
  ASSUME InviteTypeOK, MailFits, NEW i \in Invitation, SetupStep(i)
  PROVE MailFits'
<1> SUFFICES /\ UNCHANGED <<sender, mailed, misled>>
             /\ \A j \in Invitation : Keyed(invitation[j]) => Keyed(invitation'[j])
  BY MailFrame
<1>types. invitation \in [Invitation -> Row]
  BY DEF InviteTypeOK, Row
<1>1. CASE StepCancels(i) \/ StepRevoked(i) \/ Wake(i)
  BY <1>1 DEF StepCancels, StepRevoked, Wake
<1>2. CASE StepDelivers(i)
  <2>1. UNCHANGED <<sender, mailed, misled>> /\ (UNCHANGED invitation \/ Delivers(invitation, i))
    BY <1>2 DEF StepDelivers, Drifts
  <2> QED BY <1>types, <2>1, DeliversKeyed
<1>3. CASE StepReserves(i)
  <2>1. /\ UNCHANGED <<sender, mailed, misled>>
        /\ UNCHANGED invitation \/ invitation' = Swept.rows \/ Delivers(Swept.rows, i)
    BY <1>3 DEF StepReserves, Drifts
  <2>2. CASE Delivers(Swept.rows, i)
    BY <2>1, <2>2, DeliversKeyed, SweptKeyed, SweptFacts
  <2> QED BY <2>1, <2>2, SweptKeyed
<1> QED BY <1>1, <1>2, <1>3 DEF SetupStep

(* Every step of a sender adds to what was accepted and asked only what it takes from
   what may be asked, or what the code is misled by. *)
LEMMA SenderMail ==
  ASSUME InviteTypeOK, MailFits, NEW w \in Sender, SendStep(w)
  PROVE MailFits'
<1> DEFINE i == sender[w].of
<1>types. /\ invitation \in [Invitation -> Row] /\ sender \in [Sender -> SenderRow]
      /\ mailed \in [Invitation -> Nat] /\ misled \in [Invitation -> Nat]
  BY DEF InviteTypeOK, Row, SenderRow
<1>fits. \A k \in Invitation : Fit(Asking(k), mailed[k], invitation[k], misled[k])
  BY DEF MailFits
<1>of. \A v \in Sender : sender[v].at # "idle" => sender[v].of \in Invitation
  BY DEF MailFits
<1>goes. ASSUME NEW j \in Invitation, NEW at, Goes(w, at, j)
      PROVE /\ \A v \in Sender : sender'[v].at # "idle" => sender'[v].of \in Invitation
            /\ \A k \in Invitation :
                 Asking(k)' = IF k = j /\ at \in {"calling", "unavailable"}
                              THEN Asking(k) \cup {w} ELSE Asking(k) \ {w}
  <2>1. /\ \A v \in Sender : v # w => sender'[v] = sender[v]
        /\ sender'[w] = [at |-> at, of |-> j]
    BY <1>types, <1>goes DEF Goes
  <2>2. \A k \in Invitation, v \in Sender : v \in Asking(k)' <=>
          IF v = w THEN k = j /\ at \in {"calling", "unavailable"} ELSE v \in Asking(k)
    BY <2>1 DEF Asking
  <2>3. \A k \in Invitation : Asking(k) \subseteq Sender /\ Asking(k)' \subseteq Sender
    BY DEF Asking
  <2> QED BY <1>of, <2>1, <2>2, <2>3
\* a worker comes to rest, and only one that asked unlocks its row
<1>rests. ASSUME Rests(w), ~Does(w, "idle"), UNCHANGED <<mailed, misled>>,
               \A k \in Invitation : k # i => invitation'[k] = invitation[k],
               w \in Asking(i) \/ (Keyed(invitation[i]) => Keyed(invitation'[i]))
        PROVE MailFits'
  <2>1. /\ \A v \in Sender : v # w => sender'[v] = sender[v]
        /\ sender'[w] = Resting
    BY <1>types, <1>rests DEF Rests
  <2>2. \A k \in Invitation : Asking(k)' = Asking(k) \ {w}
    BY <2>1 DEF Asking, Resting
  <2>3. \A v \in Sender : sender'[v].at # "idle" => sender'[v].of \in Invitation
    BY <1>of, <2>1 DEF Resting
  <2>4. ASSUME NEW k \in Invitation
        PROVE Fit(Asking(k) \ {w}, mailed[k], invitation'[k], misled[k])
    <3>1. CASE k = i /\ w \in Asking(i)
      BY <1>types, <1>fits, <3>1, FitsWithout
    <3>2. CASE Keyed(invitation[k]) => Keyed(invitation'[k])
      <4>1. Asking(k) \ {w} \in SUBSET Asking(k)
        OBVIOUS
      <4> QED BY <1>types, <1>fits, <3>2, <4>1, FitsLess
    <3> QED BY <1>rests, <3>1, <3>2
  <2> QED BY <1>rests, <2>2, <2>3, <2>4 DEF MailFits
<1>records. ASSUME NEW j \in Invitation, NEW d \in {"delivered", "failed", "stuck"}, NEW b \in BOOLEAN,
              Recorded(j, d, b)
       PROVE /\ \A k \in Invitation \ {j} : invitation'[k] = invitation[k]
             /\ d = "stuck" \/ b => (Keyed(invitation[j]) => Keyed(invitation'[j]))
  BY <1>types, <1>records DEF Recorded, Keyed, Row
<1>1. ASSUME NEW j \in Invitation, SendNothing(w, j) PROVE MailFits'
  <2>1. UNCHANGED <<sender, mailed, misled>>
    BY <1>1 DEF SendNothing
  <2>2. ASSUME NEW k \in Invitation, Keyed(invitation[k]) PROVE Keyed(invitation'[k])
    <3>1. Keyed(Swept.rows[k])
      BY <2>2, SweptKeyed
    <3>2. CASE Swept.rows[j].status = "pending"
      <4>1. invitation' = [Swept.rows EXCEPT ![j].delivery = "delivered"] /\ Swept.rows[j].workos
        BY <1>1, <3>2 DEF SendNothing, Deliverable
      <4> QED BY <3>1, <4>1, SweptFacts DEF Keyed, Row
    <3>3. CASE Swept.rows[j].status # "pending"
      BY <1>1, <3>1, <3>3 DEF SendNothing
    <3> QED BY <3>2, <3>3
  <2> QED BY <2>1, <2>2, MailFrame
<1>2. ASSUME NEW j \in Invitation, SendRefused(w, j) PROVE MailFits'
  <2>1. Goes(w, "failing", j) /\ UNCHANGED <<mailed, misled>>
    BY <1>2 DEF SendRefused
  <2>2. \A k \in Invitation : Asking(k)' \in SUBSET Asking(k)
    BY <1>goes, <2>1
  <2>3. \A k \in Invitation : Keyed(invitation[k]) => Keyed(invitation'[k])
    BY <1>2, SweptKeyed DEF SendRefused
  <2>4. \A k \in Invitation : Fit(Asking(k)', mailed[k], invitation'[k], misled[k])
    BY <1>types, <1>fits, <2>2, <2>3, FitsLess
  <2> QED BY <1>goes, <2>1, <2>4 DEF MailFits
<1>3. ASSUME NEW j \in Invitation, SendBegins(w, j) PROVE MailFits'
  <2>1. Goes(w, "calling", j) /\ UNCHANGED <<mailed, misled>> /\ sender[w].at = "idle"
    BY <1>3 DEF SendBegins, Begin, Does
  <2>2. invitation' = [Swept.rows EXCEPT ![j].delivery = "sending"]
    BY <1>3 DEF SendBegins
  <2>3. Swept.rows[j].status = "pending" /\ ~Swept.rows[j].workos
        /\ Swept.rows[j].delivery \notin {"sending", "stuck"}
    BY <1>3 DEF SendBegins, Deliverable, MaySend
  <2>4. ~Keyed(Swept.rows[j])
    BY <2>3 DEF Keyed
  <2>5. ~Keyed(invitation[j]) /\ Keyed(invitation'[j])
    BY <2>2, <2>3, <2>4, SweptKeyed, SweptFacts DEF Keyed, Row
  <2>6. \A k \in Invitation : w \notin Asking(k)
    BY <2>1 DEF Asking
  <2>7. ASSUME NEW k \in Invitation
        PROVE Fit(Asking(k)', mailed[k], invitation'[k], misled[k])
    <3>1. CASE k = j
      <4>1. Asking(k)' = Asking(k) \cup {w}
        BY <1>goes, <2>1, <3>1
      <4> QED BY <1>types, <1>fits, <2>5, <2>6, <3>1, <4>1, FitsWith
    <3>2. CASE k # j
      <4>1. Asking(k)' = Asking(k) \ {w}
        BY <1>goes, <2>1, <3>2
      <4>2. invitation'[k] = Swept.rows[k]
        BY <2>2, <3>2, SweptFacts
      <4>3. Asking(k) \ {w} \in SUBSET Asking(k)
        OBVIOUS
      <4> QED BY <1>types, <1>fits, <4>1, <4>2, <4>3, SweptKeyed, FitsLess
    <3> QED BY <3>1, <3>2
  <2> QED BY <1>goes, <2>1, <2>7 DEF MailFits
<1>4. ASSUME NEW answer \in {"accepted", "unavailable", "refused"}, NEW taken \in {0, 1},
             CallWorkos(w, answer, taken)
      PROVE MailFits'
  <2>1. i \in Invitation /\ w \in Asking(i) /\ \A k \in Invitation : k # i => w \notin Asking(k)
    BY <1>4, <1>of DEF CallWorkos, Does, Asking
  <2>2. Goes(w, answer, i) /\ UNCHANGED invitation
    BY <1>4 DEF CallWorkos
  <2>3. /\ \A k \in Invitation : k # i => mailed'[k] = mailed[k] /\ misled'[k] = misled[k]
        /\ mailed'[i] = mailed[i] + taken
        /\ misled'[i] = IF answer = "unavailable" THEN misled[i] + taken ELSE misled[i]
    BY <1>types, <1>4, <2>1 DEF CallWorkos
  <2>4. \A k \in Invitation : Asking(k)' =
          IF k = i /\ answer # "unavailable" THEN Asking(k) \ {w} ELSE Asking(k)
    BY <1>goes, <2>1, <2>2
  <2>5. ASSUME NEW k \in Invitation
        PROVE Fit(Asking(k)', mailed'[k], invitation'[k], misled'[k])
    <3>1. CASE k # i
      BY <1>fits, <2>2, <2>3, <2>4, <3>1
    <3>2. CASE k = i /\ answer = "unavailable"
      <4>1. Fit(Asking(i), mailed[i] + taken, invitation[i], misled[i] + taken)
        BY <1>types, <1>fits, <2>1, FitsMisled
      <4>2. Asking(k)' = Asking(i) /\ invitation'[k] = invitation[i]
        BY <2>2, <2>4, <3>2
      <4>3. mailed'[k] = mailed[i] + taken /\ misled'[k] = misled[i] + taken
        BY <2>3, <3>2
      <4> QED BY <4>1, <4>2, <4>3
    <3>3. CASE k = i /\ answer # "unavailable"
      <4>1. Fit(Asking(i) \ {w}, mailed[i] + taken, invitation[i], misled[i])
        BY <1>types, <1>fits, <2>1, FitsWithout
      <4>2. Asking(k)' = Asking(i) \ {w} /\ invitation'[k] = invitation[i]
        BY <2>2, <2>4, <3>3
      <4>3. mailed'[k] = mailed[i] + taken /\ misled'[k] = misled[i]
        BY <2>3, <3>3
      <4> QED BY <4>1, <4>2, <4>3
    <3> QED BY <3>1, <3>2, <3>3
  <2> QED BY <1>goes, <2>1, <2>2, <2>5 DEF MailFits
<1>5. CASE RecordDelivered(w)
  <2>1. i \in Invitation
    BY <1>5, <1>of DEF RecordDelivered, Does
  <2> QED BY <1>records, <1>rests, <1>5, <2>1 DEF RecordDelivered, Does
<1>6. CASE RecordCommitFails(w)
  <2>1. i \in Invitation
    BY <1>6, <1>of DEF RecordCommitFails, Does
  <2> QED BY <1>records, <1>rests, <1>6, <2>1 DEF RecordCommitFails, Does
<1>7. CASE RecordFailed(w)
  <2>1. i \in Invitation
    BY <1>7, <1>of DEF RecordFailed
  <2>2. Does(w, "unavailable") => w \in Asking(i)
    BY DEF Does, Asking
  <2> QED BY <1>records, <1>rests, <1>7, <2>1, <2>2 DEF RecordFailed, Does
<1>8. CASE SenderLost(w)
  BY <1>rests, <1>8 DEF SenderLost
<1>9. ASSUME NEW j \in Invitation, SendUnconfigured(w, j) PROVE MailFits'
  <2>1. /\ UNCHANGED <<sender, mailed>>
        /\ invitation[j].status = "pending" /\ invitation[j].delivery # "stuck"
        /\ invitation' = [invitation EXCEPT ![j].delivery = "failed"]
        /\ misled' = IF invitation[j].delivery = "sending" /\ MayHaveIt(j)
                     THEN [misled EXCEPT ![j] = @ + 1] ELSE misled
    BY <1>9 DEF SendUnconfigured, Pending
  <2>2. \A k \in Invitation : Asking(k)' = Asking(k)
    BY <2>1 DEF Asking
  <2>3. ASSUME NEW k \in Invitation
        PROVE Fit(Asking(k), mailed[k], invitation'[k], misled'[k])
    <3>1. CASE k # j
      BY <1>types, <1>fits, <2>1, <3>1
    <3>2. CASE k = j /\ invitation[j].delivery # "sending"
      <4>1. Keyed(invitation[k]) => Keyed(invitation'[k])
        BY <1>types, <2>1, <3>2 DEF Keyed, Row
      <4>2. misled'[k] = misled[k] /\ Asking(k) \in SUBSET Asking(k)
        BY <2>1, <3>2
      <4> QED BY <1>types, <1>fits, <4>1, <4>2, FitsLess
    <3>3. CASE k = j /\ invitation[j].delivery = "sending" /\ MayHaveIt(j)
      <4>1. misled'[k] = misled[k] + 1
        BY <1>types, <2>1, <3>3
      <4> QED BY <1>types, <1>fits, <4>1, FitsMisled
    <3>4. CASE k = j /\ ~MayHaveIt(j)
      <4>1. mailed[k] = 0 /\ Asking(k) = {} /\ misled'[k] = misled[k]
        BY <1>types, <2>1, <3>4 DEF MayHaveIt
      <4>2. SendsLeft(invitation'[k]) \in {0, 1} /\ misled[k] \in Nat
        BY <1>types DEF SendsLeft
      <4>3. IsFiniteSet({}) /\ Cardinality({}) = 0
        BY FS_EmptySet
      <4> QED BY <4>1, <4>2, <4>3 DEF Fit
    <3> QED BY <3>1, <3>2, <3>3, <3>4
  <2> QED BY <1>of, <2>1, <2>2, <2>3 DEF MailFits
<1> QED BY <1>1, <1>2, <1>3, <1>4, <1>5, <1>6, <1>7, <1>8, <1>9 DEF SendStep

(* Joining and drifting seats leave what was sent as it is. *)
LEMMA SeatMail ==
  ASSUME InviteTypeOK, MailFits, NEW c \in Seat, SeatStep(c)
  PROVE MailFits'
<1>1. ASSUME NEW i \in Invitation, Join(i, c) PROVE MailFits'
  <2>1. UNCHANGED <<sender, mailed, misled>>
    BY <1>1 DEF Join, Drifts
  <2>2. \A j \in Invitation : Keyed(invitation[j]) => Keyed(invitation'[j])
    BY <1>1 DEF Join, Drifts, Keyed, InviteTypeOK
  <2> QED BY <2>1, <2>2, MailFrame
<1>2. ASSUME UNCHANGED <<invitation, sender, mailed, misled>> PROVE MailFits'
  BY <1>2, MailFrame
<1> QED BY <1>1, <1>2 DEF SeatStep, Prove, GrantChanges, QuarantineSeat, ReportLost, Drifts

LEMMA MailFitsStep == InviteTypeOK /\ MailFits /\ [InviteNext]_inviteVars => MailFits'
<1> SUFFICES ASSUME InviteTypeOK, MailFits, [InviteNext]_inviteVars PROVE MailFits'
  OBVIOUS
<1>1. CASE ExpireInvitations
  BY <1>1, SweptKeyed, MailFrame DEF ExpireInvitations
<1>2. CASE ProofTooOld \/ UNCHANGED inviteVars
  BY <1>2, MailFrame DEF ProofTooOld, inviteVars
<1> QED BY <1>1, <1>2, RequestMail, SetupMail, SenderMail, SeatMail DEF InviteNext

LEMMA MailStart == InviteInit => MailFits
<1> SUFFICES ASSUME InviteInit PROVE MailFits
  OBVIOUS
<1>1. \A i \in Invitation : Asking(i) = {} /\ mailed[i] = 0 /\ misled[i] = 0
  BY DEF InviteInit, Asking, Resting
<1>2. IsFiniteSet({}) /\ Cardinality({}) = 0
  BY FS_EmptySet
<1>3. \A i \in Invitation : Fit(Asking(i), mailed[i], invitation[i], misled[i])
  <2> TAKE i \in Invitation
  <2>1. SendsLeft(invitation[i]) \in {0, 1}
    BY DEF SendsLeft
  <2> QED BY <1>1, <1>2, <2>1 DEF Fit
<1> QED BY <1>3 DEF MailFits, InviteInit, Resting

LEMMA FittingIsOnce == InviteTypeOK /\ MailFits => InvitedOnceUnlessMisled
<1> SUFFICES ASSUME InviteTypeOK, MailFits, NEW i \in Invitation
             PROVE mailed[i] <= 1 + misled[i]
  BY DEF InvitedOnceUnlessMisled
<1>1. Fit(Asking(i), mailed[i], invitation[i], misled[i])
  BY DEF MailFits
<1>2. Cardinality(Asking(i)) \in Nat /\ SendsLeft(invitation[i]) \in {0, 1}
  BY <1>1, FS_CardinalityType DEF Fit, SendsLeft
<1>3. mailed[i] \in Nat /\ misled[i] \in Nat
  BY DEF InviteTypeOK
<1> QED BY <1>1, <1>2, <1>3 DEF Fit

(* InvitedOnceUnlessMisled always holds: whatever worker of runWorkosSync is lost or
   outlives its lease, WorkOS accepts the email of an invitation once, and once more
   only for an email that it took and answered with 5xx, or for a claim that found
   WorkOS not configured and gave up a row that was being sent. *)
THEOREM InvitedOnceUnlessMisledAlways == InviteSpec => []InvitedOnceUnlessMisled
BY MailStart, FittingIsOnce, InviteStart, InviteTypes, MailFitsStep, PTL DEF InviteSpec

-----------------------------------------------------------------------------
(* Invitations: capacity *)

(* These seats are held by whom they should be, were these the rows. *)
Fits(seats, rows, astray) ==
  /\ \A c \in Seat : seats[c].state \in {"reserved", "assigned"} <=> seats[c].holder # NoInvitation
  /\ \A c \in Seat : seats[c].state = "reserved" =>
       /\ rows[seats[c].holder].status # "none"
       /\ seats[c].holder \notin astray => rows[seats[c].holder].status = "pending"
  /\ \A c \in Seat : seats[c].state = "assigned" => rows[seats[c].holder].status = "accepted"
  /\ \A i \in Invitation : rows[i].status = "accepted" =>
       \E c \in Seat : seats[c] = [state |-> "assigned", holder |-> i]
  /\ \A c, d \in Seat : c # d /\ seats[c].holder = seats[d].holder => seats[c].holder = NoInvitation

CapacityFits == Fits(seat, invitation, strayed)

(* A seat held by an invitation is reserved for it, or the one of somebody who joined. *)
LEMMA Holder ==
  ASSUME NEW seats \in [Seat -> SeatRow], NEW c \in Seat, NEW i
  PROVE c \in HeldBy(seats, i) <=> seats[c].state = "reserved" /\ seats[c].holder = i
BY DEF HeldBy, SeatRow

(* Only the statuses of the rows matter. *)
LEMMA SameStatus ==
  ASSUME NEW seats \in [Seat -> SeatRow], NEW rows, NEW others, NEW astray,
         Fits(seats, rows, astray),
         \A i \in Invitation : others[i].status = rows[i].status
  PROVE Fits(seats, others, astray)
<1>1. \A c \in Seat : seats[c].holder # NoInvitation => seats[c].holder \in Invitation
  BY DEF SeatRow
<1> QED BY <1>1, NoInvitationIsNone DEF Fits

(* Releasing the seats reserved for some rows leaves the others fitting, also when those
   rows stop being pending. *)
LEMMA ReleaseFits ==
  ASSUME NEW seats \in [Seat -> SeatRow], NEW rows, NEW others, NEW astray, NEW gone \in SUBSET Invitation,
         Fits(seats, rows, astray),
         \A i \in Invitation \ gone : others[i].status = rows[i].status,
         \A i \in gone : others[i].status = "accepted" <=> rows[i].status = "accepted"
  PROVE Fits(Released(seats, gone), others, astray)
<1>1. \A c \in Seat : seats[c].holder # NoInvitation => seats[c].holder \in Invitation
  BY DEF SeatRow
<1>2. \A c \in Seat : Released(seats, gone)[c] =
        IF seats[c].state = "reserved" /\ seats[c].holder \in gone THEN FreeSeat ELSE seats[c]
  BY Holder DEF Released
<1> DEFINE after == Released(seats, gone)
<1>3. \A c \in Seat : after[c] \in {seats[c], FreeSeat}
  BY <1>2
<1>4. \A c \in Seat : after[c].holder # NoInvitation =>
        after[c] = seats[c] /\ (seats[c].state = "assigned" \/ seats[c].holder \notin gone)
  BY <1>2 DEF FreeSeat, Fits, SeatRow
<1>5. \A c \in Seat : after[c].state \in {"reserved", "assigned"} <=> after[c].holder # NoInvitation
  BY <1>3 DEF Fits, FreeSeat
<1>6. ASSUME NEW c \in Seat, after[c].state = "reserved"
      PROVE /\ others[after[c].holder].status # "none"
            /\ after[c].holder \notin astray => others[after[c].holder].status = "pending"
  <2>1. after[c] = seats[c] /\ seats[c].holder \in Invitation \ gone
    BY <1>1, <1>4, <1>5, <1>6
  <2> HIDE DEF after
  <2> QED BY <1>6, <2>1 DEF Fits
<1>7. ASSUME NEW c \in Seat, after[c].state = "assigned"
      PROVE others[after[c].holder].status = "accepted"
  <2>1. after[c] = seats[c] /\ seats[c].holder \in Invitation
    BY <1>1, <1>4, <1>5, <1>7
  <2>2. rows[seats[c].holder].status = "accepted"
    BY <1>7, <2>1 DEF Fits
  <2> QED BY <2>1, <2>2
<1>8. ASSUME NEW i \in Invitation, others[i].status = "accepted"
      PROVE \E c \in Seat : after[c] = [state |-> "assigned", holder |-> i]
  <2>1. rows[i].status = "accepted"
    BY <1>8
  <2>2. PICK c \in Seat : seats[c] = [state |-> "assigned", holder |-> i]
    BY <2>1 DEF Fits
  <2>3. after[c] = seats[c]
    BY <1>2, <2>2
  <2> QED BY <2>2, <2>3
<1>9. \A c, d \in Seat : c # d /\ after[c].holder = after[d].holder => after[c].holder = NoInvitation
  <2> HIDE DEF after
  <2> QED BY <1>4 DEF Fits
<1> HIDE DEF after
<1>10. Fits(after, others, astray)
  BY <1>5, <1>6, <1>7, <1>8, <1>9 DEF Fits
<1> QED BY <1>10 DEF after

(* What expireInvitationReservations leaves fits. *)
LEMMA SweptFits ==
  ASSUME InviteTypeOK, CapacityFits
  PROVE Fits(Swept.seats, Swept.rows, strayed)
<1>1. seat \in [Seat -> SeatRow]
  BY DEF InviteTypeOK, SeatRow
<1>2. Swept.seats = Released(seat, Expiring)
  BY DEF Swept
<1>3. \A i \in Invitation \ Expiring : Swept.rows[i].status = invitation[i].status
  BY SweptFacts
<1>4. \A i \in Expiring : invitation[i].status # "accepted" /\ Swept.rows[i].status # "accepted"
  BY SweptFacts DEF Pending
<1> QED BY <1>1, <1>2, <1>3, <1>4, SweptFacts, ReleaseFits DEF CapacityFits

(* reserveCapacityForInvitation finds the seat a row has, or gives it one: to a row that
   is pending, or that strays because it expired in this very transaction. *)
LEMMA ReserveFits ==
  ASSUME NEW seats \in [Seat -> SeatRow], NEW rows, NEW i \in Invitation,
         Fits(seats, rows, strayed), Reserves(seats, i),
         rows[i].status = "pending" \/ (rows[i].status = "expired" /\ i \in Expiring)
  PROVE Fits(seat', rows, strayed')
<1>strays. strayed' = strayed \cup ({i} \cap Expiring)
  BY DEF Reserves
<1>1. CASE HeldBy(seats, i) # {}
  BY <1>strays, <1>1 DEF Reserves, Fits
<1>2. CASE HeldBy(seats, i) = {}
  <2>1. PICK c \in Available(seats) : seat' = [seats EXCEPT ![c] = [state |-> "reserved", holder |-> i]]
    BY <1>2 DEF Reserves
  <2>2. c \in Seat /\ seats[c].state = "available" /\ seats[c].holder = NoInvitation
    BY <2>1 DEF Available, Fits
  <2>3. \A d \in Seat : seats[d].holder # i
    <3> SUFFICES ASSUME NEW d \in Seat, seats[d].holder = i PROVE FALSE
      OBVIOUS
    <3>1. seats[d].state \in {"reserved", "assigned"}
      BY NoInvitationIsNone DEF Fits
    <3>2. seats[d].state = "reserved"
      BY <3>1 DEF Fits
    <3> QED BY <1>2, <3>2, Holder
  <2>4. /\ \A d \in Seat : d # c => seat'[d] = seats[d]
        /\ seat'[c] = [state |-> "reserved", holder |-> i]
    BY <2>1, <2>2
  <2>5. \A d \in Seat : seat'[d].state \in {"reserved", "assigned"} <=> seat'[d].holder # NoInvitation
    BY <2>4, NoInvitationIsNone DEF Fits
  <2>6. ASSUME NEW d \in Seat, seat'[d].state = "reserved"
        PROVE /\ rows[seat'[d].holder].status # "none"
              /\ seat'[d].holder \notin strayed' => rows[seat'[d].holder].status = "pending"
    BY <1>strays, <2>4, <2>6 DEF Fits
  <2>7. ASSUME NEW d \in Seat, seat'[d].state = "assigned" PROVE rows[seat'[d].holder].status = "accepted"
    BY <2>4, <2>7 DEF Fits
  <2>8. ASSUME NEW j \in Invitation, rows[j].status = "accepted"
        PROVE \E d \in Seat : seat'[d] = [state |-> "assigned", holder |-> j]
    <3>1. PICK d \in Seat : seats[d] = [state |-> "assigned", holder |-> j]
      BY <2>8 DEF Fits
    <3> QED BY <2>2, <2>4, <3>1
  <2>9. \A d, e \in Seat : d # e /\ seat'[d].holder = seat'[e].holder => seat'[d].holder = NoInvitation
    BY <2>3, <2>4 DEF Fits
  <2> QED BY <2>5, <2>6, <2>7, <2>8, <2>9 DEF Fits
<1> QED BY <1>1, <1>2

(* A row that takes another's place, with its seat or without one to take. *)
LEMMA SupersededFits ==
  ASSUME InviteTypeOK, CapacityFits, NEW i \in Invitation, NEW next \in Invitation,
         NEW as \in {Queued, Unsent}, Resendable(i, next)
  PROVE /\ Fits(Transferred(i, next), Superseded(i, next, as), strayed)
        /\ HeldBy(Swept.seats, i) = {} => Fits(Swept.seats, Superseded(i, next, as), strayed)
        /\ Superseded(i, next, as)[next].status = "pending"
<1> DEFINE rows == Superseded(i, next, as)
           seats == Transferred(i, next)
<1>1. invitation[next].status = "none" /\ invitation[i].status \in {"pending", "expired"} /\ i # next
  BY DEF Resendable, NextRow, Invitation
<1>2. Swept.rows[next].status = "none" /\ Swept.rows[i].status \in {"pending", "expired"}
  BY <1>1, SweptFacts DEF Pending
<1>3. /\ rows[i].status = "resent" /\ rows[next].status = "pending"
      /\ \A j \in Invitation \ {i, next} : rows[j] = Swept.rows[j]
  <2>1. as.status = "pending"
    <3>1. Unsent.status = "pending"
      BY DEF Unsent
    <3>2. Queued.status = "pending"
      BY DEF Queued, Unsent
    <3> QED BY <3>1, <3>2
  <2>2. Swept.rows \in [Invitation -> Row]
    BY SweptFacts
  <2>3. rows = [Swept.rows EXCEPT ![i] = [Swept.rows[i] EXCEPT !.status = "resent"], ![next] = as]
    BY <2>2 DEF Superseded
  <2>4. [Swept.rows[i] EXCEPT !.status = "resent"].status = "resent"
    BY <2>2 DEF Row
  <2> HIDE DEF rows
  <2> QED BY <1>1, <2>1, <2>2, <2>3, <2>4
<1>4. \A c \in Seat : /\ Swept.seats[c].holder # next
                      /\ Swept.seats[c].holder # NoInvitation => Swept.seats[c].holder \in Invitation
  BY <1>2, SweptFits, SweptFacts, NoInvitationIsNone DEF Fits, SeatRow
<1>5. \A c \in Seat : Swept.seats[c].holder = i => Swept.seats[c].state = "reserved"
  BY <1>2, SweptFits, NoInvitationIsNone DEF Fits
<1>6. \A c \in Seat : seats[c] = IF Swept.seats[c].holder = i
                                 THEN [state |-> "reserved", holder |-> next] ELSE Swept.seats[c]
  BY <1>5, Holder, SweptFacts DEF Transferred
<1>7. HeldBy(Swept.seats, i) = {} => \A c \in Seat : Swept.seats[c].holder # i
  <2>1. ASSUME NEW c \in Seat, Swept.seats[c].holder = i PROVE c \in HeldBy(Swept.seats, i)
    BY <1>5, <2>1, Holder, SweptFacts
  <2> QED BY <2>1
<1>8. Fits(Swept.seats, Swept.rows, strayed)
  BY SweptFits
<1> HIDE DEF rows, seats
<1>9. Fits(seats, rows, strayed)
  <2>1. \A c \in Seat : seats[c].state \in {"reserved", "assigned"} <=> seats[c].holder # NoInvitation
    BY <1>6, <1>8, NoInvitationIsNone DEF Fits
  <2>2. ASSUME NEW c \in Seat, seats[c].state = "reserved"
        PROVE /\ rows[seats[c].holder].status # "none"
              /\ seats[c].holder \notin strayed => rows[seats[c].holder].status = "pending"
    <3>1. CASE Swept.seats[c].holder = i
      BY <1>3, <1>6, <3>1
    <3>2. CASE Swept.seats[c].holder # i
      <4>1. seats[c] = Swept.seats[c] /\ seats[c].holder \in Invitation \ {i, next}
        BY <1>4, <1>6, <1>8, <2>2, <3>2 DEF Fits
      <4> QED BY <1>3, <1>8, <2>2, <4>1 DEF Fits
    <3> QED BY <3>1, <3>2
  <2>3. ASSUME NEW c \in Seat, seats[c].state = "assigned"
        PROVE rows[seats[c].holder].status = "accepted"
    <3>1. seats[c] = Swept.seats[c] /\ seats[c].holder \in Invitation \ {i, next}
      BY <1>4, <1>6, <1>8, <2>3 DEF Fits
    <3> QED BY <1>3, <1>8, <2>3, <3>1 DEF Fits
  <2>4. ASSUME NEW j \in Invitation, rows[j].status = "accepted"
        PROVE \E c \in Seat : seats[c] = [state |-> "assigned", holder |-> j]
    <3>1. j \notin {i, next} /\ Swept.rows[j].status = "accepted"
      BY <1>3, <2>4
    <3>2. PICK c \in Seat : Swept.seats[c] = [state |-> "assigned", holder |-> j]
      BY <1>8, <3>1 DEF Fits
    <3> QED BY <1>6, <3>1, <3>2
  <2>5. \A c, d \in Seat : c # d /\ seats[c].holder = seats[d].holder => seats[c].holder = NoInvitation
    BY <1>4, <1>6, <1>8, NoInvitationIsNone DEF Fits
  <2> QED BY <2>1, <2>2, <2>3, <2>4, <2>5 DEF Fits
<1>10. HeldBy(Swept.seats, i) = {} => Fits(Swept.seats, rows, strayed)
  <2> SUFFICES ASSUME HeldBy(Swept.seats, i) = {} PROVE Fits(Swept.seats, rows, strayed)
    OBVIOUS
  <2>1. \A c \in Seat : Swept.seats[c].holder # NoInvitation => Swept.seats[c].holder \in Invitation \ {i, next}
    BY <1>4, <1>7
  <2>2. \A j \in Invitation : rows[j].status = "accepted" => j \notin {i, next}
    BY <1>3
  <2> QED BY <1>3, <1>8, <2>1, <2>2 DEF Fits
<1> QED BY <1>3, <1>9, <1>10 DEF rows, seats

(* Every request about an invitation leaves the seats fitting. *)
LEMMA RequestFits ==
  ASSUME InviteTypeOK, CapacityFits, NEW i \in Invitation, InviteRequest(i)
  PROVE CapacityFits'
<1>types. invitation \in [Invitation -> Row] /\ seat \in [Seat -> SeatRow]
  BY DEF InviteTypeOK, Row, SeatRow
<1> SUFFICES Fits(seat', invitation', strayed')
  BY DEF CapacityFits, Fits
<1>fits. Fits(seat, invitation, strayed)
  BY DEF CapacityFits
\* a row begins: nobody holds a seat for it yet
<1>begins. ASSUME NextRow(i), NEW row \in {Queued, Unsent}
        PROVE LET rows == [invitation EXCEPT ![i] = row]
              IN rows[i].status = "pending" /\ Fits(seat, rows, strayed)
  <2> DEFINE rows == [invitation EXCEPT ![i] = row]
  <2>1. invitation[i].status = "none"
    BY <1>begins DEF NextRow, Invitation
  <2>2. rows[i].status = "pending" /\ \A j \in Invitation \ {i} : rows[j] = invitation[j]
    BY <1>types DEF Queued, Unsent
  <2>3. \A c \in Seat : seat[c].holder # NoInvitation => seat[c].holder \in Invitation \ {i}
    BY <1>types, <1>fits, <2>1 DEF Fits, SeatRow
  <2> HIDE DEF rows
  <2>4. Fits(seat, rows, strayed)
    BY <1>fits, <2>2, <2>3 DEF Fits
  <2> QED BY <2>2, <2>4 DEF rows
<1>1. CASE InviteSetup(i)
  BY <1>begins, <1>1 DEF InviteSetup
<1>2. CASE InviteNow(i)
  <2>1. CASE UNCHANGED <<seat, invitation, strayed>>
    BY <1>fits, <2>1
  <2>2. CASE Reserves(seat, i) /\ invitation' = [invitation EXCEPT ![i] = Queued]
    <3>1. invitation'[i].status = "pending" /\ Fits(seat, invitation', strayed)
      BY <1>begins, <1>2, <2>2 DEF InviteNow
    <3> QED BY <1>types, <2>2, <3>1, ReserveFits
  <2> QED BY <1>2, <2>1, <2>2 DEF InviteNow, Drifts
<1>3. CASE InviteAgain(i)
  <2>1. CASE UNCHANGED <<seat, invitation, strayed>>
    BY <1>fits, <2>1
  <2>2. CASE Reserves(Swept.seats, i) /\ invitation' = Swept.rows
    <3>1. Swept.rows[i].status = "pending" \/ (Swept.rows[i].status = "expired" /\ i \in Expiring)
      BY <1>3, SweptFacts DEF InviteAgain, Pending
    <3> QED BY <2>2, <3>1, ReserveFits, SweptFits, SweptFacts
  <2> QED BY <1>3, <2>1, <2>2 DEF InviteAgain, Drifts
<1>4. CASE Withdraw(i)
  <2>1. /\ invitation[i].status # "accepted" /\ invitation'[i].status # "accepted"
        /\ \A j \in Invitation \ {i} : invitation'[j].status = invitation[j].status
    BY <1>types, <1>4 DEF Withdraw, Row
  <2>2. seat' = Released(seat, {i}) /\ strayed' = strayed
    BY <1>4 DEF Withdraw, Freed
  <2>3. Fits(Released(seat, {i}), invitation', strayed)
    BY <1>types, <1>fits, <2>1, ReleaseFits
  <2> QED BY <2>2, <2>3
<1>5. CASE ComesLate(i)
  BY <1>fits, <1>5 DEF ComesLate
<1>6. ASSUME NEW next \in Invitation, ResendNow(i, next) PROVE Fits(seat', invitation', strayed')
  <2>1. CASE UNCHANGED <<seat, invitation, strayed>>
    BY <1>fits, <2>1
  <2>2. CASE /\ invitation' = Superseded(i, next, Queued) /\ HeldBy(Swept.seats, i) # {}
             /\ seat' = Transferred(i, next) /\ UNCHANGED strayed
    BY <1>6, <2>2, SupersededFits DEF ResendNow
  <2>3. CASE /\ invitation' = Superseded(i, next, Queued) /\ HeldBy(Swept.seats, i) = {}
             /\ Reserves(Swept.seats, next)
    <3>1. Fits(Swept.seats, invitation', strayed) /\ invitation'[next].status = "pending"
      BY <1>6, <2>3, SupersededFits DEF ResendNow
    <3> QED BY <2>3, <3>1, ReserveFits, SweptFacts
  <2> QED BY <1>6, <2>1, <2>2, <2>3 DEF ResendNow, Drifts
<1>7. ASSUME NEW next \in Invitation, ResendSetup(i, next) PROVE Fits(seat', invitation', strayed')
  <2>1. CASE UNCHANGED <<seat, invitation, strayed>>
    BY <1>fits, <2>1
  <2>2. CASE /\ invitation' = Superseded(i, next, Unsent)
             /\ seat' = Transferred(i, next) /\ UNCHANGED strayed
    BY <1>7, <2>2, SupersededFits DEF ResendSetup
  <2> QED BY <1>7, <2>1, <2>2 DEF ResendSetup, Drifts
<1> QED BY <1>1, <1>2, <1>3, <1>4, <1>5, <1>6, <1>7 DEF InviteRequest

LEMMA DeliversStatus ==
  ASSUME NEW rows \in [Invitation -> Row], NEW i \in Invitation, Delivers(rows, i)
  PROVE \A j \in Invitation : invitation'[j].status = rows[j].status
BY DEF Delivers, Row

(* Every step of a setup leaves the seats fitting. *)
LEMMA SetupFits ==
  ASSUME InviteTypeOK, CapacityFits, NEW i \in Invitation, SetupStep(i)
  PROVE CapacityFits'
<1>types. invitation \in [Invitation -> Row] /\ seat \in [Seat -> SeatRow]
  BY DEF InviteTypeOK, Row, SeatRow
<1> SUFFICES Fits(seat', invitation', strayed')
  BY DEF CapacityFits, Fits
<1>fits. Fits(seat, invitation, strayed)
  BY DEF CapacityFits
<1>1. CASE StepCancels(i) \/ StepRevoked(i)
  <2>1. seat' = Released(seat, {i}) /\ UNCHANGED <<invitation, strayed>>
    BY <1>1 DEF StepCancels, StepRevoked
  <2>2. Fits(Released(seat, {i}), invitation, strayed)
    BY <1>types, <1>fits, ReleaseFits
  <2> QED BY <2>1, <2>2
<1>2. CASE StepDelivers(i)
  <2>1. CASE UNCHANGED <<seat, invitation, strayed>>
    BY <1>fits, <2>1
  <2>2. CASE Delivers(invitation, i) /\ UNCHANGED <<seat, strayed>>
    BY <1>types, <1>fits, <2>2, DeliversStatus, SameStatus
  <2> QED BY <1>2, <2>1, <2>2 DEF StepDelivers, Drifts
<1>3. CASE StepReserves(i)
  <2>1. CASE UNCHANGED <<seat, invitation, strayed>>
    BY <1>fits, <2>1
  <2>2. CASE Reserves(Swept.seats, i) /\ Delivers(Swept.rows, i)
    <3>1. Swept.rows[i].status = "pending" \/ (Swept.rows[i].status = "expired" /\ i \in Expiring)
      BY <1>3, SweptFacts DEF StepReserves, Proceeds, Pending
    <3>2. Fits(seat', Swept.rows, strayed')
      BY <2>2, <3>1, ReserveFits, SweptFits, SweptFacts
    <3>3. seat' \in [Seat -> SeatRow]
      BY <2>2, SeatTypes, SweptFacts
    <3> QED BY <2>2, <3>2, <3>3, DeliversStatus, SameStatus, SweptFacts
  <2>3. CASE invitation' = Swept.rows /\ seat' = Swept.seats /\ UNCHANGED strayed
    BY <2>3, SweptFits
  <2> QED BY <1>3, <2>1, <2>2, <2>3 DEF StepReserves, Drifts
<1>4. CASE Wake(i)
  BY <1>fits, <1>4 DEF Wake
<1> QED BY <1>1, <1>2, <1>3, <1>4 DEF SetupStep

(* Joining takes the seat that was reserved, and a quarantine one that nobody joined on. *)
LEMMA SeatFits ==
  ASSUME InviteTypeOK, CapacityFits, NEW c \in Seat, SeatStep(c)
  PROVE CapacityFits'
<1>types. invitation \in [Invitation -> Row] /\ seat \in [Seat -> SeatRow]
  BY DEF InviteTypeOK, Row, SeatRow
<1> SUFFICES Fits(seat', invitation', strayed')
  BY DEF CapacityFits, Fits
<1>fits. Fits(seat, invitation, strayed)
  BY DEF CapacityFits
<1>1. CASE UNCHANGED <<seat, invitation, strayed>>
  BY <1>fits, <1>1
<1>2. ASSUME NEW i \in Invitation, Join(i, c), ~UNCHANGED <<seat, invitation, strayed>>
      PROVE Fits(seat', invitation', strayed')
  <2>1. /\ seat[c].state = "reserved" /\ seat[c].holder = i /\ invitation[i].status = "pending"
        /\ invitation' = [invitation EXCEPT ![i].status = "accepted"]
        /\ seat' = [seat EXCEPT ![c].state = "assigned"]
        /\ strayed' = strayed
    BY <1>types, <1>2, Holder DEF Join, Drifts, Pending
  <2>2. /\ seat'[c] = [state |-> "assigned", holder |-> i]
        /\ \A d \in Seat : d # c => seat'[d] = seat[d]
    BY <1>types, <2>1 DEF SeatRow
  <2>3. /\ invitation'[i].status = "accepted"
        /\ \A j \in Invitation : j # i => invitation'[j] = invitation[j]
    BY <1>types, <2>1 DEF Row
  <2>4. \A d \in Seat : d # c => seat[d].holder # i
    BY <1>fits, <2>1, NoInvitationIsNone DEF Fits
  <2>5. \A d \in Seat : seat[d].holder # NoInvitation => seat[d].holder \in Invitation
    BY <1>types DEF SeatRow
  <2>6. \A d \in Seat : seat'[d].state \in {"reserved", "assigned"} <=> seat'[d].holder # NoInvitation
    BY <1>fits, <2>2, NoInvitationIsNone DEF Fits
  <2>7. ASSUME NEW d \in Seat, seat'[d].state = "reserved"
        PROVE /\ invitation'[seat'[d].holder].status # "none"
              /\ seat'[d].holder \notin strayed => invitation'[seat'[d].holder].status = "pending"
    <3>1. d # c /\ seat'[d] = seat[d] /\ seat[d].holder \in Invitation \ {i}
      BY <1>fits, <2>2, <2>4, <2>5, <2>7 DEF Fits
    <3> QED BY <1>fits, <2>3, <2>7, <3>1 DEF Fits
  <2>8. ASSUME NEW d \in Seat, seat'[d].state = "assigned"
        PROVE invitation'[seat'[d].holder].status = "accepted"
    <3>1. CASE d = c
      BY <2>2, <2>3, <3>1
    <3>2. CASE d # c
      <4>1. seat'[d] = seat[d] /\ seat[d].holder \in Invitation \ {i}
        BY <1>fits, <2>2, <2>4, <2>5, <2>8, <3>2 DEF Fits
      <4> QED BY <1>fits, <2>3, <2>8, <4>1 DEF Fits
    <3> QED BY <3>1, <3>2
  <2>9. ASSUME NEW j \in Invitation, invitation'[j].status = "accepted"
        PROVE \E d \in Seat : seat'[d] = [state |-> "assigned", holder |-> j]
    <3>1. CASE j = i
      BY <2>2, <3>1
    <3>2. CASE j # i
      <4>1. PICK d \in Seat : seat[d] = [state |-> "assigned", holder |-> j]
        BY <1>fits, <2>3, <2>9, <3>2 DEF Fits
      <4>2. d # c
        BY <2>1, <4>1
      <4> QED BY <2>2, <4>1, <4>2
    <3> QED BY <3>1, <3>2
  <2>10. \A d, e \in Seat : d # e /\ seat'[d].holder = seat'[e].holder => seat'[d].holder = NoInvitation
    BY <1>fits, <2>2, <2>4 DEF Fits
  <2> QED BY <2>1, <2>6, <2>7, <2>8, <2>9, <2>10 DEF Fits
<1>3. ASSUME QuarantineSeat(c), ~UNCHANGED <<seat, invitation, strayed>>
      PROVE Fits(seat', invitation', strayed')
  <2>1. /\ seat[c].state \in {"available", "reserved"}
        /\ seat' = [seat EXCEPT ![c] = [state |-> "quarantined", holder |-> NoInvitation]]
        /\ invitation' = invitation /\ strayed' = strayed
    BY <1>3 DEF QuarantineSeat, Quarantinable
  <2>2. /\ seat'[c] = [state |-> "quarantined", holder |-> NoInvitation]
        /\ \A d \in Seat : d # c => seat'[d] = seat[d]
    BY <1>types, <2>1
  <2>3. ASSUME NEW j \in Invitation, invitation[j].status = "accepted"
        PROVE \E d \in Seat : seat'[d] = [state |-> "assigned", holder |-> j]
    <3>1. PICK d \in Seat : seat[d] = [state |-> "assigned", holder |-> j]
      BY <1>fits, <2>3 DEF Fits
    <3>2. d # c
      BY <2>1, <3>1
    <3> QED BY <2>2, <3>1, <3>2
  <2>4. \A d \in Seat : seat'[d].state \in {"reserved", "assigned"} <=> seat'[d].holder # NoInvitation
    BY <1>fits, <2>2 DEF Fits
  <2>5. \A d, e \in Seat : d # e /\ seat'[d].holder = seat'[e].holder => seat'[d].holder = NoInvitation
    BY <1>fits, <2>2 DEF Fits
  <2> QED BY <1>fits, <2>1, <2>2, <2>3, <2>4, <2>5 DEF Fits
<1> QED BY <1>1, <1>2, <1>3 DEF SeatStep, Prove, GrantChanges, ReportLost, Drifts

(* Every step of a sender leaves the seats fitting. *)
LEMMA SenderFits ==
  ASSUME InviteTypeOK, MailFits, CapacityFits, NEW w \in Sender, SendStep(w)
  PROVE CapacityFits'
<1>types. invitation \in [Invitation -> Row] /\ seat \in [Seat -> SeatRow]
  BY DEF InviteTypeOK, Row, SeatRow
<1> SUFFICES Fits(seat', invitation', strayed')
  BY DEF CapacityFits, Fits
<1>fits. Fits(seat, invitation, strayed)
  BY DEF CapacityFits
<1>1. ASSUME seat' = Swept.seats, strayed' = strayed,
             \A j \in Invitation : invitation'[j].status = Swept.rows[j].status
      PROVE Fits(seat', invitation', strayed')
  BY <1>1, SweptFits, SweptFacts, SameStatus
<1>2. ASSUME seat' = seat, strayed' = strayed,
             \A j \in Invitation : invitation'[j].status = invitation[j].status
      PROVE Fits(seat', invitation', strayed')
  BY <1>types, <1>fits, <1>2, SameStatus
<1>3. ASSUME NEW j \in Invitation, NEW d, NEW b, Recorded(j, d, b)
      PROVE \A k \in Invitation : invitation'[k].status = invitation[k].status
  BY <1>types, <1>3 DEF Recorded, Row
<1>4. ASSUME NEW i \in Invitation, SendNothing(w, i) \/ SendRefused(w, i) \/ SendBegins(w, i)
      PROVE Fits(seat', invitation', strayed')
  <2>1. seat' = Swept.seats /\ strayed' = strayed
    BY <1>4 DEF SendNothing, SendRefused, SendBegins
  <2>2. \/ invitation' = Swept.rows
        \/ \E d : invitation' = [Swept.rows EXCEPT ![i].delivery = d]
    BY <1>4 DEF SendNothing, SendRefused, SendBegins
  <2>3. \A j \in Invitation : invitation'[j].status = Swept.rows[j].status
    BY <2>2, SweptFacts DEF Row
  <2> QED BY <1>1, <2>1, <2>3
<1>5. ASSUME NEW answer \in {"accepted", "unavailable", "refused"}, NEW taken \in {0, 1},
             CallWorkos(w, answer, taken)
      PROVE Fits(seat', invitation', strayed')
  BY <1>2, <1>5 DEF CallWorkos
<1>6. CASE RecordDelivered(w) \/ RecordCommitFails(w) \/ RecordFailed(w)
  <2>1. sender[w].of \in Invitation
    BY <1>6 DEF RecordDelivered, RecordCommitFails, RecordFailed, MailFits, Does
  <2>2. seat' = seat /\ strayed' = strayed
    BY <1>6 DEF RecordDelivered, RecordCommitFails, RecordFailed
  <2>3. UNCHANGED invitation \/ \E d, b : Recorded(sender[w].of, d, b)
    BY <1>6 DEF RecordDelivered, RecordCommitFails, RecordFailed
  <2> QED BY <1>2, <1>3, <2>1, <2>2, <2>3
<1>7. CASE SenderLost(w)
  BY <1>2, <1>7 DEF SenderLost
<1>8. ASSUME NEW i \in Invitation, SendUnconfigured(w, i) PROVE Fits(seat', invitation', strayed')
  <2>1. seat' = seat /\ strayed' = strayed /\ invitation' = [invitation EXCEPT ![i].delivery = "failed"]
    BY <1>8 DEF SendUnconfigured
  <2>2. \A j \in Invitation : invitation'[j].status = invitation[j].status
    BY <1>types, <2>1 DEF Row
  <2> QED BY <1>2, <2>1, <2>2
<1> QED BY <1>4, <1>5, <1>6, <1>7, <1>8 DEF SendStep

LEMMA CapacityStep == InviteTypeOK /\ MailFits /\ CapacityFits /\ [InviteNext]_inviteVars => CapacityFits'
<1> SUFFICES ASSUME InviteTypeOK, MailFits, CapacityFits, [InviteNext]_inviteVars PROVE CapacityFits'
  OBVIOUS
<1>1. CASE ExpireInvitations
  BY <1>1, SweptFits DEF ExpireInvitations, CapacityFits, Fits
<1>2. CASE ProofTooOld \/ UNCHANGED inviteVars
  BY <1>2 DEF ProofTooOld, inviteVars, CapacityFits, Fits
<1> QED BY <1>1, <1>2, RequestFits, SetupFits, SenderFits, SeatFits DEF InviteNext

LEMMA FittingIsHeld == InviteTypeOK /\ CapacityFits => CapacityIsHeld
<1> SUFFICES ASSUME InviteTypeOK, CapacityFits PROVE CapacityIsHeld
  OBVIOUS
<1>1. ASSUME NEW i \in Invitation, Cardinality({c \in Seat : seat[c] = [state |-> "assigned", holder |-> i]}) # 1,
             invitation[i].status = "accepted"
      PROVE FALSE
  <2>1. PICK c \in Seat : seat[c] = [state |-> "assigned", holder |-> i]
    BY <1>1 DEF CapacityFits, Fits
  <2>2. \A d \in Seat : seat[d] = [state |-> "assigned", holder |-> i] => d = c
    BY <2>1, NoInvitationIsNone DEF CapacityFits, Fits
  <2>3. {d \in Seat : seat[d] = [state |-> "assigned", holder |-> i]} = {c}
    BY <2>1, <2>2
  <2> QED BY <1>1, <2>3, FS_Singleton
<1> QED BY <1>1 DEF CapacityIsHeld, CapacityFits, Fits, Pending

(* CapacityIsHeld always holds: through withdrawals, resends, expiry, setups and late
   quarantines, a seat is held for one invitation, and kept by whoever joined. *)
THEOREM CapacityIsHeldAlways == InviteSpec => []CapacityIsHeld
<1>1. InviteInit => CapacityFits
  BY DEF InviteInit, CapacityFits, Fits, NoRowYet, FreeSeat
<1> QED BY <1>1, MailStart, InviteStart, InviteTypes, MailFitsStep, CapacityStep, FittingIsHeld, PTL
        DEF InviteSpec
=============================================================================

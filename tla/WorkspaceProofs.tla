-------------------------- MODULE WorkspaceProofs --------------------------
(***************************************************************************)
(* Proofs about the parts of a workspace around its runs, for all values   *)
(* of their constants.  TokenRefresh: no refresh token is spent twice, and *)
(* a disconnect stands.  HubAccess: a removal takes effect within one      *)
(* window.  LiveUpdates: a client's cursor passes no committed event that  *)
(* it has not applied.  At the end, the types of all the parts together,   *)
(* as WorkspaceMC composes them.                                           *)
(***************************************************************************)
EXTENDS WorkspaceMC, ApprovalsProofs, PeopleProofs

-----------------------------------------------------------------------------
(* TokenRefresh *)

(* An answer waits to be stored again only after its own transaction failed. *)
HeldMeansUnstored == (\E r \in Request : Doing(r, "holding")) => unstored

TokenInv == TokenTypeOK /\ SpentOnce /\ HeldMeansUnstored

USE StoreAttemptsAssumption, MaxTokenAssumption DEF Doing

RequestPlace == {"idle", "stale", "holding", "refused"}
RequestState == [at : RequestPlace, token : Token \cup {NoToken}, stores : 0..(StoreAttempts - 1)]
AccountState == [status : {"connected", "error", "revoked"}, token : Token \cup {NoToken}]

-----------------------------------------------------------------------------

(* The first state, with the token of the connection. *)
LEMMA TokenStart == TokenInit => TokenTypeOK
<1> SUFFICES ASSUME TokenInit PROVE TokenTypeOK
  OBVIOUS
<1>1. 1 \in Token /\ 0 \in 0..(StoreAttempts - 1)
  BY DEF Token
<1>2. AtRest \in RequestState
  BY <1>1 DEF AtRest, RequestState, RequestPlace
<1>3. account \in AccountState
  BY <1>1 DEF TokenInit, AccountState
<1>4. request \in [Request -> RequestState]
  BY <1>2 DEF TokenInit
<1>5. live \subseteq 1..issued
  BY DEF TokenInit
<1> QED BY <1>1, <1>3, <1>4, <1>5 DEF TokenInit, TokenTypeOK, AccountState, RequestState, RequestPlace

(* A request that rests is in a state of its type, and the others are as they were. *)
LEMMA RestType ==
  ASSUME TokenTypeOK, NEW r \in Request, Rest(r)
  PROVE  request' \in [Request -> RequestState]
<1>1. AtRest \in RequestState
  BY DEF AtRest, RequestState, RequestPlace
<1>2. request \in [Request -> RequestState]
  BY DEF TokenTypeOK, RequestState, RequestPlace
<1> QED BY <1>1, <1>2 DEF Rest

(* The provider's new token is the last one issued. *)
LEMMA RotatedType ==
  ASSUME TokenTypeOK, NEW r \in Request, Rotated(r)
  PROVE  issued' \in Token /\ live' \subseteq 1..issued'
<1>1. issued \in 1..MaxToken /\ live \subseteq 1..issued
  BY DEF TokenTypeOK, Token
<1>2. /\ issued' = issued + 1 /\ issued < MaxToken
      /\ live' = (live \ {Spent(r)}) \cup {issued'}
  BY DEF Rotated
<1>3. issued' \in 1..MaxToken
  BY <1>1, <1>2
<1>4. 1..issued \subseteq 1..(issued + 1) /\ issued + 1 \in 1..(issued + 1)
  BY <1>1
<1>5. live' \subseteq 1..(issued + 1)
  BY <1>1, <1>2, <1>4
<1> QED BY <1>2, <1>3, <1>5 DEF Token

(* Every action keeps the types. *)
LEMMA TokenStep == TokenTypeOK /\ [TokenNext]_tokenVars => TokenTypeOK'
<1> SUFFICES ASSUME TokenTypeOK, [TokenNext]_tokenVars PROVE TokenTypeOK'
  OBVIOUS
<1>0. /\ account \in AccountState
      /\ expired \in BOOLEAN /\ unstored \in BOOLEAN
      /\ issued \in Token /\ live \subseteq 1..issued
      /\ request \in [Request -> RequestState]
  BY DEF TokenTypeOK, AccountState, RequestState, RequestPlace
<1>z. ASSUME /\ account' \in AccountState
             /\ expired' \in BOOLEAN /\ unstored' \in BOOLEAN
             /\ issued' \in Token /\ live' \subseteq 1..issued'
             /\ request' \in [Request -> RequestState]
      PROVE  TokenTypeOK'
  BY <1>z DEF TokenTypeOK, AccountState, RequestState, RequestPlace
<1> USE DEF Provider
<1>1. ASSUME NEW r \in Request, ReadStale(r) PROVE TokenTypeOK'
  <2>1. [request[r] EXCEPT !.at = "stale", !.token = account.token] \in RequestState
    BY <1>0 DEF AccountState, RequestState, RequestPlace
  <2> QED BY <1>0, <1>1, <1>z, <2>1 DEF ReadStale
<1>2. ASSUME NEW r \in Request, NotNeeded(r) PROVE TokenTypeOK'
  BY <1>0, <1>2, <1>z, RestType DEF NotNeeded
<1>3. ASSUME NEW r \in Request, Unanswered(r) PROVE TokenTypeOK'
  BY <1>0, <1>3, <1>z, RestType DEF Unanswered
<1>4. ASSUME NEW r \in Request, ExchangeRefused(r) PROVE TokenTypeOK'
  <2>1. [AtRest EXCEPT !.at = "refused"] \in RequestState
    BY DEF AtRest, RequestState, RequestPlace
  <2> QED BY <1>0, <1>4, <1>z, <2>1 DEF ExchangeRefused
<1>5. ASSUME NEW r \in Request, Exchanged(r) PROVE TokenTypeOK'
  <2>1. account' \in AccountState
    BY <1>0, <1>5, RotatedType DEF Exchanged, AccountState
  <2> QED BY <1>0, <1>5, <1>z, <2>1, RestType, RotatedType DEF Exchanged
<1>6. ASSUME NEW r \in Request, StoreFails(r) PROVE TokenTypeOK'
  <2>1. AtRest \in RequestState
    BY DEF AtRest, RequestState, RequestPlace
  <2>2. StoreAttempts # 1 => [at |-> "holding", token |-> issued', stores |-> 1] \in RequestState
    BY <1>6, RotatedType DEF StoreFails, RequestState, RequestPlace
  <2>3. request' \in [Request -> RequestState]
    BY <1>0, <1>6, <2>1, <2>2 DEF StoreFails
  <2> QED BY <1>0, <1>6, <1>z, <2>3, RotatedType DEF StoreFails
<1>7. ASSUME NEW r \in Request, AnswerLost(r) PROVE TokenTypeOK'
  BY <1>0, <1>7, <1>z, RestType, RotatedType DEF AnswerLost
<1>8. ASSUME NEW r \in Request, StoreAgain(r) PROVE TokenTypeOK'
  <2>1. account' \in AccountState
    BY <1>0, <1>8 DEF StoreAgain, AccountState, RequestState
  <2> QED BY <1>0, <1>8, <1>z, <2>1, RestType DEF StoreAgain
<1>9. ASSUME NEW r \in Request, StoreAgainFails(r) PROVE TokenTypeOK'
  <2>1. AtRest \in RequestState
    BY DEF AtRest, RequestState, RequestPlace
  <2>2. request[r] \in RequestState
    BY <1>0
  <2>3. request[r].stores + 1 < StoreAttempts =>
          [request[r] EXCEPT !.stores = request[r].stores + 1] \in RequestState
    BY <2>2 DEF RequestState
  <2> DEFINE after == IF request[r].stores + 1 < StoreAttempts
                      THEN [request[r] EXCEPT !.stores = request[r].stores + 1] ELSE AtRest
  <2>4. after \in RequestState /\ request' = [request EXCEPT ![r] = after]
    BY <1>9, <2>1, <2>3 DEF StoreAgainFails
  <2> HIDE DEF after
  <2>5. request' \in [Request -> RequestState]
    BY <1>0, <2>4
  <2> QED BY <1>0, <1>9, <1>z, <2>5 DEF StoreAgainFails
<1>10. ASSUME NEW r \in Request, Quarantine(r) PROVE TokenTypeOK'
  <2>1. account' \in AccountState
    BY <1>0, <1>10 DEF Quarantine, AccountState
  <2> QED BY <1>0, <1>10, <1>z, <2>1, RestType DEF Quarantine
<1>11. ASSUME NEW r \in Request, RequestLost(r) PROVE TokenTypeOK'
  BY <1>0, <1>11, <1>z, RestType DEF RequestLost
<1>12. CASE AccessExpires
  BY <1>0, <1>12, <1>z DEF AccessExpires
<1>13. CASE Reconnect
  <2>1. issued' \in Token /\ live' \subseteq 1..issued'
    <3>1. issued \in 1..MaxToken /\ live \subseteq 1..issued
      BY <1>0 DEF Token
    <3> QED BY <1>13, <3>1 DEF Reconnect, Token
  <2>2. account' \in AccountState
    BY <1>13, <2>1 DEF Reconnect, AccountState
  <2> QED BY <1>0, <1>13, <1>z, <2>1, <2>2 DEF Reconnect
<1>14. CASE DisconnectAccount
  <2>1. account' \in AccountState
    BY <1>14 DEF DisconnectAccount, AccountState
  <2> QED BY <1>0, <1>14, <1>z, <2>1 DEF DisconnectAccount
<1>15. CASE UNCHANGED tokenVars
  BY <1>0, <1>15, <1>z DEF tokenVars
<1> QED
  BY <1>1, <1>2, <1>3, <1>4, <1>5, <1>6, <1>7, <1>8, <1>9, <1>10, <1>11, <1>12, <1>13, <1>14,
     <1>15 DEF TokenNext, RefreshStep

(* TokenTypeOK always holds: a stored answer is tried again STORE_ATTEMPTS times at most. *)
THEOREM TokenTyping == TokenSpec => []TokenTypeOK
<1> QED BY TokenStart, TokenStep, PTL DEF TokenSpec

-----------------------------------------------------------------------------

(* While every answer was stored by its own transaction, the row's token is one the
   provider honours, so no exchange is refused. *)
LEMMA SpentStep == TokenInv /\ [TokenNext]_tokenVars => (SpentOnce /\ HeldMeansUnstored)'
<1> SUFFICES ASSUME TokenTypeOK, SpentOnce, HeldMeansUnstored, [TokenNext]_tokenVars
             PROVE (SpentOnce /\ HeldMeansUnstored)'
  BY DEF TokenInv
<1> DEFINE Goal == (SpentOnce /\ HeldMeansUnstored)'
<1> USE DEF TokenTypeOK, SpentOnce, HeldMeansUnstored, AtRest, Rest, Provider
<1>1. ASSUME NEW r \in Request, ReadStale(r) PROVE Goal
  BY <1>1 DEF ReadStale
<1>2. ASSUME NEW r \in Request, NotNeeded(r) PROVE Goal
  BY <1>2 DEF NotNeeded
<1>3. ASSUME NEW r \in Request, Unanswered(r) PROVE Goal
  BY <1>3 DEF Unanswered
<1>4. ASSUME NEW r \in Request, ExchangeRefused(r) PROVE Goal
  <2>1. unstored
    BY <1>4 DEF ExchangeRefused, MayExchange, Spent
  <2> QED BY <1>4, <2>1 DEF ExchangeRefused
<1>5. ASSUME NEW r \in Request, Exchanged(r) PROVE Goal
  BY <1>5 DEF Exchanged, Rotated, MayExchange
<1>6. ASSUME NEW r \in Request, StoreFails(r) PROVE Goal
  BY <1>6 DEF StoreFails
<1>7. ASSUME NEW r \in Request, AnswerLost(r) PROVE Goal
  BY <1>7 DEF AnswerLost
<1>8. ASSUME NEW r \in Request, StoreAgain(r) PROVE Goal
  <2>1. unstored
    BY <1>8 DEF StoreAgain
  <2> QED BY <1>8, <2>1 DEF StoreAgain
<1>9. ASSUME NEW r \in Request, StoreAgainFails(r) PROVE Goal
  <2>1. unstored
    BY <1>9 DEF StoreAgainFails
  <2> QED BY <1>9, <2>1 DEF StoreAgainFails
<1>10. ASSUME NEW r \in Request, Quarantine(r) PROVE Goal
  <2>1. unstored
    BY <1>10 DEF Quarantine
  <2> QED BY <1>10, <2>1 DEF Quarantine
<1>11. ASSUME NEW r \in Request, RequestLost(r) PROVE Goal
  BY <1>11 DEF RequestLost
<1>12. CASE AccessExpires
  BY <1>12 DEF AccessExpires
<1>13. CASE Reconnect
  BY <1>13 DEF Reconnect
<1>14. CASE DisconnectAccount
  BY <1>14 DEF DisconnectAccount
<1>15. CASE UNCHANGED tokenVars
  BY <1>15 DEF tokenVars
<1> QED
  BY <1>1, <1>2, <1>3, <1>4, <1>5, <1>6, <1>7, <1>8, <1>9, <1>10, <1>11, <1>12, <1>13, <1>14,
     <1>15 DEF TokenNext, RefreshStep

(* SpentOnce always holds: the row lock makes each request exchange the token stored
   there, however many found the access token stale (refreshRotatingToken). *)
THEOREM SpentOnceAlways == TokenSpec => []SpentOnce
<1>1. TokenInit => TokenInv
  BY TokenStart DEF TokenInit, TokenInv, SpentOnce, HeldMeansUnstored, AtRest
<1>2. TokenInv /\ [TokenNext]_tokenVars => TokenInv'
  BY TokenStep, SpentStep DEF TokenInv
<1>3. TokenInv => SpentOnce
  BY DEF TokenInv
<1> QED BY <1>1, <1>2, <1>3, PTL DEF TokenSpec

-----------------------------------------------------------------------------

(* DisconnectStands holds of every behaviour: an exchange and a late store ask that the
   row is connected, a quarantine that it is not disconnected. *)
THEOREM DisconnectStandsAlways == TokenSpec => DisconnectStands
<1> DEFINE Stands == account.status = "revoked" /\ account' # account =>
                       account'.status = "connected" /\ account'.token = issued' /\ issued' > issued
<1>1. TokenTypeOK /\ [TokenNext]_tokenVars => [Stands]_tokenVars
  <2> SUFFICES ASSUME TokenTypeOK, TokenNext, account.status = "revoked", account' # account
               PROVE  account'.status = "connected" /\ account'.token = issued' /\ issued' > issued
    BY DEF tokenVars
  <2>1. ASSUME NEW r \in Request, RefreshStep(r) PROVE FALSE
    BY <2>1 DEF RefreshStep, ReadStale, NotNeeded, Unanswered, ExchangeRefused, Exchanged, Rotated,
                MayExchange, StoreFails, AnswerLost, StoreAgain, StoreAgainFails, Quarantine,
                RequestLost
  <2>2. CASE Reconnect
    <3>1. issued \in 1..MaxToken
      BY DEF TokenTypeOK, Token
    <3> QED BY <2>2, <3>1 DEF Reconnect
  <2>3. CASE AccessExpires \/ DisconnectAccount
    BY <2>3 DEF AccessExpires, DisconnectAccount
  <2> QED BY <2>1, <2>2, <2>3 DEF TokenNext
<1> QED BY <1>1, TokenTyping, PTL DEF TokenSpec, DisconnectStands

-----------------------------------------------------------------------------
(* HubAccess *)

(* What bounds the authority a removed person still holds: of a member, a window from
   now; of anybody else, a window from the removal. *)
LastUntil == IF isMember THEN now + Window ELSE removedAt + Window

Reach ==
  /\ told <= now /\ removedAt <= now
  /\ \A exp \in tickets : exp <= LastUntil
  /\ \A s \in Socket : listening[s].until <= LastUntil

AccessInv == AccessTypeOK /\ Reach /\ RemovalTakesEffect

USE WindowAssumption, HubOfAssumption DEF Time

-----------------------------------------------------------------------------

(* Every action keeps the types. *)
LEMMA AccessStep == AccessTypeOK /\ [AccessNext]_accessVars => AccessTypeOK'
<1> SUFFICES ASSUME AccessTypeOK, [AccessNext]_accessVars PROVE AccessTypeOK'
  OBVIOUS
<1> USE DEF AccessTypeOK
<1>1. ASSUME NEW s \in Socket, Upgrade(s) PROVE AccessTypeOK'
  <2>1. now + Window \in Time
    OBVIOUS
  <2> QED BY <1>1, <2>1 DEF Upgrade
<1>2. ASSUME NEW s \in Socket, Accept(s) PROVE AccessTypeOK'
  BY <1>2 DEF Accept
<1>3. ASSUME NEW s \in Socket, Disconnects(s) PROVE AccessTypeOK'
  BY <1>3 DEF Disconnects, Shut
<1>4. ASSUME NEW s \in Socket, NEW exp \in Time, PresentTicket(s, exp) PROVE AccessTypeOK'
  BY <1>4 DEF PresentTicket, Shut, Extended
<1>5. ASSUME NEW h \in Hub, Publish(h) PROVE AccessTypeOK'
  BY <1>5 DEF Publish
<1>6. ASSUME NEW h \in Hub, Evict(h) PROVE AccessTypeOK'
  BY <1>6 DEF Evict
<1>7. CASE MintTicket
  <2>1. now + Window \in Time
    OBVIOUS
  <2> QED BY <1>7, <2>1 DEF MintTicket
<1>8. CASE Remove
  BY <1>8 DEF Remove
<1>9. CASE Return
  BY <1>9 DEF Return
<1>10. CASE Tick
  BY <1>10 DEF Tick
<1>11. CASE UNCHANGED accessVars
  BY <1>11 DEF accessVars
<1> QED BY <1>1, <1>2, <1>3, <1>4, <1>5, <1>6, <1>7, <1>8, <1>9, <1>10, <1>11 DEF AccessNext

LEMMA AccessStart == AccessInit => AccessTypeOK
  BY DEF AccessInit, AccessTypeOK, Unused

(* AccessTypeOK always holds: times stay within a window of the bound, whatever tickets
   webSocketMessage accepts. *)
THEOREM AccessTyping == AccessSpec => []AccessTypeOK
<1> QED BY AccessStart, AccessStep, PTL DEF AccessSpec

-----------------------------------------------------------------------------

(* No action gives anybody authority past LastUntil, or an event after it. *)
LEMMA ReachStep == AccessInv /\ [AccessNext]_accessVars => (Reach /\ RemovalTakesEffect)'
<1> SUFFICES ASSUME AccessTypeOK, Reach, RemovalTakesEffect, [AccessNext]_accessVars, AccessTypeOK'
             PROVE (Reach /\ RemovalTakesEffect)'
  BY AccessStep DEF AccessInv
<1> USE DEF AccessTypeOK, Reach, RemovalTakesEffect, LastUntil
<1>1. ASSUME NEW s \in Socket, Upgrade(s) PROVE (Reach /\ RemovalTakesEffect)'
  BY <1>1 DEF Upgrade
<1>2. ASSUME NEW s \in Socket, Accept(s) PROVE (Reach /\ RemovalTakesEffect)'
  BY <1>2 DEF Accept
<1>3. ASSUME NEW s \in Socket, Disconnects(s) PROVE (Reach /\ RemovalTakesEffect)'
  BY <1>3 DEF Disconnects, Shut
<1>4. ASSUME NEW s \in Socket, NEW exp \in Time, PresentTicket(s, exp)
      PROVE (Reach /\ RemovalTakesEffect)'
  \* the socket's window becomes the ticket's, which was signed for a member
  BY <1>4 DEF PresentTicket, Shut, Extended
<1>5. ASSUME NEW h \in Hub, Publish(h) PROVE (Reach /\ RemovalTakesEffect)'
  <2>1. \A s \in Socket : listening'[s].until = listening[s].until
    BY <1>5 DEF Publish
  <2>2. told' \in {told, now}
    BY <1>5 DEF Publish
  <2>3. ~isMember /\ told' # told => now < removedAt + Window
    \* somebody heard: a socket whose window is not over
    <3> SUFFICES ASSUME ~isMember, told' # told PROVE now < removedAt + Window
      OBVIOUS
    <3>1. PICK s \in Socket : listening[s].until > now
      BY <1>5 DEF Publish
    <3> QED BY <3>1
  <2> QED BY <1>5, <2>1, <2>2, <2>3 DEF Publish
<1>6. ASSUME NEW h \in Hub, Evict(h) PROVE (Reach /\ RemovalTakesEffect)'
  <2>1. \A s \in Socket : listening'[s].until = listening[s].until
    BY <1>6 DEF Evict
  <2> QED BY <1>6, <2>1 DEF Evict
<1>7. CASE MintTicket
  BY <1>7 DEF MintTicket
<1>8. CASE Remove
  BY <1>8 DEF Remove
<1>9. CASE Return
  BY <1>9 DEF Return
<1>10. CASE Tick
  BY <1>10 DEF Tick
<1>11. CASE UNCHANGED accessVars
  BY <1>11 DEF accessVars
<1> QED BY <1>1, <1>2, <1>3, <1>4, <1>5, <1>6, <1>7, <1>8, <1>9, <1>10, <1>11 DEF AccessNext

(* RemovalTakesEffect always holds: whatever sockets were opening and whatever tickets
   were kept when revokeAccess ran, no event reaches the person a window later. *)
THEOREM RemovalTakesEffectAlways == AccessSpec => []RemovalTakesEffect
<1>1. AccessInit => AccessInv
  BY DEF AccessInit, AccessInv, AccessTypeOK, Reach, LastUntil, RemovalTakesEffect, Unused
<1>2. AccessInv /\ [AccessNext]_accessVars => AccessInv'
  BY AccessStep, ReachStep DEF AccessInv
<1>3. AccessInv => RemovalTakesEffect
  BY DEF AccessInv
<1> QED BY <1>1, <1>2, <1>3, PTL DEF AccessSpec

-----------------------------------------------------------------------------
(* LiveUpdates *)

(* The constants, one by one. *)
LEMMA StreamBounds ==
  /\ Reconciles \in BOOLEAN
  /\ PageSize \in Nat /\ PageSize > 0 /\ MaxPages \in Nat /\ MaxPages > 0
  /\ MaxEvent \in Nat /\ MaxEvent > 0 /\ MaxSocket \in Nat /\ MaxSocket > 0
  /\ PollAfterFailures \in Nat /\ MaxFrames \in Nat
  BY StreamAssumption

USE StreamBounds DEF Event, Wire

(* Among any events there is a first one and a last one. *)
LEMMA FirstOfSome ==
  ASSUME NEW S \in SUBSET Nat, S # {}
  PROVE  \E x \in S : \A y \in S : x <= y
<1> DEFINE R == OpToRel(<, Nat)
<1>1. IsWellFoundedOn(R, Nat)
  BY NatLessThanWellFounded
<1>2. \A x, y \in Nat : <<x, y>> \in R <=> x < y
  BY DEF OpToRel
<1> HIDE DEF R
<1>3. PICK x \in S : \A y \in S : ~(<<y, x>> \in R)
  BY <1>1, WFMin
<1>4. ASSUME NEW y \in S PROVE x <= y
  <2>1. x \in Nat /\ y \in Nat
    OBVIOUS
  <2>2. ~(y < x)
    BY <1>2, <1>3, <2>1
  <2> QED BY <2>1, <2>2
<1> QED BY <1>4

LEMMA LastOfSome ==
  ASSUME NEW S \in SUBSET (0..MaxEvent), S # {}
  PROVE  \E x \in S : \A y \in S : y <= x
<1> DEFINE T == {n \in Nat : \E x \in S : n = MaxEvent - x}
<1>1. \A x \in S : x \in 0..MaxEvent /\ MaxEvent - x \in T
  OBVIOUS
<1>2. T \in SUBSET Nat /\ T # {}
  BY <1>1
<1>3. PICK m \in T : \A n \in T : m <= n
  BY <1>2, FirstOfSome
<1>4. PICK x \in S : m = MaxEvent - x
  OBVIOUS
<1>5. ASSUME NEW y \in S PROVE y <= x
  <2>1. MaxEvent - y \in T /\ x \in 0..MaxEvent /\ y \in 0..MaxEvent
    BY <1>1
  <2>2. m <= MaxEvent - y
    BY <1>3, <2>1
  <2> QED BY <1>4, <2>1, <2>2
<1> QED BY <1>5

(* Applying events moves a cursor to the last of them, or leaves it where it is. *)
LEMMA PastIsLast ==
  ASSUME NEW id \in 0..MaxEvent, NEW es \in SUBSET Event
  PROVE  /\ Past(id, es) \in es \cup {id} /\ Past(id, es) \in 0..MaxEvent
         /\ \A e \in es \cup {id} : e <= Past(id, es)
<1>1. es \cup {id} \in SUBSET (0..MaxEvent) /\ es \cup {id} # {}
  OBVIOUS
<1>2. \E top \in es \cup {id} : \A e \in es \cup {id} : e <= top
  BY <1>1, LastOfSome
<1>3. Past(id, es) \in es \cup {id} /\ \A e \in es \cup {id} : e <= Past(id, es)
  BY <1>2 DEF Past
<1> QED BY <1>1, <1>3

(* The head of the outbox is its last committed event. *)
LEMMA NewestIsLast ==
  Newest \in 0..MaxEvent /\ \A e \in Committed : e <= Newest
<1>1. Committed \cup {0} \in SUBSET (0..MaxEvent) /\ Committed \cup {0} # {}
  BY DEF Committed
<1>2. \E id \in Committed \cup {0} : \A e \in Committed \cup {0} : e <= id
  BY <1>1, LastOfSome
<1>3. \E id \in Committed \cup {0} : \A e \in Committed : e <= id
  BY <1>2
<1>4. Newest \in Committed \cup {0} /\ \A e \in Committed : e <= Newest
  BY <1>3 DEF Newest
<1> QED BY <1>1, <1>4

(* A page after the cursor: the first events beyond it, and some if there are any. *)
FirstPage ==
  {e \in Beyond(client.cursor) : Cardinality({d \in Beyond(client.cursor) : d < e}) < PageSize}

LEMMA PageIsFirst ==
  /\ FirstPage \subseteq Beyond(client.cursor) /\ FirstPage \subseteq Event
  /\ \A p \in FirstPage : \A d \in Beyond(client.cursor) : d < p => d \in FirstPage
  /\ Beyond(client.cursor) # {} => FirstPage # {}
<1> DEFINE After == Beyond(client.cursor)
           Before(e) == {d \in After : d < e}
<1>1. After \subseteq Event
  BY DEF Beyond, Committed
<1> HIDE DEF After
<1>2. IsFiniteSet(Event) /\ IsFiniteSet(After)
  <2>1. IsFiniteSet(Event)
    BY FS_Interval
  <2> QED BY ONLY <1>1, <2>1, FS_Subset
<1>3. FirstPage = {e \in After : Cardinality(Before(e)) < PageSize}
  BY DEF FirstPage, After
<1>4. ASSUME NEW p \in FirstPage, NEW d \in After, d < p PROVE d \in FirstPage
  <2>1. Before(d) \in SUBSET Before(p)
    <3> SUFFICES ASSUME NEW x \in After, x < d PROVE x < p
      OBVIOUS
    <3>1. x \in Event /\ d \in Event /\ p \in Event
      BY <1>1, <1>3
    <3> QED BY <1>4, <3>1
  <2>2. IsFiniteSet(Before(p)) /\ IsFiniteSet(Before(d))
    BY <1>2, FS_Subset
  <2>3. /\ Cardinality(Before(d)) <= Cardinality(Before(p))
        /\ Cardinality(Before(d)) \in Nat /\ Cardinality(Before(p)) \in Nat
    BY <2>1, <2>2, FS_Subset, FS_CardinalityType
  <2>4. Cardinality(Before(p)) < PageSize
    BY <1>3
  <2>5. Cardinality(Before(d)) < PageSize
    <3> HIDE DEF Before
    <3> QED BY <2>3, <2>4
  <2> QED BY <1>3, <2>5
<1>5. ASSUME After # {} PROVE FirstPage # {}
  <2>1. PICK x \in After : \A y \in After : x <= y
    BY <1>1, <1>5, FirstOfSome
  <2>2. Before(x) = {}
    <3> SUFFICES ASSUME NEW y \in After, y < x PROVE FALSE
      OBVIOUS
    <3> QED BY <1>1, <2>1
  <2>3. Cardinality(Before(x)) < PageSize
    BY <2>2, FS_EmptySet
  <2> QED BY <1>3, <2>3
<1> QED BY <1>1, <1>3, <1>4, <1>5 DEF After

-----------------------------------------------------------------------------

ReplayPlace == {"none", "asking", "answered", "checking"}
WirePlace == {"none", "connecting", "open", "closing", "closed"}
WireState == [at : WirePlace, hub : BOOLEAN]
ClientState == [cursor : 0..MaxEvent, buffering : BOOLEAN, buffer : SUBSET Event,
                socket : 0..MaxSocket, open : BOOLEAN, everOpened : BOOLEAN,
                failures : 0..MaxSocket, timer : BOOLEAN, polling : BOOLEAN]
ReplayState == [at : ReplayPlace, page : SUBSET Event,
                head : 0..MaxEvent, pages : 0..MaxPages, required : BOOLEAN]

(* Sockets are used in turn, the latest one is not closed, and a handshake fails once
   for each socket at most. *)
Closed == {s \in Wire : wire[s].at = "closed"}
SocketInv ==
  /\ Used = 1..Cardinality(Used)
  /\ client.socket # 0 => wire[client.socket].at \in {"connecting", "open"}
  /\ client.failures <= Cardinality(Closed)

WireTypes == StreamTypeOK /\ SocketInv

LEMMA StreamTypesNamed ==
  StreamTypeOK <=>
    /\ event \in [Event -> {"none", "open", "committed", "rolled_back"}]
    /\ publish \in [Event -> {"none", "due", "done"}]
    /\ published \subseteq Event /\ applied \subseteq Event /\ exposed \subseteq Event
    /\ wire \in [Wire -> WireState]
    /\ frames \in [Wire -> Seq(Event)]
    /\ client \in ClientState
    /\ replay \in ReplayState
  BY DEF StreamTypeOK, WireState, ClientState, ReplayState, WirePlace, ReplayPlace

(* There are MaxSocket sockets. *)
LEMMA WiresFinite ==
  /\ IsFiniteSet(Wire) /\ Cardinality(Wire) = MaxSocket
  /\ \A S \in SUBSET Wire : IsFiniteSet(S) /\ Cardinality(S) \in 0..MaxSocket
<1>1. IsFiniteSet(Wire) /\ Cardinality(Wire) = MaxSocket
  BY FS_Interval
<1>2. ASSUME NEW S \in SUBSET Wire PROVE IsFiniteSet(S) /\ Cardinality(S) \in 0..MaxSocket
  <2>1. IsFiniteSet(S) /\ Cardinality(S) <= Cardinality(Wire)
    BY <1>1, FS_Subset
  <2>2. Cardinality(S) \in Nat
    BY <2>1, FS_CardinalityType
  <2> HIDE DEF Wire
  <2> QED BY <1>1, <2>1, <2>2
<1> QED BY <1>1, <1>2

(* The latest socket stays one that is not closed, or there is none; none is used anew. *)
LEMMA SocketsStay ==
  ASSUME WireTypes, Used' = Used, Closed \subseteq Closed', Closed' \subseteq Wire,
         client'.socket # 0 => wire'[client'.socket].at \in {"connecting", "open"},
         client'.failures \in {0, client.failures}
  PROVE  SocketInv'
<1>1. client.failures \in Nat
  BY StreamTypesNamed DEF WireTypes, ClientState
<1>2. /\ Closed \in SUBSET Wire /\ IsFiniteSet(Closed') /\ IsFiniteSet(Closed)
      /\ Cardinality(Closed') \in Nat /\ Cardinality(Closed) \in Nat
  BY WiresFinite DEF Closed
<1>3. Cardinality(Closed) <= Cardinality(Closed')
  BY <1>2, FS_Subset
<1>4. client'.failures <= Cardinality(Closed')
  BY <1>1, <1>2, <1>3 DEF WireTypes, SocketInv
<1>5. Used' = 1..Cardinality(Used')
  BY DEF WireTypes, SocketInv
<1> QED BY <1>4, <1>5 DEF SocketInv

(* A step that leaves the sockets alone. *)
LEMMA SocketsUnchanged ==
  ASSUME WireTypes, wire' = wire, client'.socket = client.socket,
         client'.failures = client.failures
  PROVE  SocketInv'
  BY DEF WireTypes, SocketInv, Used, Closed

(* What draining the buffer, and dropping the latest socket, do to the types. *)
LEMMA DrainTypes ==
  ASSUME WireTypes, NEW page \in SUBSET Event, Drain(page)
  PROVE  /\ client' \in ClientState /\ applied' \subseteq Event
         /\ client'.socket = client.socket /\ client'.failures = client.failures
<1> DEFINE cursor == Past(client.cursor, page)
<1>1. client \in ClientState /\ applied \subseteq Event
  BY StreamTypesNamed DEF WireTypes
<1>2. client.cursor \in 0..MaxEvent /\ client.buffer \in SUBSET Event
  BY <1>1 DEF ClientState
<1>3. cursor \in 0..MaxEvent
  BY <1>2, PastIsLast
<1> HIDE DEF cursor
<1>4. Past(cursor, client.buffer) \in 0..MaxEvent
  BY <1>2, <1>3, PastIsLast
<1>5. client' = [client EXCEPT !.cursor = Past(cursor, client.buffer), !.buffer = {},
                               !.buffering = FALSE]
  BY DEF Drain, cursor
<1>6. applied' \subseteq Event
  BY <1>1, <1>2 DEF Drain
<1> QED BY <1>1, <1>4, <1>5, <1>6 DEF ClientState

LEMMA DroppedTypes ==
  ASSUME WireTypes, Dropped
  PROVE  /\ client' \in ClientState /\ wire' \in [Wire -> WireState]
         /\ frames' \in [Wire -> Seq(Event)] /\ SocketInv'
<1>1. client \in ClientState /\ wire \in [Wire -> WireState] /\ frames \in [Wire -> Seq(Event)]
  BY StreamTypesNamed DEF WireTypes
<1>2. client' \in ClientState /\ client'.socket = 0 /\ client'.failures = client.failures
  <2>1. 0 \in 0..MaxSocket
    OBVIOUS
  <2>2. client' = [client EXCEPT !.open = FALSE, !.socket = 0, !.timer = TRUE]
    BY DEF Dropped
  <2> QED BY <1>1, <2>1, <2>2 DEF ClientState
<1>3. wire' \in [Wire -> WireState]
  BY <1>1 DEF Dropped, WireState, WirePlace
<1>4. frames' \in [Wire -> Seq(Event)]
  <2>1. <<>> \in Seq(Event)
    OBVIOUS
  <2> HIDE DEF Event, Wire
  <2> QED BY <1>1, <2>1 DEF Dropped
<1>5. /\ client.socket # 0 => wire[client.socket].at \in {"connecting", "open"}
      /\ wire' = [s \in Wire |-> IF s = client.socket
                                 THEN [at |-> "closing", hub |-> FALSE] ELSE wire[s]]
  BY DEF WireTypes, SocketInv, Dropped
<1>6. ASSUME NEW s \in Wire
      PROVE  (wire'[s].at = "none" <=> wire[s].at = "none") /\ (wire[s].at = "closed" => wire'[s].at = "closed")
  <2>1. CASE s = client.socket
    <3>1. s # 0
      OBVIOUS
    <3> QED BY <1>5, <2>1, <3>1
  <2>2. CASE s # client.socket
    BY <1>5, <2>2
  <2> QED BY <2>1, <2>2
<1>7. Used' = Used /\ Closed \subseteq Closed' /\ Closed' \subseteq Wire
  BY <1>6 DEF Used, Closed
<1>8. SocketInv'
  BY <1>2, <1>7, SocketsStay
<1> QED BY <1>2, <1>3, <1>4, <1>8

(* The actions of the outbox and the hub keep the types. *)
LEMMA OutboxTypes ==
  ASSUME WireTypes,
         \E e \in Event : Draw(e) \/ Commit(e) \/ RollBack(e) \/ Deliver(e)
  PROVE  WireTypes'
<1>0. StreamTypeOK
  BY DEF WireTypes
<1> USE StreamTypesNamed
<1>1. UNCHANGED <<wire, client, replay, applied>>
  BY DEF Draw, Commit, RollBack, Deliver
<1>2. SocketInv'
  BY <1>1, SocketsUnchanged
<1>3. PICK e \in Event : Draw(e) \/ Commit(e) \/ RollBack(e) \/ Deliver(e)
  OBVIOUS
<1>4. event' \in [Event -> {"none", "open", "committed", "rolled_back"}]
  <2>1. event \in [Event -> {"none", "open", "committed", "rolled_back"}]
    BY <1>0
  <2>2. \/ event' = event
        \/ \E x \in {"open", "committed", "rolled_back"} : event' = [event EXCEPT ![e] = x]
    BY <1>3 DEF Draw, Commit, RollBack, Deliver
  <2> QED BY <2>1, <2>2
<1>5. publish' \in [Event -> {"none", "due", "done"}] /\ published' \subseteq Event
  BY <1>0, <1>3 DEF Draw, Commit, RollBack, Deliver
<1>6. exposed' \subseteq Event
  BY <1>0, <1>3 DEF Draw, Commit, RollBack, Deliver, Committed
<1>7. frames' \in [Wire -> Seq(Event)]
  <2>1. CASE UNCHANGED frames
    BY <1>0, <2>1
  <2>2. CASE Deliver(e)
    <3> HIDE DEF Event, Wire
    <3>1. frames \in [Wire -> Seq(Event)]
      BY <1>0
    <3>2. \A s \in Wire : Append(frames[s], e) \in Seq(Event)
      BY <3>1
    <3> QED BY <2>2, <3>1, <3>2 DEF Deliver
  <2> QED BY <1>3, <2>1, <2>2 DEF Draw, Commit, RollBack
<1>8. StreamTypeOK'
  <2>1. wire' \in [Wire -> WireState] /\ client' \in ClientState /\ replay' \in ReplayState
        /\ applied' \subseteq Event
    BY <1>0, <1>1
  <2> QED BY <1>4, <1>5, <1>6, <1>7, <2>1 DEF StreamTypeOK, WireState, ClientState, ReplayState, WirePlace, ReplayPlace
<1> QED BY <1>2, <1>8 DEF WireTypes

(* Types kept by a step that leaves the server's variables alone. *)
LEMMA ClientTypes ==
  ASSUME WireTypes, UNCHANGED serverVars,
         wire' \in [Wire -> WireState], frames' \in [Wire -> Seq(Event)],
         client' \in ClientState, replay' \in ReplayState,
         applied' \subseteq Event, exposed' \subseteq Event, SocketInv'
  PROVE  WireTypes'
  BY StreamTypesNamed DEF WireTypes, serverVars, StreamTypeOK, WireState, ClientState, ReplayState,
     WirePlace, ReplayPlace

(* So do a frame that is received and the steps of a catch-up. *)
LEMMA ReplayTypes ==
  ASSUME WireTypes,
         \/ \E s \in Wire : Receive(s)
         \/ AnswerReplay \/ NextPage \/ LastPage \/ AuditFails \/ Checked \/ Poll \/ Reconcile
  PROVE  WireTypes'
<1>0. /\ wire \in [Wire -> WireState] /\ frames \in [Wire -> Seq(Event)]
      /\ client \in ClientState /\ replay \in ReplayState
      /\ applied \subseteq Event /\ exposed \subseteq Event
  BY StreamTypesNamed DEF WireTypes
<1>c. client.cursor \in 0..MaxEvent /\ client.buffer \in SUBSET Event
  BY <1>0 DEF ClientState
<1>p. replay.page \in SUBSET Event /\ replay.pages \in 0..MaxPages
  BY <1>0 DEF ReplayState
<1>n. NoReplay \in ReplayState
  BY DEF NoReplay, ReplayState, ReplayPlace
<1>1. ASSUME NEW s \in Wire, Receive(s) PROVE WireTypes'
  <2>1. frames[s] \in Seq(Event) /\ frames[s] # <<>>
    BY <1>0, <1>1 DEF Receive
  <2>2. Head(frames[s]) \in Event /\ Tail(frames[s]) \in Seq(Event)
    <3> HIDE DEF Event
    <3> QED BY <2>1
  <2>3. frames' \in [Wire -> Seq(Event)]
    <3> HIDE DEF Event, Wire
    <3> QED BY <1>0, <1>1, <2>2 DEF Receive
  <2> DEFINE e == Head(frames[s])
  <2> HIDE DEF e
  <2>4. e \in Event /\ Intake(e)
    BY <1>1, <2>2 DEF Receive, e
  <2>5. Past(client.cursor, {e}) \in 0..MaxEvent
    BY <1>c, <2>4, PastIsLast
  <2>6. client' \in ClientState /\ client'.socket = client.socket /\ client'.failures = client.failures
    <3>1. client' = [client EXCEPT !.buffer = client.buffer \cup {e}]
          \/ client' = [client EXCEPT !.cursor = Past(client.cursor, {e})]
      BY <2>4 DEF Intake
    <3>2. client.buffer \cup {e} \in SUBSET Event
      BY <1>c, <2>4
    <3> QED BY <1>0, <2>5, <3>1, <3>2 DEF ClientState
  <2>7. applied' \subseteq Event
    BY <1>0, <2>4 DEF Intake
  <2> QED BY <1>0, <1>1, <2>3, <2>6, <2>7, ClientTypes, SocketsUnchanged DEF Receive
<1>2. CASE AnswerReplay
  <2>1. replay' = [replay EXCEPT !.at = "answered", !.head = Newest, !.page = FirstPage]
    BY <1>2 DEF AnswerReplay, FirstPage
  <2>2. FirstPage \in SUBSET Event /\ Newest \in 0..MaxEvent
    BY PageIsFirst, NewestIsLast
  <2>3. replay' \in ReplayState
    BY <1>0, <2>1, <2>2 DEF ReplayState, ReplayPlace
  <2> QED BY <1>0, <1>2, <2>3, ClientTypes, SocketsUnchanged DEF AnswerReplay
<1>3. CASE NextPage
  <2>1. Past(client.cursor, replay.page) \in 0..MaxEvent
    BY <1>c, <1>p, PastIsLast
  <2>2. client' = [client EXCEPT !.cursor = Past(client.cursor, replay.page), !.buffering = TRUE]
    BY <1>3 DEF NextPage
  <2>3. client' \in ClientState /\ client'.socket = client.socket /\ client'.failures = client.failures
    BY <1>0, <2>1, <2>2 DEF ClientState
  <2>4. replay.pages + 1 \in 0..MaxPages
    <3>1. replay.pages + 1 < MaxPages
      BY <1>3 DEF NextPage, More
    <3> QED BY <1>p, <3>1
  <2>5. replay' = [replay EXCEPT !.at = "asking", !.page = {}, !.head = 0, !.pages = replay.pages + 1]
    BY <1>3 DEF NextPage
  <2>6. replay' \in ReplayState
    <3>1. 0 \in 0..MaxEvent /\ {} \in SUBSET Event /\ "asking" \in ReplayPlace
      BY DEF ReplayPlace
    <3> QED BY <1>0, <2>4, <2>5, <3>1 DEF ReplayState
  <2>7. applied' \subseteq Event
    BY <1>0, <1>3, <1>p DEF NextPage
  <2> QED BY <1>0, <1>3, <2>3, <2>6, <2>7, ClientTypes, SocketsUnchanged DEF NextPage
<1>4. CASE LastPage
  <2>1. /\ client' \in ClientState /\ applied' \subseteq Event
        /\ client'.socket = client.socket /\ client'.failures = client.failures
    BY <1>4, <1>p, DrainTypes DEF LastPage
  <2>2. replay' \in ReplayState
    BY <1>4, <1>n DEF LastPage, ReplayState, ReplayPlace
  <2>3. exposed' \subseteq Event
    BY <1>0, <1>4 DEF LastPage, Beyond, Committed
  <2> QED BY <1>0, <1>4, <2>1, <2>2, <2>3, ClientTypes, SocketsUnchanged DEF LastPage
<1>5. CASE AuditFails
  <2>1. /\ client' \in ClientState /\ applied' \subseteq Event
        /\ client'.socket = client.socket /\ client'.failures = client.failures
    BY <1>5, DrainTypes DEF AuditFails
  <2>2. replay' \in ReplayState
    BY <1>5, <1>n DEF AuditFails, ReplayState, ReplayPlace
  <2> QED BY <1>0, <1>5, <2>1, <2>2, ClientTypes, SocketsUnchanged DEF AuditFails
<1>6. CASE Checked
  BY <1>0, <1>6, <1>n, ClientTypes, SocketsUnchanged DEF Checked
<1>7. CASE Poll
  <2>1. client' = [client EXCEPT !.cursor = Past(client.cursor, FirstPage)]
        /\ applied' = applied \cup FirstPage
    BY <1>7 DEF Poll, FirstPage
  <2>2. FirstPage \in SUBSET Event /\ Past(client.cursor, FirstPage) \in 0..MaxEvent
    BY <1>c, PageIsFirst, PastIsLast
  <2>3. client' \in ClientState /\ client'.socket = client.socket /\ client'.failures = client.failures
    BY <1>0, <2>1, <2>2 DEF ClientState
  <2> QED BY <1>0, <1>7, <2>1, <2>2, <2>3, ClientTypes, SocketsUnchanged DEF Poll
<1>8. CASE Reconcile
  <2>1. client' \in ClientState /\ client'.socket = client.socket /\ client'.failures = client.failures
    BY <1>0, <1>8 DEF Reconcile, ClientState
  <2>2. replay' \in ReplayState
    BY <1>8, <1>n DEF Reconcile, ReplayState, ReplayPlace
  <2> QED BY <1>0, <1>8, <2>1, <2>2, ClientTypes, SocketsUnchanged DEF Reconcile
<1> QED BY <1>1, <1>2, <1>3, <1>4, <1>5, <1>6, <1>7, <1>8

(* So do the sockets as they are dialled, open, die and close. *)
LEMMA ConnectionTypes ==
  ASSUME WireTypes,
         \/ \E s \in Wire : Opens(s) \/ GoesDead(s) \/ Closes(s)
         \/ CatchUpFails \/ Silent \/ Dial
  PROVE  WireTypes'
<1>0. /\ wire \in [Wire -> WireState] /\ frames \in [Wire -> Seq(Event)]
      /\ client \in ClientState /\ replay \in ReplayState
      /\ applied \subseteq Event /\ exposed \subseteq Event
  BY StreamTypesNamed DEF WireTypes
<1>n. NoReplay \in ReplayState /\ [NoReplay EXCEPT !.at = "asking", !.required = TRUE] \in ReplayState
  <2>1. NoReplay \in ReplayState
    BY DEF NoReplay, ReplayState, ReplayPlace
  <2>2. "asking" \in ReplayPlace
    BY DEF ReplayPlace
  <2> QED BY <2>1, <2>2 DEF ReplayState
<1>s. Used = 1..Cardinality(Used) /\ Cardinality(Used) \in 0..MaxSocket /\ Used \subseteq Wire
  BY WiresFinite DEF WireTypes, SocketInv, Used
<1>f. /\ client.failures \in 0..MaxSocket /\ client.socket \in 0..MaxSocket
      /\ client.failures <= Cardinality(Closed)
      /\ client.socket # 0 => wire[client.socket].at \in {"connecting", "open"}
  BY <1>0 DEF ClientState, WireTypes, SocketInv
<1>1. ASSUME NEW s \in Wire, Opens(s) PROVE WireTypes'
  <2>1. wire[s].at = "connecting" /\ wire' = [wire EXCEPT ![s] = [at |-> "open", hub |-> TRUE]]
    BY <1>1 DEF Opens
  <2>2. wire' \in [Wire -> WireState]
    BY <1>0, <2>1 DEF WireState, WirePlace
  <2>3. \A t \in Wire : /\ wire'[t].at = "none" <=> wire[t].at = "none"
                        /\ wire'[t].at = "closed" <=> wire[t].at = "closed"
                        /\ wire[t].at \in {"connecting", "open"} => wire'[t].at \in {"connecting", "open"}
    BY <1>0, <2>1
  <2>4. Used' = Used /\ Closed \subseteq Closed' /\ Closed' \subseteq Wire
    BY <2>3 DEF Used, Closed
  <2>5. client' \in ClientState /\ client'.socket = client.socket /\ client'.failures = 0
    <3>1. 0 \in 0..MaxSocket
      OBVIOUS
    <3>2. \/ client' = [client EXCEPT !.open = TRUE, !.everOpened = TRUE, !.failures = 0,
                                     !.buffering = TRUE]
          \/ client' = [client EXCEPT !.open = TRUE, !.everOpened = TRUE, !.failures = 0]
      BY <1>1 DEF Opens
    <3>3. CASE client' = [client EXCEPT !.open = TRUE, !.everOpened = TRUE, !.failures = 0,
                                        !.buffering = TRUE]
      BY <1>0, <3>1, <3>3 DEF ClientState
    <3>4. CASE client' = [client EXCEPT !.open = TRUE, !.everOpened = TRUE, !.failures = 0]
      BY <1>0, <3>1, <3>4 DEF ClientState
    <3> QED BY <3>2, <3>3, <3>4
  <2>6. SocketInv'
    <3>1. client.socket # 0 => client.socket \in Wire
      BY <1>f
    <3>2. client'.socket # 0 => wire'[client'.socket].at \in {"connecting", "open"}
      BY <1>f, <2>3, <2>5, <3>1
    <3> QED BY <2>4, <2>5, <3>2, SocketsStay
  <2>7. replay' \in ReplayState
    BY <1>0, <1>1, <1>n DEF Opens
  <2>8. exposed' \subseteq Event
    BY <1>0, <1>1 DEF Opens, Beyond, Committed
  <2> QED BY <1>0, <1>1, <2>2, <2>5, <2>6, <2>7, <2>8, ClientTypes DEF Opens
<1>2. ASSUME NEW s \in Wire, GoesDead(s) PROVE WireTypes'
  <2>1. wire' = [wire EXCEPT ![s].hub = FALSE]
    BY <1>2 DEF GoesDead
  <2>2. wire' \in [Wire -> WireState]
    BY <1>0, <2>1 DEF WireState
  <2>3. \A t \in Wire : wire'[t].at = wire[t].at
    BY <1>0, <2>1 DEF WireState
  <2>4. Used' = Used /\ Closed \subseteq Closed' /\ Closed' \subseteq Wire
    BY <2>3 DEF Used, Closed
  <2>5. SocketInv'
    <3>1. client' = client /\ (client.socket # 0 => client.socket \in Wire)
      BY <1>2, <1>f DEF GoesDead
    <3>2. client'.socket # 0 => wire'[client'.socket].at \in {"connecting", "open"}
      BY <1>f, <2>3, <3>1
    <3> QED BY <2>4, <3>1, <3>2, SocketsStay
  <2> QED BY <1>0, <1>2, <2>2, <2>5, ClientTypes DEF GoesDead
<1>3. ASSUME NEW s \in Wire, Closes(s) PROVE WireTypes'
  <2>1. /\ wire[s].at \notin {"none", "closed"}
        /\ wire' = [wire EXCEPT ![s] = [at |-> "closed", hub |-> FALSE]]
    BY <1>3 DEF Closes
  <2>2. wire' \in [Wire -> WireState]
    BY <1>0, <2>1 DEF WireState, WirePlace
  <2>3. Used' = Used /\ Closed' = Closed \cup {s} /\ s \notin Closed
    BY <1>0, <2>1 DEF Used, Closed
  <2>4. Cardinality(Closed') = Cardinality(Closed) + 1 /\ Cardinality(Closed') \in 0..MaxSocket
        /\ Cardinality(Closed) \in 0..MaxSocket
    <3>1. Closed \in SUBSET Wire /\ Closed' \in SUBSET Wire
      BY <2>3 DEF Closed
    <3>2. IsFiniteSet(Closed)
      BY <3>1, WiresFinite
    <3>3. Cardinality(Closed \cup {s}) = Cardinality(Closed) + 1
      BY <2>3, <3>2, FS_AddElement
    <3> QED BY <2>3, <3>1, <3>3, WiresFinite
  <2> DEFINE failed == IF client.everOpened THEN client.failures ELSE client.failures + 1
  <2>5. failed \in 0..MaxSocket /\ failed <= Cardinality(Closed')
    <3> DEFINE before == Cardinality(Closed)
               after == Cardinality(Closed')
    <3>1. /\ client.failures \in 0..MaxSocket /\ client.failures <= before
          /\ after = before + 1 /\ before \in 0..MaxSocket /\ after \in 0..MaxSocket
      BY <1>f, <2>4
    <3> HIDE DEF before, after
    <3>2. failed \in 0..MaxSocket /\ failed <= after
      BY <3>1
    <3> QED BY <3>2 DEF after
  <2> HIDE DEF failed
  <2>6. \/ client' = [client EXCEPT !.open = FALSE, !.socket = 0, !.failures = failed, !.polling = TRUE,
                                   !.buffering = FALSE, !.buffer = {}, !.timer = FALSE]
        \/ client' = [client EXCEPT !.open = FALSE, !.socket = 0, !.failures = failed, !.timer = TRUE]
    BY <1>0, <1>3 DEF Closes, ClientState, failed
  <2>7. client' \in ClientState /\ client'.socket = 0 /\ client'.failures = failed
    <3>1. 0 \in 0..MaxSocket
      OBVIOUS
    <3> QED BY <1>0, <2>5, <2>6, <3>1 DEF ClientState
  <2>8. SocketInv'
    BY <1>s, <2>3, <2>5, <2>7 DEF SocketInv
  <2>9. frames' \in [Wire -> Seq(Event)]
    <3>1. <<>> \in Seq(Event)
      OBVIOUS
    <3> HIDE DEF Event, Wire
    <3> QED BY <1>0, <1>3, <3>1 DEF Closes
  <2> QED BY <1>0, <1>3, <2>2, <2>7, <2>8, <2>9, ClientTypes DEF Closes
<1>4. CASE CatchUpFails
  BY <1>0, <1>4, <1>n, DroppedTypes, ClientTypes DEF CatchUpFails
<1>5. CASE Silent
  BY <1>0, <1>5, DroppedTypes, ClientTypes DEF Silent
<1>6. CASE Dial
  <2> DEFINE n == Cardinality(Used)
  <2>1. n \in 0..MaxSocket /\ Used = 1..n
    BY <1>s
  <2> HIDE DEF n
  <2>2. Used # Wire
    BY <1>6 DEF Dial
  <2>3. n + 1 \in Wire /\ n + 1 \notin Used /\ n # MaxSocket
    BY <2>1, <2>2
  <2>4. /\ wire' = [wire EXCEPT ![n + 1].at = "connecting"]
        /\ client' = [client EXCEPT !.timer = FALSE, !.buffering = TRUE, !.buffer = {}, !.socket = n + 1]
    BY <1>6 DEF Dial, n
  <2>5. wire' \in [Wire -> WireState] /\ wire'[n + 1].at = "connecting"
        /\ \A t \in Wire \ {n + 1} : wire'[t] = wire[t]
    BY <1>0, <2>3, <2>4 DEF WireState, WirePlace
  <2>6. client' \in ClientState /\ client'.socket = n + 1 /\ client'.failures = client.failures
    <3>1. n + 1 \in 0..MaxSocket /\ {} \in SUBSET Event
      BY <2>1, <2>3
    <3> QED BY <1>0, <2>4, <3>1 DEF ClientState
  <2>7. Used' = Used \cup {n + 1} /\ Closed' = Closed
    BY <2>3, <2>5 DEF Used, Closed
  <2>8. Used' = 1..(n + 1) /\ Cardinality(Used') = n + 1
    <3>1. Used' = 1..(n + 1)
      BY <2>1, <2>7
    <3> QED BY <2>1, <3>1, FS_Interval
  <2>9. SocketInv'
    <3>1. Used' = 1..Cardinality(Used')
      BY <2>8
    <3>2. client'.socket # 0 => wire'[client'.socket].at \in {"connecting", "open"}
      BY <2>5, <2>6
    <3>3. client'.failures <= Cardinality(Closed')
      BY <1>f, <2>6, <2>7
    <3> QED BY <3>1, <3>2, <3>3 DEF SocketInv
  <2>10. exposed' \subseteq Event
    BY <1>0, <1>6 DEF Dial, ClientState
  <2> QED BY <1>0, <1>6, <2>5, <2>6, <2>9, <2>10, ClientTypes DEF Dial
<1> QED BY <1>1, <1>2, <1>3, <1>4, <1>5, <1>6

LEMMA StreamTypeStep == WireTypes /\ [StreamNext]_streamVars => WireTypes'
<1>1. WireTypes /\ UNCHANGED streamVars => WireTypes'
  <2> SUFFICES ASSUME WireTypes, UNCHANGED streamVars PROVE WireTypes'
    OBVIOUS
  <2>1. StreamTypeOK'
    BY DEF WireTypes, StreamTypeOK, streamVars
  <2>2. SocketInv'
    BY SocketsUnchanged DEF streamVars
  <2> QED BY <2>1, <2>2 DEF WireTypes
<1> QED BY <1>1, OutboxTypes, ReplayTypes, ConnectionTypes DEF StreamNext

LEMMA StreamTypeInit == StreamInit => WireTypes
<1> SUFFICES ASSUME StreamInit PROVE WireTypes
  OBVIOUS
<1>1. client \in ClientState /\ client.socket = 1 /\ client.failures = 0
  BY DEF StreamInit, ClientState
<1>2. replay \in ReplayState
  BY DEF StreamInit, NoReplay, ReplayState, ReplayPlace
<1>3. wire \in [Wire -> WireState] /\ \A s \in Wire : wire[s].at = "none" <=> s # 1
  BY DEF StreamInit, WireState, WirePlace
<1>4. wire[1].at = "connecting" /\ Used = 1..1 /\ Used = {1}
  <2>1. wire[1].at = "connecting" /\ 1 \in Wire
    BY DEF StreamInit
  <2>2. \A s \in Wire : s \in Used <=> s = 1
    BY <1>3 DEF Used
  <2>3. Used = {1}
    <3>1. Used \subseteq Wire
      BY DEF Used
    <3> HIDE DEF Wire
    <3> QED BY ONLY <2>1, <2>2, <3>1
  <2> QED BY <2>1, <2>3
<1>5. Cardinality(Used) = 1
  <2>1. Cardinality({1}) = 1
    BY FS_Singleton
  <2> QED BY <1>4, <2>1
<1>6. Cardinality(Closed) \in Nat
  BY WiresFinite DEF Closed
<1>7. SocketInv
  BY <1>1, <1>4, <1>5, <1>6 DEF SocketInv
<1>8. frames \in [Wire -> Seq(Event)]
  <2>1. <<>> \in Seq(Event)
    OBVIOUS
  <2> HIDE DEF Event, Wire
  <2> QED BY <2>1 DEF StreamInit
<1>9. StreamTypeOK
  BY <1>1, <1>2, <1>3, <1>8, StreamTypesNamed DEF StreamInit
<1> QED BY <1>7, <1>9 DEF WireTypes

(* StreamTypeOK always holds: createHub counts a refused handshake once for each socket,
   and the pages of a catch-up end at MAX_REPLAY_PAGES. *)
THEOREM StreamTyping == StreamSpec => []StreamTypeOK
<1>1. WireTypes => StreamTypeOK
  BY DEF WireTypes
<1> QED BY <1>1, StreamTypeInit, StreamTypeStep, PTL DEF StreamSpec

-----------------------------------------------------------------------------
(* No event is skipped *)

(* The committed events that a cursor may not pass before they are applied. *)
Owed == {d \in Committed : d \notin exposed /\ d \notin applied}

(* Ids are drawn in turn; an event that commits, or is published, after a later one is
   exposed. *)
OutboxInOrder ==
  /\ \A e, d \in Event : d < e /\ event[e] # "none" => event[d] # "none"
  /\ \A e \in Event : publish[e] # "none" => e \in Committed
  /\ published \subseteq Committed
  /\ \A e \in Committed : \A d \in Event : d < e /\ event[d] = "open" => d \in exposed
  /\ \A e \in published : \A d \in Committed : d < e /\ d \notin published => d \in exposed

(* What the client and the sockets hold was committed, and what was sent published. *)
Known ==
  /\ client.cursor \in Committed \cup {0}
  /\ client.buffer \subseteq published
  /\ replay.page \subseteq Committed
  /\ \A s \in Wire : \A i \in 1..Len(frames[s]) : frames[s][i] \in published

(* Nothing is sent, or asked, before a socket opened, and what is live is buffered as long as a
   catch-up asks for pages. *)
Phases ==
  /\ ~client.everOpened =>
       /\ client.buffer = {} /\ replay.at = "none" /\ ~client.open
       /\ \A s \in Wire : frames[s] = <<>> /\ ~wire[s].hub
  /\ ~client.buffering => client.buffer = {} /\ replay.at \in {"none", "checking"}

(* A catch-up will apply event d before the client applies what is live: one that must
   succeed has yet to read its page, or to apply or go beyond it; or it failed, and the
   client buffers until the next connection's. *)
Caught(d) ==
  /\ client.buffering
  /\ \/ replay.at = "none" /\ ~client.open
     \/ replay.at = "asking" /\ replay.required
     \/ replay.at = "answered" /\ replay.required /\ replay.page # {} /\ d <= replay.head

Accounted(d) == d \in client.buffer \/ Caught(d)

(* Event d is among the first frames of a socket, the i-th and later left aside. *)
Ahead(queue, i, d) == \E j \in 1..(i - 1) : queue[j] = d

(* No frame and no buffered event arrives before an owed event with a smaller id. *)
FramesInOrder ==
  \A s \in Wire : \A i \in 1..Len(frames[s]) : \A d \in Owed :
    d < frames[s][i] => Ahead(frames[s], i, d) \/ Accounted(d)
BufferInOrder == \A e \in client.buffer : \A d \in Owed : d < e => Accounted(d)

(* A socket the hub has will bring the owed events that are published. *)
Handed ==
  \A s \in Wire : wire[s].hub =>
    \A d \in Owed : d \in published => Ahead(frames[s], Len(frames[s]) + 1, d) \/ Accounted(d)

(* A page leaves out no owed event before one of its own. *)
PageFirst == replay.at = "answered" =>
  \A p \in replay.page : \A d \in Owed : d < p => d \in replay.page

Beneath == OutboxInOrder /\ Known /\ Phases
NoGaps == FramesInOrder /\ Handed /\ BufferInOrder
StreamInv == WireTypes /\ Beneath /\ NothingSkipped /\ NoGaps /\ PageFirst

LEMMA OwedIsAhead ==
  ASSUME WireTypes
  PROVE  /\ Owed \subseteq Event /\ Committed \subseteq Event
         /\ NothingSkipped <=> \A d \in Owed : client.cursor < d
<1>1. client.cursor \in 0..MaxEvent
  BY StreamTypesNamed DEF WireTypes, ClientState
<1> QED BY <1>1 DEF Owed, Committed, NothingSkipped

(* The outbox is left alone by the client. *)
LEMMA OutboxStays ==
  ASSUME OutboxInOrder, UNCHANGED serverVars, exposed \subseteq exposed'
  PROVE  OutboxInOrder' /\ Committed' = Committed
  BY DEF OutboxInOrder, serverVars, Committed

(* Events that stay owed stay accounted for; a new one is the latest of all, and not
   published. *)
Lasting(d) ==
  \/ d \in Owed /\ (Accounted(d) => Accounted(d)')
  \/ d \notin published' /\ \A p \in Committed : p < d

LEMMA NoGapsStay ==
  ASSUME StreamInv, \A d \in Owed' : Lasting(d), client'.buffer \subseteq client.buffer,
         \A s \in Wire : frames'[s] \in {frames[s], <<>>},
         \A s \in Wire : wire'[s].hub =>
           /\ frames'[s] = frames[s]
           /\ wire[s].hub \/ \A d \in Owed' : Accounted(d)',
         published' = published
  PROVE  NoGaps'
<1>0. /\ Owed \subseteq Event /\ Committed \subseteq Event /\ published \subseteq Committed
      /\ client.buffer \subseteq published
      /\ \A s \in Wire : \A i \in 1..Len(frames[s]) : frames[s][i] \in published
  BY OwedIsAhead DEF StreamInv, Beneath, OutboxInOrder, Known
<1>1. FramesInOrder'
  <2> SUFFICES ASSUME NEW s \in Wire, NEW i \in 1..Len(frames'[s]), NEW d \in Owed',
                      d < frames'[s][i]
               PROVE  Ahead(frames'[s], i, d) \/ Accounted(d)'
    BY DEF FramesInOrder, Ahead
  <2>1. frames'[s] = frames[s]
    <3>1. frames'[s] # <<>>
      OBVIOUS
    <3> QED BY <3>1
  <2>2. i \in 1..Len(frames[s]) /\ d < frames[s][i]
    BY <2>1
  <2>3. frames[s][i] \in Committed
    BY <1>0, <2>2
  <2>4. CASE d \in Owed /\ (Accounted(d) => Accounted(d)')
    BY <2>1, <2>2, <2>4 DEF StreamInv, NoGaps, FramesInOrder
  <2>5. CASE \A p \in Committed : p < d
    <3>1. frames[s][i] < d /\ frames[s][i] \in Event
      BY <1>0, <2>3, <2>5
    <3>2. d \in Event
      <4>1. WireTypes
        BY DEF StreamInv
      <4> QED BY <4>1 DEF Owed, Committed
    <3> QED BY <2>2, <3>1, <3>2
  <2> QED BY <2>4, <2>5 DEF Lasting
<1>2. Handed'
  <2> SUFFICES ASSUME NEW s \in Wire, wire'[s].hub, NEW d \in Owed', d \in published'
               PROVE  Ahead(frames'[s], Len(frames'[s]) + 1, d) \/ Accounted(d)'
    BY DEF Handed, Ahead
  <2>1. d \in Owed /\ (Accounted(d) => Accounted(d)')
    BY DEF Lasting
  <2> QED BY <2>1 DEF StreamInv, NoGaps, Handed
<1>3. BufferInOrder'
  <2> SUFFICES ASSUME NEW e \in client.buffer, NEW d \in Owed', d < e PROVE Accounted(d)'
    BY DEF BufferInOrder
  <2>1. e \in Committed /\ e \in Event /\ d \in Event
    BY <1>0 DEF Owed, Committed
  <2>2. d \in Owed /\ (Accounted(d) => Accounted(d)')
    BY <2>1 DEF Lasting
  <2> QED BY <2>2 DEF StreamInv, NoGaps, BufferInOrder
<1> QED BY <1>1, <1>2, <1>3 DEF NoGaps

(* A step that moves no cursor and reads no page. *)
LEMMA RestsStay ==
  ASSUME StreamInv, \A d \in Owed' : Lasting(d), WireTypes',
         client'.cursor = client.cursor,
         replay'.at # "answered" \/ replay' = replay
  PROVE  NothingSkipped' /\ PageFirst'
<1>1. /\ client.cursor \in Committed \cup {0} /\ replay.page \subseteq Committed
      /\ Owed \subseteq Event /\ Committed \subseteq Event
      /\ \A d \in Owed : client.cursor < d
  BY OwedIsAhead DEF StreamInv, Beneath, Known
<1>2. Owed' \subseteq Event
  BY OwedIsAhead DEF Owed, Committed
<1>3. ASSUME NEW d \in Owed' PROVE client.cursor < d
  <2>1. CASE client.cursor = 0
    BY <1>2, <2>1
  <2> QED BY <1>1, <2>1 DEF Lasting
<1>4. NothingSkipped'
  <2>1. client'.cursor \in 0..MaxEvent
    BY StreamTypesNamed DEF StreamInv, WireTypes, ClientState
  <2>2. \A d \in Owed' : client'.cursor < d
    BY <1>3
  <2> QED BY <1>2, <2>1, <2>2 DEF NothingSkipped, Owed, Committed
<1>5. PageFirst'
  <2> SUFFICES ASSUME replay'.at = "answered", replay' = replay,
                      NEW p \in replay.page, NEW d \in Owed', d < p
               PROVE  d \in replay.page
    BY DEF PageFirst
  <2>1. d \in Event /\ p \in Event /\ p \in Committed
    BY <1>1, <1>2
  <2>2. d \in Owed
    BY <2>1 DEF Lasting
  <2> QED BY <2>2 DEF StreamInv, PageFirst
<1> QED BY <1>4, <1>5

(* The outbox: events are drawn, and commit or roll back. *)
LEMMA RowsKeep ==
  ASSUME StreamInv, WireTypes', NEW e \in Event, Draw(e) \/ Commit(e) \/ RollBack(e)
  PROVE  StreamInv'
<1>0. /\ event \in [Event -> {"none", "open", "committed", "rolled_back"}]
      /\ publish \in [Event -> {"none", "due", "done"}]
      /\ published \subseteq Event
  BY StreamTypesNamed DEF StreamInv, WireTypes
<1>1. UNCHANGED <<published, wire, frames, client, replay, applied>> /\ exposed \subseteq exposed'
  BY DEF Draw, Commit, RollBack
<1>2. \/ Committed' = Committed /\ publish' = publish
      \/ Committed' = Committed \cup {e} /\ e \notin Committed /\ Commit(e)
  BY <1>0 DEF Draw, Commit, RollBack, Committed
<1>3. OutboxInOrder'
  <2>0. OutboxInOrder /\ Committed \subseteq Event
    BY DEF StreamInv, Beneath, Committed
  <2>1. \A x, d \in Event : d < x /\ event'[x] # "none" => event'[d] # "none"
    BY <1>0, <2>0 DEF Draw, Commit, RollBack, OutboxInOrder
  <2>2. \A x \in Event : publish'[x] # "none" => x \in Committed'
    BY <1>0, <1>2, <2>0 DEF Commit, OutboxInOrder
  <2>3. published' \subseteq Committed'
    BY <1>1, <1>2, <2>0 DEF OutboxInOrder
  <2>4. ASSUME NEW x \in Committed', NEW d \in Event, d < x, event'[d] = "open"
        PROVE  d \in exposed'
    <3>1. CASE x \in Committed /\ event[d] = "open"
      BY <1>1, <2>0, <2>4, <3>1 DEF OutboxInOrder
    <3>2. CASE x \in Committed /\ event[d] # "open"
      \* d was just drawn, and x before it
      <4>1. d = e /\ Draw(e)
        BY <1>0, <2>4, <3>2 DEF Draw, Commit, RollBack
      <4>2. event[x] = "committed" /\ event[d] = "none" /\ x \in Event
        BY <2>0, <3>2, <4>1 DEF Draw, Committed
      <4> QED BY <2>0, <2>4, <4>2 DEF OutboxInOrder
    <3>3. CASE x \notin Committed
      <4>1. x = e /\ Commit(e)
        BY <1>2, <2>4, <3>3
      <4>2. event[d] = "open"
        BY <1>0, <2>4, <4>1 DEF Commit
      <4> QED BY <2>4, <4>1, <4>2 DEF Commit
    <3> QED BY <3>1, <3>2, <3>3
  <2>5. ASSUME NEW x \in published', NEW d \in Committed', d < x, d \notin published'
        PROVE  d \in exposed'
    <3>1. CASE d \in Committed
      BY <1>1, <2>0, <2>5, <3>1 DEF OutboxInOrder
    <3>2. CASE d \notin Committed
      <4>1. d = e /\ event[d] = "open" /\ x \in Committed
        BY <1>1, <1>2, <2>0, <2>5, <3>2 DEF Commit, OutboxInOrder
      <4> QED BY <1>1, <2>0, <2>5, <4>1 DEF OutboxInOrder
    <3> QED BY <3>1, <3>2
  <2> QED BY <2>1, <2>2, <2>3, <2>4, <2>5 DEF OutboxInOrder
<1>4. Known' /\ Phases'
  <2>1. Committed \subseteq Committed'
    BY <1>2
  <2> QED BY <1>1, <2>1 DEF StreamInv, Beneath, Known, Phases
<1>5. ASSUME NEW d \in Owed' PROVE Lasting(d)
  <2>1. Accounted(d) => Accounted(d)'
    BY <1>1 DEF Accounted, Caught
  <2>2. d \in Committed' /\ d \notin exposed /\ d \notin applied /\ d \notin exposed'
    BY <1>1 DEF Owed
  <2>3. CASE d \in Committed
    BY <2>1, <2>2, <2>3 DEF Lasting, Owed
  <2>4. CASE d \notin Committed
    <3>1. d = e /\ event[d] = "open"
      BY <1>2, <2>2, <2>4 DEF Commit
    <3>2. d \notin published' /\ d \in Event
      BY <1>1, <2>4, <3>1 DEF StreamInv, Beneath, OutboxInOrder
    <3>3. ASSUME NEW p \in Committed PROVE p < d
      <4>1. p \in Event /\ p # d
        BY <2>4 DEF Committed
      <4>2. ~(d < p)
        BY <2>2, <3>1, <3>2 DEF StreamInv, Beneath, OutboxInOrder
      <4> QED BY <3>2, <4>1, <4>2
    <3> QED BY <3>2, <3>3 DEF Lasting
  <2> QED BY <2>3, <2>4
<1>6. NoGaps'
  BY <1>1, <1>5, NoGapsStay
<1>7. NothingSkipped' /\ PageFirst'
  BY <1>1, <1>5, RestsStay
<1> QED BY <1>3, <1>4, <1>6, <1>7 DEF StreamInv, Beneath

(* The hub takes an event: what it still has to take before that one is exposed. *)
LEMMA DeliverKeeps ==
  ASSUME StreamInv, WireTypes', NEW e \in Event, Deliver(e)
  PROVE  StreamInv'
<1> DEFINE to == {s \in Wire : wire[s].hub}
<1>0. /\ publish \in [Event -> {"none", "due", "done"}] /\ published \subseteq Event
      /\ frames \in [Wire -> Seq(Event)] /\ wire \in [Wire -> WireState]
  BY StreamTypesNamed DEF StreamInv, WireTypes
<1>1. /\ UNCHANGED <<event, wire, client, replay, applied>>
      /\ published' = published \cup {e}
      /\ exposed' = exposed \cup {d \in Committed \ published : d < e}
      /\ frames' = [s \in Wire |-> IF s \in to THEN Append(frames[s], e) ELSE frames[s]]
      /\ Committed' = Committed
  BY DEF Deliver, Committed
<1>2. OutboxInOrder /\ e \in Committed /\ Committed \subseteq Event
  BY DEF StreamInv, Beneath, Deliver, OutboxInOrder, Committed
<1>3. OutboxInOrder'
  <2>1. \A x \in Event : publish'[x] # "none" => x \in Committed'
    BY <1>0, <1>1, <1>2 DEF Deliver, OutboxInOrder
  <2>2. \A x \in published' : \A d \in Committed' : d < x /\ d \notin published' => d \in exposed'
    BY <1>1, <1>2 DEF OutboxInOrder
  <2> QED BY <1>1, <1>2, <2>1, <2>2 DEF OutboxInOrder
<1>4. ASSUME NEW s \in Wire
      PROVE  \/ frames'[s] = frames[s] /\ ~wire[s].hub
             \/ /\ wire[s].hub /\ Len(frames[s]) \in Nat
                /\ Len(frames'[s]) = Len(frames[s]) + 1 /\ frames'[s][Len(frames[s]) + 1] = e
                /\ \A i \in 1..Len(frames[s]) : frames'[s][i] = frames[s][i]
  <2>1. frames[s] \in Seq(Event)
    BY <1>0
  <2>2. frames'[s] = IF wire[s].hub THEN Append(frames[s], e) ELSE frames[s]
    BY <1>1
  <2> HIDE DEF Event, Wire
  <2> QED BY <2>1, <2>2
<1>5. Known' /\ Phases'
  <2>1. ASSUME NEW s \in Wire, NEW i \in 1..Len(frames'[s]) PROVE frames'[s][i] \in published'
    BY <1>1, <1>4 DEF StreamInv, Beneath, Known
  <2>2. Known'
    BY <1>1, <2>1 DEF StreamInv, Beneath, Known
  <2>3. ~client.everOpened => \A s \in Wire : frames'[s] = <<>>
    BY <1>4 DEF StreamInv, Beneath, Phases
  <2>4. Phases'
    BY <1>1, <2>3 DEF StreamInv, Beneath, Phases
  <2> QED BY <2>2, <2>4
<1>6. /\ Owed' \subseteq Owed
      /\ \A d \in Owed' : (Accounted(d) => Accounted(d)') /\ (d < e => d \in published)
  BY <1>1 DEF Owed, Accounted, Caught
<1>7. FramesInOrder'
  <2> SUFFICES ASSUME NEW s \in Wire, NEW i \in 1..Len(frames'[s]), NEW d \in Owed',
                      d < frames'[s][i]
               PROVE  Ahead(frames'[s], i, d) \/ Accounted(d)'
    BY DEF FramesInOrder, Ahead
  <2>1. CASE i \in 1..Len(frames[s])
    <3>1. frames'[s][i] = frames[s][i] /\ \A j \in 1..(i - 1) : frames'[s][j] = frames[s][j]
      <4>1. CASE frames'[s] = frames[s]
        BY <4>1
      <4>2. CASE frames'[s] # frames[s]
        <5>1. /\ Len(frames[s]) \in Nat
              /\ \A k \in 1..Len(frames[s]) : frames'[s][k] = frames[s][k]
          BY <1>4, <4>2
        <5>2. \A j \in 1..(i - 1) : j \in 1..Len(frames[s])
          BY <2>1, <5>1
        <5> QED BY <2>1, <5>1, <5>2
      <4> QED BY <4>1, <4>2
    <3>2. Ahead(frames[s], i, d) \/ Accounted(d)
      BY <1>6, <2>1, <3>1 DEF StreamInv, NoGaps, FramesInOrder
    <3> QED BY <1>6, <3>1, <3>2 DEF Ahead
  <2>2. CASE i \notin 1..Len(frames[s])
    <3>1. /\ wire[s].hub /\ i = Len(frames[s]) + 1 /\ d < e
          /\ \A j \in 1..(i - 1) : frames'[s][j] = frames[s][j]
      BY <1>4, <2>2
    <3>2. Ahead(frames[s], i, d) \/ Accounted(d)
      BY <1>6, <3>1 DEF StreamInv, NoGaps, Handed
    <3> QED BY <1>6, <3>1, <3>2 DEF Ahead
  <2> QED BY <2>1, <2>2
<1>8. Handed'
  <2> SUFFICES ASSUME NEW s \in Wire, wire[s].hub, NEW d \in Owed', d \in published'
               PROVE  Ahead(frames'[s], Len(frames'[s]) + 1, d) \/ Accounted(d)'
    BY <1>1 DEF Handed, Ahead
  <2>1. /\ Len(frames[s]) \in Nat
        /\ Len(frames'[s]) = Len(frames[s]) + 1 /\ frames'[s][Len(frames[s]) + 1] = e
        /\ \A i \in 1..Len(frames[s]) : frames'[s][i] = frames[s][i]
    BY <1>4
  <2>2. CASE d = e
    BY <2>1, <2>2 DEF Ahead
  <2>3. CASE d # e
    <3>1. Ahead(frames[s], Len(frames[s]) + 1, d) \/ Accounted(d)
      BY <1>1, <1>6, <2>3 DEF StreamInv, NoGaps, Handed
    <3> QED BY <1>6, <2>1, <3>1 DEF Ahead
  <2> QED BY <2>2, <2>3
<1>9. BufferInOrder'
  BY <1>1, <1>6 DEF StreamInv, NoGaps, BufferInOrder
<1>10. NothingSkipped' /\ PageFirst'
  <2>1. \A d \in Owed' : Lasting(d)
    BY <1>6 DEF Lasting
  <2> QED BY <1>1, <2>1, RestsStay
<1> QED BY <1>3, <1>5, <1>7, <1>8, <1>9, <1>10 DEF StreamInv, Beneath, NoGaps

(* The client moves the cursor to an owed event, or over none. *)
LEMMA ClientKeeps ==
  ASSUME StreamInv, WireTypes', UNCHANGED serverVars, exposed \subseteq exposed',
         \A d \in Owed' : d \in Owed /\ client'.cursor < d,
         client'.cursor \in Committed \cup {0}, client'.buffer \subseteq published,
         replay'.page \subseteq Committed, Phases', PageFirst',
         \A s \in Wire : \A i \in 1..Len(frames'[s]) : frames'[s][i] \in published,
         NoGaps'
  PROVE  StreamInv'
<1>1. OutboxInOrder' /\ Committed' = Committed /\ published' = published
  BY OutboxStays DEF StreamInv, Beneath, serverVars
<1>2. Known'
  BY <1>1 DEF Known
<1>3. NothingSkipped'
  <2>1. client'.cursor \in 0..MaxEvent
    BY StreamTypesNamed DEF WireTypes, StreamTypeOK, ClientState
  <2> QED BY <1>1, <2>1 DEF NothingSkipped, Owed, Committed
<1> QED BY <1>1, <1>2, <1>3 DEF StreamInv, Beneath

(* The same where frames are lost at most, and what is buffered. *)
LEMMA ClientRests ==
  ASSUME StreamInv, WireTypes', UNCHANGED serverVars, exposed \subseteq exposed',
         \A d \in Owed' : /\ d \in Owed /\ client'.cursor < d
                          /\ Accounted(d) => Accounted(d)',
         client'.cursor \in Committed \cup {0}, client'.buffer \subseteq client.buffer,
         replay'.page \subseteq Committed, Phases', PageFirst',
         \A s \in Wire : frames'[s] \in {frames[s], <<>>},
         \A s \in Wire : wire'[s].hub =>
           /\ frames'[s] = frames[s]
           /\ wire[s].hub \/ \A d \in Owed' : Accounted(d)'
  PROVE  StreamInv'
<1>1. Known
  BY DEF StreamInv, Beneath
<1>2. client'.buffer \subseteq published
  BY <1>1 DEF Known
<1>3. ASSUME NEW s \in Wire, NEW i \in 1..Len(frames'[s]) PROVE frames'[s][i] \in published
  <2>1. frames'[s] # <<>>
    OBVIOUS
  <2>2. frames'[s] = frames[s]
    BY <2>1
  <2> QED BY <1>1, <2>2 DEF Known
<1>4. NoGaps'
  BY NoGapsStay DEF Lasting, serverVars
<1> QED BY <1>2, <1>3, <1>4, ClientKeeps

LEMMA ReceiveKeeps ==
  ASSUME StreamInv, WireTypes', NEW s \in Wire, Receive(s)
  PROVE  StreamInv'
<1> DEFINE e == Head(frames[s])
<1>0. /\ frames \in [Wire -> Seq(Event)] /\ client \in ClientState
      /\ client.cursor \in 0..MaxEvent /\ client.buffer \in SUBSET Event
      /\ frames[s] \in Seq(Event) /\ frames[s] # <<>>
  BY StreamTypesNamed DEF StreamInv, WireTypes, ClientState, Receive
<1>1. /\ UNCHANGED <<serverVars, wire, replay, exposed>> /\ Intake(e)
      /\ frames' = [frames EXCEPT ![s] = Tail(frames[s])]
      /\ Committed' = Committed /\ published' = published
  BY DEF Receive, Committed, serverVars
<1>2. /\ Len(frames[s]) \in Nat /\ Len(frames[s]) # 0 /\ e = frames[s][1]
      /\ Len(Tail(frames[s])) = Len(frames[s]) - 1
      /\ \A i \in 1..Len(Tail(frames[s])) : Tail(frames[s])[i] = frames[s][i + 1]
  <2> HIDE DEF Event, Wire
  <2> QED BY <1>0
<1> HIDE DEF e
<1>3. e \in published /\ e \in Committed /\ e \in Event
  <2>1. 1 \in 1..Len(frames[s])
    BY <1>2
  <2>2. e \in published
    BY <1>2, <2>1 DEF StreamInv, Beneath, Known
  <2> QED BY <2>2 DEF StreamInv, Beneath, OutboxInOrder, Committed
\* the first frame comes after what is accounted for
<1>4. ASSUME NEW d \in Owed, d < e PROVE Accounted(d)
  <2>1. 1 \in 1..Len(frames[s]) /\ ~Ahead(frames[s], 1, d)
    BY <1>2 DEF Ahead
  <2> QED BY <1>2, <1>4, <2>1 DEF StreamInv, NoGaps, FramesInOrder
<1>5. /\ \A d \in Owed : client.cursor < d
      /\ Owed \subseteq Event
  BY OwedIsAhead DEF StreamInv
<1>6. /\ Owed' \subseteq Owed /\ client'.cursor \in Committed \cup {0}
      /\ client'.buffer \subseteq published
      /\ \A d \in Owed' : /\ client'.cursor < d /\ (Accounted(d) => Accounted(d)')
                          /\ d = e => Accounted(d)'
      /\ client'.everOpened = client.everOpened /\ client'.buffering = client.buffering
      /\ ~client.buffering => client'.buffer = {}
      /\ \A x \in client'.buffer \ client.buffer : x = e
  <2>1. CASE client.buffering
    <3>1. client' = [client EXCEPT !.buffer = client.buffer \cup {e}] /\ applied' = applied
      BY <1>1, <2>1 DEF Intake
    <3>2. /\ client'.buffer = client.buffer \cup {e} /\ client'.cursor = client.cursor
          /\ client'.open = client.open /\ client'.buffering = client.buffering
          /\ client'.everOpened = client.everOpened
      BY <1>0, <3>1 DEF ClientState
    <3>3. Owed' = Owed
      BY <1>1, <3>1 DEF Owed
    <3>4. \A d \in Owed : (Accounted(d) => Accounted(d)') /\ (d = e => Accounted(d)')
      BY <1>1, <3>2 DEF Accounted, Caught
    <3> QED BY <1>3, <1>5, <2>1, <3>2, <3>3, <3>4 DEF StreamInv, Beneath, Known
  <2>2. CASE ~client.buffering
    <3>1. /\ client' = [client EXCEPT !.cursor = Past(client.cursor, {e})]
          /\ applied' = applied \cup {d \in {e} : d > client.cursor}
      BY <1>1, <2>2 DEF Intake
    <3>2. /\ client'.buffer = client.buffer /\ client'.cursor = Past(client.cursor, {e})
          /\ client'.buffering = client.buffering /\ client'.everOpened = client.everOpened
      BY <1>0, <3>1 DEF ClientState
    <3>3. client.buffer = {}
      BY <2>2 DEF StreamInv, Beneath, Phases
    <3>4. \A d : ~Accounted(d)
      BY <2>2, <3>3 DEF Accounted, Caught
    <3>5. /\ Past(client.cursor, {e}) \in {client.cursor, e}
          /\ Past(client.cursor, {e}) \in 0..MaxEvent
      <4>1. {e} \in SUBSET Event
        BY <1>3
      <4>2. Past(client.cursor, {e}) \in {e} \cup {client.cursor}
        BY <1>0, <4>1, PastIsLast
      <4> QED BY <1>0, <1>3, <4>2
    <3>6. Owed' \subseteq Owed
      BY <1>1, <3>1 DEF Owed
    <3>7. ASSUME NEW d \in Owed' PROVE d # e /\ client'.cursor < d
      <4>1. d \in Owed /\ d \in Event /\ client.cursor < d
        BY <1>5, <3>6
      <4>2. d # e
        BY <3>1, <4>1 DEF Owed
      <4>3. ~(d < e)
        BY <1>4, <3>4, <4>1
      <4> QED BY <1>3, <3>2, <3>5, <4>1, <4>2, <4>3
    <3> QED BY <1>3, <2>2, <3>2, <3>3, <3>4, <3>5, <3>6, <3>7 DEF StreamInv, Beneath, Known
  <2> QED BY <2>1, <2>2
<1>7. ASSUME NEW t \in Wire
      PROVE  \/ frames'[t] = frames[t]
             \/ /\ t = s /\ Len(frames[s]) \in Nat /\ Len(frames'[s]) = Len(frames[s]) - 1
                /\ \A i \in 1..Len(frames'[s]) : frames'[s][i] = frames[s][i + 1]
  <2>1. CASE t = s
    <3>1. frames'[s] = Tail(frames[s])
      BY <1>0, <1>1
    <3> QED BY <1>2, <2>1, <3>1
  <2>2. CASE t # s
    BY <1>0, <1>1, <2>2
  <2> QED BY <2>1, <2>2
<1>8. ASSUME NEW t \in Wire, NEW i \in 1..Len(frames'[t]) PROVE frames'[t][i] \in published
  <2>1. \A k \in 1..Len(frames[t]) : frames[t][k] \in published
    BY DEF StreamInv, Beneath, Known
  <2>2. CASE frames'[t] = frames[t]
    BY <1>8, <2>1, <2>2
  <2>3. CASE frames'[t] # frames[t]
    <3>1. /\ t = s /\ Len(frames[s]) \in Nat /\ Len(frames'[s]) = Len(frames[s]) - 1
          /\ frames'[s][i] = frames[s][i + 1]
      BY <1>7, <1>8, <2>3
    <3>2. i + 1 \in 1..Len(frames[s])
      BY <1>8, <3>1
    <3> QED BY <2>1, <3>1, <3>2
  <2> QED BY <2>2, <2>3
\* what was ahead of a frame still is, or it is the frame that was received
<1>9. ASSUME NEW d \in Owed', NEW i \in Nat \ {0}, i <= Len(frames'[s]) + 1,
             Ahead(frames[s], i + 1, d), Len(frames'[s]) = Len(frames[s]) - 1,
             \A j \in 1..Len(frames'[s]) : frames'[s][j] = frames[s][j + 1]
      PROVE  Ahead(frames'[s], i, d) \/ Accounted(d)'
  <2>1. PICK j \in 1..i : frames[s][j] = d
    BY <1>9 DEF Ahead
  <2>2. CASE j = 1
    BY <1>2, <1>6, <2>1, <2>2
  <2>3. CASE j # 1
    <3>1. j - 1 \in 1..(i - 1) /\ j - 1 \in 1..Len(frames'[s])
      BY <1>2, <1>9, <2>1, <2>3
    <3>2. frames'[s][j - 1] = d
      BY <1>9, <2>1, <3>1
    <3> QED BY <3>1, <3>2 DEF Ahead
  <2> QED BY <2>2, <2>3
<1>10. FramesInOrder'
  <2> SUFFICES ASSUME NEW t \in Wire, NEW i \in 1..Len(frames'[t]), NEW d \in Owed',
                      d < frames'[t][i]
               PROVE  Ahead(frames'[t], i, d) \/ Accounted(d)'
    BY DEF FramesInOrder, Ahead
  <2>0. d \in Owed /\ (Accounted(d) => Accounted(d)')
    BY <1>6
  <2>1. CASE frames'[t] = frames[t]
    BY <2>0, <2>1 DEF StreamInv, NoGaps, FramesInOrder
  <2>2. CASE frames'[t] # frames[t]
    <3>1. /\ t = s /\ Len(frames[s]) \in Nat /\ Len(frames'[s]) = Len(frames[s]) - 1
          /\ \A j \in 1..Len(frames'[s]) : frames'[s][j] = frames[s][j + 1]
      BY <1>7, <2>2
    <3>2. i + 1 \in 1..Len(frames[s]) /\ frames'[s][i] = frames[s][i + 1] /\ i \in Nat \ {0}
          /\ i <= Len(frames'[s]) + 1
      BY <3>1
    <3>3. Ahead(frames[s], i + 1, d) \/ Accounted(d)
      BY <2>0, <3>1, <3>2 DEF StreamInv, NoGaps, FramesInOrder
    <3> QED BY <1>9, <2>0, <3>1, <3>2, <3>3
  <2> QED BY <2>1, <2>2
<1>11. Handed'
  <2> SUFFICES ASSUME NEW t \in Wire, wire[t].hub, NEW d \in Owed', d \in published
               PROVE  Ahead(frames'[t], Len(frames'[t]) + 1, d) \/ Accounted(d)'
    BY <1>1 DEF Handed, Ahead
  <2>0. d \in Owed /\ (Accounted(d) => Accounted(d)')
    BY <1>6
  <2>1. Ahead(frames[t], Len(frames[t]) + 1, d) \/ Accounted(d)
    BY <2>0 DEF StreamInv, NoGaps, Handed
  <2>2. CASE frames'[t] = frames[t]
    BY <2>0, <2>1, <2>2
  <2>3. CASE frames'[t] # frames[t]
    <3>1. /\ t = s /\ Len(frames[s]) \in Nat /\ Len(frames'[s]) = Len(frames[s]) - 1
          /\ \A j \in 1..Len(frames'[s]) : frames'[s][j] = frames[s][j + 1]
      BY <1>7, <2>3
    <3>2. Len(frames'[s]) + 1 \in Nat \ {0} /\ Len(frames[s]) + 1 = (Len(frames'[s]) + 1) + 1
      BY <1>2, <3>1
    <3>3. Ahead(frames[s], (Len(frames'[s]) + 1) + 1, d) \/ Accounted(d)
      BY <2>1, <3>1, <3>2
    <3>4. Len(frames'[s]) + 1 <= Len(frames'[s]) + 1
      BY <3>2
    <3> QED BY <1>9, <2>0, <3>1, <3>2, <3>3, <3>4
  <2> QED BY <2>2, <2>3
<1>12. BufferInOrder'
  <2> SUFFICES ASSUME NEW x \in client'.buffer, NEW d \in Owed', d < x PROVE Accounted(d)'
    BY DEF BufferInOrder
  <2>0. d \in Owed /\ (Accounted(d) => Accounted(d)')
    BY <1>6
  <2>1. CASE x \in client.buffer
    BY <2>0, <2>1 DEF StreamInv, NoGaps, BufferInOrder
  <2>2. CASE x \notin client.buffer
    BY <1>4, <1>6, <2>0, <2>2
  <2> QED BY <2>1, <2>2
<1>13. Phases'
  <2>1. client.everOpened
    BY <1>0 DEF StreamInv, Beneath, Phases
  <2> QED BY <1>1, <1>6, <2>1 DEF StreamInv, Beneath, Phases
<1>14. PageFirst' /\ replay'.page \subseteq Committed
  BY <1>1, <1>6 DEF StreamInv, Beneath, Known, PageFirst
<1>15. NoGaps'
  BY <1>10, <1>11, <1>12 DEF NoGaps
<1> QED BY <1>1, <1>6, <1>8, <1>13, <1>14, <1>15, ClientKeeps

(* What the steps of the client start from. *)
LEMMA ClientFacts ==
  ASSUME StreamInv
  PROVE  /\ client \in ClientState /\ replay \in ReplayState /\ wire \in [Wire -> WireState]
         /\ client.cursor \in 0..MaxEvent /\ client.cursor \in Committed \cup {0}
         /\ client.buffer \in SUBSET Event /\ client.buffer \subseteq Committed
         /\ replay.page \in SUBSET Event /\ replay.page \subseteq Committed
         /\ \A d \in Owed : client.cursor < d /\ d \in Beyond(client.cursor) /\ d \in Event
         /\ Phases
<1>1. client \in ClientState /\ replay \in ReplayState /\ wire \in [Wire -> WireState]
  BY StreamTypesNamed DEF StreamInv, WireTypes
<1>2. \A d \in Owed : client.cursor < d
  BY OwedIsAhead DEF StreamInv
<1>3. client.cursor \in 0..MaxEvent /\ client.buffer \in SUBSET Event /\ replay.page \in SUBSET Event
  BY <1>1 DEF ClientState, ReplayState
<1>4. client.cursor \in Committed \cup {0} /\ replay.page \subseteq Committed
      /\ client.buffer \subseteq Committed /\ Phases
  BY DEF StreamInv, Beneath, Known, OutboxInOrder
<1>5. \A d \in Owed : d \in Beyond(client.cursor) /\ d \in Event
  BY <1>2, <1>3 DEF Owed, Beyond, Committed
<1> QED BY <1>1, <1>2, <1>3, <1>4, <1>5

(* The page that is read holds the first of the events that are owed, which are beyond
   the cursor; those it leaves out are not beyond the head. *)
LEMMA AnswerReplayKeeps == StreamInv /\ WireTypes' /\ AnswerReplay => StreamInv'
<1> SUFFICES ASSUME StreamInv, WireTypes', AnswerReplay PROVE StreamInv'
  OBVIOUS
<1>1. /\ UNCHANGED <<serverVars, wire, frames, client, applied, exposed>>
      /\ replay.at = "asking"
      /\ replay' = [replay EXCEPT !.at = "answered", !.head = Newest, !.page = FirstPage]
  BY DEF AnswerReplay, FirstPage
<1>2. /\ replay'.at = "answered" /\ replay'.head = Newest /\ replay'.page = FirstPage
      /\ replay'.required = replay.required
  BY <1>1, ClientFacts DEF ReplayState
<1>3. Owed' = Owed
  BY <1>1 DEF Owed, Committed, serverVars
<1>4. FirstPage \subseteq Committed
  BY PageIsFirst DEF Beyond
<1>5. ASSUME NEW d \in Owed PROVE Accounted(d) => Accounted(d)'
  <2>1. d \in Beyond(client.cursor) /\ d \in Committed
    BY ClientFacts DEF Beyond
  <2>2. FirstPage # {} /\ d <= Newest
    BY <2>1, PageIsFirst, NewestIsLast
  <2> QED BY <1>1, <1>2, <2>2 DEF Accounted, Caught
<1>6. PageFirst'
  <2> SUFFICES ASSUME NEW p \in FirstPage, NEW d \in Owed, d < p PROVE d \in FirstPage
    BY <1>2, <1>3 DEF PageFirst
  <2> QED BY ClientFacts, PageIsFirst
<1>7. Phases'
  BY <1>1, <1>2, ClientFacts DEF Phases
<1> QED BY <1>1, <1>2, <1>3, <1>4, <1>5, <1>6, <1>7, ClientRests, ClientFacts

(* A page is applied: the cursor passes no owed event that is not of the page. *)
LEMMA PageApplied ==
  ASSUME StreamInv, replay.at = "answered", UNCHANGED event, exposed \subseteq exposed',
         applied \cup {e \in replay.page : e > client.cursor} \subseteq applied'
  PROVE  \A d \in Owed' : /\ d \in Owed /\ d \notin replay.page
                          /\ Past(client.cursor, replay.page) < d
<1> SUFFICES ASSUME NEW d \in Owed'
             PROVE  d \in Owed /\ d \notin replay.page /\ Past(client.cursor, replay.page) < d
  OBVIOUS
<1>1. d \in Owed
  BY DEF Owed, Committed
<1>2. client.cursor < d /\ d \in Event
  BY <1>1, ClientFacts
<1>3. d \notin replay.page
  <2>1. d \notin applied'
    BY DEF Owed
  <2>2. client.cursor \in 0..MaxEvent
    BY ClientFacts
  <2> QED BY <1>2, <2>1, <2>2
<1>4. \A p \in replay.page : p \in Event /\ ~(d < p)
  BY <1>1, <1>3, ClientFacts DEF StreamInv, PageFirst
<1>5. Past(client.cursor, replay.page) \in replay.page \cup {client.cursor}
  BY ClientFacts, PastIsLast
<1> QED BY <1>1, <1>2, <1>3, <1>4, <1>5

LEMMA NextPageKeeps == StreamInv /\ WireTypes' /\ NextPage => StreamInv'
<1> SUFFICES ASSUME StreamInv, WireTypes', NextPage PROVE StreamInv'
  OBVIOUS
<1>1. /\ UNCHANGED <<serverVars, wire, frames, exposed>> /\ replay.at = "answered"
      /\ client' = [client EXCEPT !.cursor = Past(client.cursor, replay.page), !.buffering = TRUE]
      /\ applied' = applied \cup {e \in replay.page : e > client.cursor}
      /\ replay' = [replay EXCEPT !.at = "asking", !.page = {}, !.head = 0, !.pages = @ + 1]
  BY DEF NextPage
<1>2. /\ client'.cursor = Past(client.cursor, replay.page) /\ client'.buffering
      /\ client'.buffer = client.buffer /\ client'.everOpened = client.everOpened
      /\ replay'.at = "asking" /\ replay'.page = {} /\ replay'.required = replay.required
  BY <1>1, ClientFacts DEF ClientState, ReplayState
<1>3. \A d \in Owed' : d \in Owed /\ client'.cursor < d
  BY <1>1, <1>2, PageApplied DEF serverVars
<1>4. client'.cursor \in Committed \cup {0}
  BY <1>2, ClientFacts, PastIsLast
<1>5. \A d \in Owed' : Accounted(d) => Accounted(d)'
  BY <1>1, <1>2 DEF Accounted, Caught
<1>6. Phases' /\ PageFirst'
  BY <1>1, <1>2, ClientFacts DEF Phases, PageFirst
<1>7. client'.buffer \subseteq client.buffer /\ replay'.page \subseteq Committed
  BY <1>2
<1> QED BY <1>1, <1>3, <1>4, <1>5, <1>6, <1>7, ClientRests

(* A page and then the buffer are applied: no owed event is left before an event of the
   buffer, if those that a catch-up was to apply are done with. *)
LEMMA DrainKeeps ==
  ASSUME StreamInv, WireTypes', UNCHANGED <<serverVars, wire, frames>>, exposed \subseteq exposed',
         NEW page, page \subseteq replay.page, page \subseteq Committed, Drain(page),
         replay.at \in {"asking", "answered"}, replay'.at \in {"none", "checking"}, replay'.page = {},
         \A d \in Owed' : d \in Owed /\ d \notin page /\ Past(client.cursor, page) < d /\ ~Caught(d)
  PROVE  StreamInv'
<1> DEFINE cursor == Past(client.cursor, page)
<1>1. client \in ClientState /\ client.cursor \in 0..MaxEvent /\ page \in SUBSET Event
  BY ClientFacts DEF Committed
<1>2. cursor \in page \cup {client.cursor} /\ cursor \in 0..MaxEvent
  BY <1>1, PastIsLast
<1>3. \A d \in Owed' : d \in Owed /\ cursor < d /\ ~Caught(d)
  OBVIOUS
<1>4. /\ client' = [client EXCEPT !.cursor = Past(cursor, client.buffer), !.buffer = {},
                                 !.buffering = FALSE]
      /\ {e \in client.buffer : e > cursor} \subseteq applied'
  BY DEF Drain
<1> HIDE DEF cursor
<1>5. /\ client'.cursor = Past(cursor, client.buffer) /\ client'.buffer = {} /\ ~client'.buffering
      /\ client'.everOpened = client.everOpened
  BY <1>1, <1>4 DEF ClientState
<1>6. client'.cursor \in client.buffer \cup {cursor}
  BY <1>2, <1>5, ClientFacts, PastIsLast
<1>7. ASSUME NEW d \in Owed' PROVE client'.cursor < d /\ ~Accounted(d)
  <2>1. d \in Owed /\ cursor < d /\ ~Caught(d) /\ d \notin applied' /\ d \in Event
    BY <1>3, ClientFacts DEF Owed
  <2>2. d \notin client.buffer
    BY <1>2, <1>4, <2>1
  <2>3. ~Accounted(d)
    BY <2>1, <2>2 DEF Accounted
  <2>4. \A e \in client.buffer : e \in Event /\ ~(d < e)
    BY <2>1, <2>3, ClientFacts DEF StreamInv, NoGaps, BufferInOrder
  <2> QED BY <1>6, <2>1, <2>2, <2>3, <2>4
<1>8. client'.cursor \in Committed \cup {0}
  BY <1>2, <1>6, ClientFacts
<1>9. Phases' /\ PageFirst'
  BY <1>5, ClientFacts DEF Phases, PageFirst
<1>10. client'.buffer \subseteq client.buffer /\ replay'.page \subseteq Committed
  BY <1>5
<1> QED BY <1>3, <1>7, <1>8, <1>9, <1>10, ClientRests

LEMMA LastPageKeeps == StreamInv /\ WireTypes' /\ LastPage => StreamInv'
<1> SUFFICES ASSUME StreamInv, WireTypes', LastPage PROVE StreamInv'
  OBVIOUS
<1>1. /\ UNCHANGED <<serverVars, wire, frames>> /\ replay.at = "answered" /\ Drain(replay.page)
      /\ replay'.at \in {"none", "checking"} /\ replay'.page = {}
      /\ exposed \subseteq exposed'
      /\ replay.page # {} =>
           {e \in Beyond(Past(client.cursor, replay.page)) : e <= replay.head} \subseteq exposed'
  BY DEF LastPage, NoReplay
<1>2. \A d \in Owed' : /\ d \in Owed /\ d \notin replay.page
                       /\ Past(client.cursor, replay.page) < d
  BY <1>1, PageApplied DEF Drain, serverVars
<1>3. ASSUME NEW d \in Owed' PROVE ~Caught(d)
  <2>1. d \in Beyond(Past(client.cursor, replay.page)) /\ d \notin exposed'
    <3>1. Past(client.cursor, replay.page) \in 0..MaxEvent
      BY ClientFacts, PastIsLast
    <3> QED BY <1>2, <3>1, ClientFacts DEF Beyond, Owed, Committed
  <2> QED BY <1>1, <2>1 DEF Caught
<1>4. replay.page \subseteq Committed
  BY ClientFacts
<1> QED BY <1>1, <1>2, <1>3, <1>4, DrainKeeps

LEMMA AuditFailsKeeps == StreamInv /\ WireTypes' /\ AuditFails => StreamInv'
<1> SUFFICES ASSUME StreamInv, WireTypes', AuditFails PROVE StreamInv'
  OBVIOUS
<1>1. /\ UNCHANGED <<serverVars, wire, frames, exposed>> /\ replay.at \in {"asking", "answered"}
      /\ ~replay.required /\ Drain({}) /\ replay'.at = "checking" /\ replay'.page = {}
  BY DEF AuditFails, NoReplay
<1>2. \A d \in Owed' : d \in Owed
  BY <1>1 DEF Owed, Committed, Drain, serverVars
<1>3. Past(client.cursor, {}) = client.cursor
  BY ClientFacts, PastIsLast
<1>4. \A d \in Owed' : Past(client.cursor, {}) < d /\ ~Caught(d)
  BY <1>1, <1>2, <1>3, ClientFacts DEF Caught
<1> QED BY <1>1, <1>2, <1>4, DrainKeeps

LEMMA PollKeeps == StreamInv /\ WireTypes' /\ Poll => StreamInv'
<1> SUFFICES ASSUME StreamInv, WireTypes', Poll PROVE StreamInv'
  OBVIOUS
<1>1. /\ UNCHANGED <<serverVars, wire, frames, replay, exposed>>
      /\ client' = [client EXCEPT !.cursor = Past(client.cursor, FirstPage)]
      /\ applied' = applied \cup FirstPage
  BY DEF Poll, FirstPage
<1>2. /\ client'.cursor = Past(client.cursor, FirstPage) /\ client'.buffer = client.buffer
      /\ client'.buffering = client.buffering /\ client'.everOpened = client.everOpened
      /\ client'.open = client.open
  BY <1>1, ClientFacts DEF ClientState
<1>3. FirstPage \in SUBSET Event /\ FirstPage \subseteq Committed
  BY PageIsFirst DEF Beyond
<1>4. client'.cursor \in FirstPage \cup {client.cursor}
  BY <1>2, <1>3, ClientFacts, PastIsLast
<1>5. ASSUME NEW d \in Owed' PROVE d \in Owed /\ client'.cursor < d
  <2>1. d \in Owed /\ d \notin FirstPage
    BY <1>1 DEF Owed, Committed, serverVars
  <2>2. client.cursor < d /\ d \in Beyond(client.cursor) /\ d \in Event
    BY <2>1, ClientFacts
  <2>3. \A p \in FirstPage : p \in Event /\ ~(d < p)
    BY <1>3, <2>1, <2>2, PageIsFirst
  <2> QED BY <1>4, <2>1, <2>2, <2>3
<1>6. \A d \in Owed' : Accounted(d) => Accounted(d)'
  BY <1>1, <1>2 DEF Accounted, Caught
<1>7. Phases'
  BY <1>1, <1>2, ClientFacts DEF Phases
<1>8. PageFirst'
  BY <1>1, <1>5 DEF PageFirst, StreamInv
<1>9. /\ client'.cursor \in Committed \cup {0} /\ client'.buffer \subseteq client.buffer
      /\ replay'.page \subseteq Committed
  BY <1>1, <1>2, <1>3, <1>4, ClientFacts
<1> QED BY <1>1, <1>5, <1>6, <1>7, <1>8, <1>9, ClientRests

(* A step that applies nothing: what is exposed is no longer owed. *)
LEMMA NothingApplied ==
  ASSUME StreamInv, UNCHANGED <<event, applied>>, exposed \subseteq exposed'
  PROVE  \A d \in Owed' : d \in Owed /\ client.cursor < d /\ d \notin exposed'
  BY ClientFacts DEF Owed, Committed

(* A socket that opens starts a catch-up, or exposes what is beyond the cursor. *)
LEMMA OpensKeeps ==
  ASSUME StreamInv, WireTypes', NEW s \in Wire, Opens(s)
  PROVE  StreamInv'
<1>1. /\ UNCHANGED <<serverVars, frames, applied>> /\ exposed \subseteq exposed'
      /\ wire' = [wire EXCEPT ![s] = [at |-> "open", hub |-> TRUE]]
  BY DEF Opens
<1>2. \A d \in Owed' : d \in Owed /\ client.cursor < d /\ d \notin exposed'
  BY <1>1, NothingApplied DEF serverVars
<1>3. /\ client'.cursor = client.cursor /\ client'.buffer = client.buffer /\ client'.everOpened
      /\ replay'.page \subseteq Committed
      /\ replay'.at # "answered" \/ replay' = replay
      /\ ~client'.buffering => client.buffer = {} /\ replay'.at \in {"none", "checking"}
      /\ \A d \in Owed' : Accounted(d)'
  <2>1. CASE replay.at = "none"
    <3>1. /\ replay' = [NoReplay EXCEPT !.at = "asking", !.required = TRUE]
          /\ client' = [client EXCEPT !.open = TRUE, !.everOpened = TRUE, !.failures = 0,
                                      !.buffering = TRUE]
      BY <2>1 DEF Opens
    <3>2. replay'.at = "asking" /\ replay'.required /\ replay'.page = {}
      BY <3>1 DEF NoReplay
    <3>3. /\ client'.cursor = client.cursor /\ client'.buffer = client.buffer /\ client'.everOpened
          /\ client'.buffering
      BY <3>1, ClientFacts DEF ClientState
    <3> QED BY <3>2, <3>3 DEF Accounted, Caught
  <2>2. CASE replay.at # "none"
    <3>1. /\ client' = [client EXCEPT !.open = TRUE, !.everOpened = TRUE, !.failures = 0]
          /\ replay' = replay /\ Beyond(client.cursor) \subseteq exposed'
      BY <2>2 DEF Opens
    <3>2. /\ client'.cursor = client.cursor /\ client'.buffer = client.buffer /\ client'.everOpened
          /\ client'.buffering = client.buffering
      BY <3>1, ClientFacts DEF ClientState
    <3>3. Owed' = {}
      BY <1>2, <3>1, ClientFacts
    <3> QED BY <3>1, <3>2, <3>3, ClientFacts DEF Phases
  <2> QED BY <2>1, <2>2
<1>4. Phases'
  BY <1>3 DEF Phases
<1>5. PageFirst'
  BY <1>2, <1>3 DEF PageFirst, StreamInv
<1>6. \A t \in Wire : wire'[t].hub => frames'[t] = frames[t] /\ \A d \in Owed' : Accounted(d)'
  BY <1>1, <1>3
<1>7. client'.cursor \in Committed \cup {0} /\ client'.buffer \subseteq client.buffer
  BY <1>3, ClientFacts
<1> QED BY <1>1, <1>2, <1>3, <1>4, <1>5, <1>6, <1>7, ClientRests

(* A socket that is lost: what is owed is still accounted for, whatever was on its way. *)
LEMMA LostKeeps ==
  ASSUME StreamInv, WireTypes', UNCHANGED <<serverVars, applied, exposed>>,
         client'.cursor = client.cursor, client'.everOpened = client.everOpened,
         \/ client'.buffer = client.buffer /\ client'.buffering = client.buffering
         \/ ~client.everOpened /\ client'.buffer = {},
         client'.open => client.open,
         \/ replay' = replay
         \/ /\ client.buffering /\ ~client'.open /\ client.everOpened
            /\ replay'.at = "none" /\ replay'.page = {},
         \A s \in Wire : frames'[s] \in {frames[s], <<>>},
         \A s \in Wire : wire'[s].hub => wire[s].hub /\ frames'[s] = frames[s]
  PROVE  StreamInv'
<1>1. \A d \in Owed' : d \in Owed /\ client.cursor < d
  BY NothingApplied DEF serverVars
<1>2. CASE client.everOpened
  <2>1. \A d \in Owed' : Accounted(d) => Accounted(d)'
    BY <1>2 DEF Accounted, Caught
  <2>2. Phases'
    BY <1>2, ClientFacts DEF Phases
  <2>3. PageFirst'
    BY <1>1 DEF PageFirst, StreamInv
  <2>4. /\ client'.cursor \in Committed \cup {0} /\ client'.buffer \subseteq client.buffer
        /\ replay'.page \subseteq Committed
    BY <1>2, ClientFacts
  <2> QED BY <1>1, <2>1, <2>2, <2>3, <2>4, ClientRests
<1>3. CASE ~client.everOpened
  <2>1. /\ client.buffer = {} /\ replay' = replay /\ replay.at = "none" /\ client'.buffer = {} /\ ~client'.open
        /\ \A s \in Wire : frames'[s] = <<>> /\ ~wire'[s].hub
    BY <1>3, ClientFacts DEF Phases
  <2>2. Phases' /\ PageFirst'
    BY <1>3, <2>1 DEF Phases, PageFirst
  <2>3. NoGaps'
    BY <2>1 DEF NoGaps, FramesInOrder, Handed, BufferInOrder
  <2>4. \A s \in Wire : \A i \in 1..Len(frames'[s]) : frames'[s][i] \in published
    BY <2>1
  <2>5. \A d \in Owed' : d \in Owed /\ client'.cursor < d
    BY <1>1
  <2>6. /\ client'.cursor \in Committed \cup {0} /\ client'.buffer \subseteq published
        /\ replay'.page \subseteq Committed
    BY <2>1, ClientFacts
  <2> QED BY <2>2, <2>3, <2>4, <2>5, <2>6, ClientKeeps
<1> QED BY <1>2, <1>3

LEMMA DroppedKeeps ==
  ASSUME StreamInv, WireTypes', Dropped, UNCHANGED <<serverVars, applied, exposed>>,
         \/ replay' = replay
         \/ replay.at \in {"asking", "answered"} /\ replay' = NoReplay
  PROVE  StreamInv'
<1>1. client' = [client EXCEPT !.open = FALSE, !.socket = 0, !.timer = TRUE]
  BY DEF Dropped
<1>2. /\ client'.cursor = client.cursor /\ client'.everOpened = client.everOpened
      /\ client'.buffer = client.buffer /\ client'.buffering = client.buffering /\ ~client'.open
  BY <1>1, ClientFacts DEF ClientState
<1>3. \A s \in Wire : /\ frames'[s] \in {frames[s], <<>>}
                      /\ wire'[s].hub => wire[s].hub /\ frames'[s] = frames[s]
  BY DEF Dropped
<1>4. replay.at \in {"asking", "answered"} => client.buffering /\ client.everOpened
  BY ClientFacts DEF Phases
<1>5. NoReplay.at = "none" /\ NoReplay.page = {}
  BY DEF NoReplay
<1> QED BY <1>2, <1>3, <1>4, <1>5, LostKeeps

LEMMA ClosesKeeps ==
  ASSUME StreamInv, WireTypes', NEW s \in Wire, Closes(s)
  PROVE  StreamInv'
<1>1. /\ UNCHANGED <<serverVars, replay, applied, exposed>>
      /\ wire' = [wire EXCEPT ![s] = [at |-> "closed", hub |-> FALSE]]
      /\ frames' = [frames EXCEPT ![s] = <<>>]
  BY DEF Closes
<1> DEFINE failed == IF client.everOpened THEN client.failures ELSE client.failures + 1
<1>2. \/ /\ ~client.everOpened
         /\ client' = [client EXCEPT !.open = FALSE, !.socket = 0, !.failures = failed,
                          !.polling = TRUE, !.buffering = FALSE, !.buffer = {}, !.timer = FALSE]
      \/ client' = [client EXCEPT !.open = FALSE, !.socket = 0, !.failures = failed, !.timer = TRUE]
  BY ClientFacts DEF Closes, ClientState
<1> HIDE DEF failed
<1>3. /\ client'.cursor = client.cursor /\ client'.everOpened = client.everOpened /\ ~client'.open
      /\ \/ client'.buffer = client.buffer /\ client'.buffering = client.buffering
         \/ ~client.everOpened /\ client'.buffer = {}
  BY <1>2, ClientFacts DEF ClientState
<1>4. frames \in [Wire -> Seq(Event)]
  BY StreamTypesNamed DEF StreamInv, WireTypes
<1>5. \A t \in Wire : /\ frames'[t] \in {frames[t], <<>>}
                      /\ wire'[t].hub => wire[t].hub /\ frames'[t] = frames[t]
  BY <1>1, <1>4, ClientFacts
<1> QED BY <1>1, <1>3, <1>5, LostKeeps

LEMMA GoesDeadKeeps ==
  ASSUME StreamInv, WireTypes', NEW s \in Wire, GoesDead(s)
  PROVE  StreamInv'
<1>1. /\ UNCHANGED <<serverVars, frames, client, replay, applied, exposed>>
      /\ wire' = [wire EXCEPT ![s].hub = FALSE]
  BY DEF GoesDead
<1>2. \A t \in Wire : wire'[t].hub => wire[t].hub
  BY <1>1, ClientFacts DEF WireState
<1> QED BY <1>1, <1>2, LostKeeps

(* The next connection is dialled, and what was buffered is exposed. *)
LEMMA DialKeeps == StreamInv /\ WireTypes' /\ Dial => StreamInv'
<1> SUFFICES ASSUME StreamInv, WireTypes', Dial PROVE StreamInv'
  OBVIOUS
<1> DEFINE n == Cardinality(Used) + 1
<1>1. /\ UNCHANGED <<serverVars, frames, replay, applied>> /\ exposed' = exposed \cup client.buffer
      /\ wire' = [wire EXCEPT ![n].at = "connecting"]
      /\ client' = [client EXCEPT !.timer = FALSE, !.buffering = TRUE, !.buffer = {}, !.socket = n]
  BY DEF Dial
<1> HIDE DEF n
<1>2. /\ client'.cursor = client.cursor /\ client'.everOpened = client.everOpened
      /\ client'.buffer = {} /\ client'.buffering /\ client'.open = client.open
  BY <1>1, ClientFacts DEF ClientState
<1>3. \A d \in Owed' : d \in Owed /\ client'.cursor < d /\ d \notin client.buffer
  BY <1>1, <1>2, NothingApplied DEF serverVars
<1>4. \A d \in Owed' : Accounted(d) => Accounted(d)'
  BY <1>1, <1>2, <1>3 DEF Accounted, Caught
<1>5. \A t \in Wire : wire'[t].hub = wire[t].hub
  BY <1>1, ClientFacts DEF WireState
<1>6. Phases'
  BY <1>1, <1>2, <1>5, ClientFacts DEF Phases
<1>7. PageFirst'
  BY <1>1, <1>3 DEF PageFirst, StreamInv
<1>8. /\ client'.cursor \in Committed \cup {0} /\ client'.buffer \subseteq client.buffer
      /\ replay'.page \subseteq Committed
  BY <1>1, <1>2, ClientFacts
<1> QED BY <1>1, <1>3, <1>4, <1>5, <1>6, <1>7, <1>8, ClientRests

(* An audit starts only when no catch-up is needed, and a catch-up ends. *)
LEMMA AuditKeeps == StreamInv /\ WireTypes' /\ (Reconcile \/ Checked) => StreamInv'
<1> SUFFICES ASSUME StreamInv, WireTypes', Reconcile \/ Checked PROVE StreamInv'
  OBVIOUS
<1>1. UNCHANGED <<serverVars, wire, frames, applied, exposed>>
  BY DEF Reconcile, Checked
<1>2. /\ client'.cursor = client.cursor /\ client'.everOpened = client.everOpened
      /\ client'.buffer = client.buffer /\ client'.open = client.open
      /\ \/ /\ client'.buffering /\ replay.at = "none" /\ client.open
            /\ replay'.at = "asking" /\ replay'.page = {}
         \/ /\ client'.buffering = client.buffering /\ replay.at = "checking"
            /\ replay'.at = "none" /\ replay'.page = {}
  <2>1. CASE Checked
    BY <2>1 DEF Checked, NoReplay
  <2>2. CASE Reconcile
    <3>1. client' = [client EXCEPT !.buffering = TRUE] /\ client \in ClientState
      BY <2>2, ClientFacts DEF Reconcile
    <3>2. /\ client'.cursor = client.cursor /\ client'.everOpened = client.everOpened
          /\ client'.buffer = client.buffer /\ client'.open = client.open /\ client'.buffering
      BY <3>1 DEF ClientState
    <3> QED BY <2>2, <3>2 DEF Reconcile, NoReplay
  <2> QED BY <2>1, <2>2
<1>3. \A d \in Owed' : d \in Owed /\ client'.cursor < d
  BY <1>1, <1>2, NothingApplied DEF serverVars
<1>4. \A d \in Owed' : Accounted(d) => Accounted(d)'
  BY <1>2 DEF Accounted, Caught
<1>5. /\ client'.cursor \in Committed \cup {0} /\ client'.buffer \subseteq client.buffer
      /\ replay'.page \subseteq Committed
  BY <1>2, ClientFacts
<1>6. PageFirst'
  BY <1>2 DEF PageFirst
<1>7. Phases'
  BY <1>1, <1>2, ClientFacts DEF Phases
<1> QED BY <1>1, <1>3, <1>4, <1>5, <1>6, <1>7, ClientRests

LEMMA StreamStep == StreamInv /\ [StreamNext]_streamVars => StreamInv'
<1> SUFFICES ASSUME StreamInv, [StreamNext]_streamVars PROVE StreamInv'
  OBVIOUS
<1>1. WireTypes'
  BY StreamTypeStep DEF StreamInv
<1>2. CASE \E e \in Event : Draw(e) \/ Commit(e) \/ RollBack(e) \/ Deliver(e)
  BY <1>1, <1>2, RowsKeep, DeliverKeeps
<1>3. CASE \E s \in Wire : Receive(s) \/ Opens(s) \/ GoesDead(s) \/ Closes(s)
  BY <1>1, <1>3, ReceiveKeeps, OpensKeeps, GoesDeadKeeps, ClosesKeeps
<1>4. CASE AnswerReplay \/ NextPage \/ LastPage \/ AuditFails \/ Poll \/ Dial
  BY <1>1, <1>4, AnswerReplayKeeps, NextPageKeeps, LastPageKeeps, AuditFailsKeeps, PollKeeps, DialKeeps
<1>5. CASE Reconcile \/ Checked
  BY <1>1, <1>5, AuditKeeps
<1>6. CASE CatchUpFails \/ Silent
  BY <1>1, <1>6, DroppedKeeps DEF CatchUpFails, Silent
<1>7. CASE UNCHANGED streamVars
  <2>1. OutboxInOrder' /\ Known' /\ Phases' /\ NothingSkipped' /\ PageFirst'
    BY <1>7 DEF streamVars, StreamInv, Beneath, OutboxInOrder, Known, Phases, NothingSkipped, PageFirst,
       Owed, Committed
  <2>2. NoGaps'
    BY <1>7 DEF streamVars, StreamInv, NoGaps, FramesInOrder, Handed, BufferInOrder, Accounted, Caught,
       Ahead, Owed, Committed
  <2> QED BY <1>1, <2>1, <2>2 DEF StreamInv, Beneath
<1> QED BY <1>2, <1>3, <1>4, <1>5, <1>6, <1>7 DEF StreamNext

LEMMA StreamStart == StreamInit => StreamInv
<1> SUFFICES ASSUME StreamInit PROVE StreamInv
  OBVIOUS
<1>1. Committed = {} /\ published = {} /\ Owed = {}
  BY DEF StreamInit, Committed, Owed
<1>2. \A s \in Wire : frames[s] = <<>> /\ ~wire[s].hub
  BY DEF StreamInit
<1>3. /\ client.cursor = 0 /\ client.buffer = {} /\ client.buffering /\ ~client.open
      /\ replay.at = "none" /\ replay.page = {}
  BY DEF StreamInit, NoReplay
<1>4. OutboxInOrder
  BY <1>1 DEF StreamInit, OutboxInOrder
<1>5. Known /\ Phases
  BY <1>2, <1>3 DEF Known, Phases
<1>6. NothingSkipped /\ NoGaps /\ PageFirst
  BY <1>1, <1>3 DEF NothingSkipped, NoGaps, FramesInOrder, Handed, BufferInOrder, PageFirst
<1> QED BY <1>4, <1>5, <1>6, StreamTypeInit DEF StreamInv, Beneath

(* NothingSkipped always holds, with any number of sockets at once: a socket brings what
   was published since it opened in the order of its ids, and what was published before
   is applied by the catch-up its onopen starts, with live events buffered until then. *)
THEOREM NothingSkippedAlways == StreamSpec => []NothingSkipped
<1>1. StreamInv => NothingSkipped
  BY DEF StreamInv
<1> QED BY <1>1, StreamStart, StreamStep, PTL DEF StreamSpec

-----------------------------------------------------------------------------
(* The workspace *)

(* Each part that moves is in a state of its own invariant. *)
WorkspaceInv ==
  /\ part = "mail" => MailInv
  /\ part = "plan" => PlanInv
  /\ part = "token" => TokenTypeOK
  /\ part = "access" => AccessTypeOK
  /\ part = "stream" => WireTypes
  /\ part = "invite" => InviteTypeOK
  /\ part = "decide" => DecisionInv

(* Only the chosen part moves. *)
LEMMA WorkspaceStep == WorkspaceInv /\ [WorkspaceNext]_workspaceVars => WorkspaceInv'
<1> SUFFICES ASSUME WorkspaceInv, [WorkspaceNext]_workspaceVars PROVE WorkspaceInv'
  OBVIOUS
<1>0. /\ part' = part
      /\ part = "mail" => [OutboundNext]_outreachVars
      /\ part = "plan" => [PlanNext]_workVars
      /\ part = "token" => [TokenNext]_tokenVars
      /\ part = "access" => [AccessNext]_accessVars
      /\ part = "stream" => [StreamNext]_streamVars
      /\ part = "invite" => [InviteNext]_inviteVars
      /\ part = "decide" => [DecisionNext]_decisionVars
  BY DEF WorkspaceNext, MailMoves, PlanMoves, TokenMoves, AccessMoves, StreamMoves, InviteMoves,
         DecisionMoves, workspaceVars, outreachVars, workVars
<1>1. part = "mail" => MailInv'
  BY <1>0, MailStep DEF WorkspaceInv
<1>2. part = "plan" => PlanInv'
  BY <1>0, PlanStep DEF WorkspaceInv
<1>3. part = "token" => TokenTypeOK'
  BY <1>0, TokenStep DEF WorkspaceInv
<1>4. part = "access" => AccessTypeOK'
  BY <1>0, AccessStep DEF WorkspaceInv
<1>5. part = "stream" => WireTypes'
  BY <1>0, StreamTypeStep DEF WorkspaceInv
<1>6. part = "invite" => InviteTypeOK'
  BY <1>0, InviteTypes DEF WorkspaceInv
<1>7. part = "decide" => DecisionInv'
  BY <1>0, DecisionStep DEF WorkspaceInv
<1> QED BY <1>0, <1>1, <1>2, <1>3, <1>4, <1>5, <1>6, <1>7 DEF WorkspaceInv

(* WorkspaceTypeOK always holds: every part stays in the states of its types, whatever
   the constants are, and without the bounds of the run. *)
THEOREM WorkspaceTyping == WorkspaceSpec => []WorkspaceTypeOK
<1>1. WorkspaceInit => WorkspaceInv
  <2> SUFFICES ASSUME WorkspaceInit PROVE WorkspaceInv
    OBVIOUS
  <2>1. /\ OutboundInit /\ PlanInit /\ TokenInit /\ AccessInit /\ StreamInit /\ InviteInit
        /\ DecisionInit
    BY DEF WorkspaceInit
  <2>2. MailInv /\ TokenTypeOK /\ WireTypes /\ InviteTypeOK /\ DecisionInv
    BY <2>1, MailInit, TokenStart, StreamTypeInit, InviteStart, DecisionStart
  <2>3. PlanInv
    BY <2>1, PlanInits DEF OutboundInit
  <2>4. AccessTypeOK
    BY <2>1, AccessStart
  <2> QED BY <2>2, <2>3, <2>4 DEF WorkspaceInv
<1>2. WorkspaceInv => WorkspaceTypeOK
  BY MailTyped, PlanTyped DEF WorkspaceInv, WorkspaceTypeOK, WireTypes, DecisionInv
<1> QED BY <1>1, <1>2, WorkspaceStep, PTL DEF WorkspaceSpec
=============================================================================

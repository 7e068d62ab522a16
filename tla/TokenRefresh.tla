--------------------------- MODULE TokenRefresh ---------------------------
(***************************************************************************)
(* A stored OAuth token whose provider rotates the refresh token           *)
(* (keys/token-refresh.ts), as a sending account uses it                   *)
(* (outbound-email/gmail-store.ts); model keys and Slack use it alike.     *)
(*                                                                         *)
(* The refresh of a request locks the row, calls the provider and stores   *)
(* the answer in one transaction of its own.  Nothing else touches the row *)
(* meanwhile, so it is one action with its outcomes; but when the store    *)
(* fails the answer is stored again in later transactions, with the row    *)
(* free in between.                                                        *)
(* Tokens are numbered as they are issued.  Left out: the access token     *)
(* itself, sealing, a provider's grace period for a spent token, a grant   *)
(* it revokes on its own, and a COMMIT whose outcome is unknown.           *)
(***************************************************************************)
EXTENDS Integers

CONSTANTS
  Request,
  StoreAttempts,   \* STORE_ATTEMPTS
  MaxToken         \* bound: the tokens issued

ASSUME StoreAttemptsAssumption == StoreAttempts \in Nat \ {0}
ASSUME MaxTokenAssumption == MaxToken \in Nat \ {0}

Token == 1..MaxToken
NoToken == 0

VARIABLES
  account,   \* the row: its status and its sealed refresh token
  expired,   \* the access token needs a refresh
  issued,    \* external: how many tokens the provider has issued
  live,      \* external: the refresh tokens it still honours
  request,   \* what each request does, with the answer it has yet to store
  unstored   \* history: an answer was not stored in the transaction that got it

tokenVars == <<account, expired, issued, live, request, unstored>>

AtRest == [at |-> "idle", token |-> NoToken, stores |-> 0]

TokenTypeOK ==
  /\ account \in [status : {"connected", "error", "revoked"}, token : Token \cup {NoToken}]
  /\ expired \in BOOLEAN
  /\ issued \in Token /\ live \subseteq 1..issued
  /\ request \in [Request -> [at : {"idle", "stale", "holding", "refused"},
                              token : Token \cup {NoToken}, stores : 0..(StoreAttempts - 1)]]
  /\ unstored \in BOOLEAN

TokenInit ==
  /\ account = [status |-> "connected", token |-> 1]
  /\ expired = FALSE
  /\ issued = 1 /\ live = {1}
  /\ request = [r \in Request |-> AtRest]
  /\ unstored = FALSE

-----------------------------------------------------------------------------
(* resolveSendingAccessToken, refreshRotatingToken *)

Doing(r, place) == request[r].at = place
Rest(r) == request' = [request EXCEPT ![r] = AtRest]
Provider == <<issued, live>>

(* The caller's transaction finds the token stale, without a lock. *)
ReadStale(r) ==
  /\ Doing(r, "idle")
  /\ account.status = "connected" /\ expired
  /\ request' = [request EXCEPT ![r] = [@ EXCEPT !.at = "stale", !.token = account.token]]
  /\ UNCHANGED <<account, expired, Provider, unstored>>

(* lock throws, or reuse finds that another request has refreshed it. *)
NotNeeded(r) ==
  /\ Doing(r, "stale")
  /\ account.status # "connected" \/ ~expired
  /\ Rest(r)
  /\ UNCHANGED <<account, expired, Provider, unstored>>

(* Mutant of Spent: the token the caller had read. *)
SpentAsRead(r) == request[r].token
(* The locked row's token, whatever the caller had read. *)
Spent(r) == account.token

MayExchange(r) == Doing(r, "stale") /\ account.status = "connected" /\ expired

Unanswered(r) ==
  /\ MayExchange(r)
  /\ Rest(r)
  /\ UNCHANGED <<account, expired, Provider, unstored>>

ExchangeRefused(r) ==
  /\ MayExchange(r)
  /\ Spent(r) \notin live
  /\ request' = [request EXCEPT ![r] = [AtRest EXCEPT !.at = "refused"]]
  /\ UNCHANGED <<account, expired, Provider, unstored>>

Rotated(r) ==
  /\ MayExchange(r)
  /\ Spent(r) \in live /\ issued < MaxToken
  /\ issued' = issued + 1
  /\ live' = (live \ {Spent(r)}) \cup {issued'}

Exchanged(r) ==
  /\ Rotated(r)
  /\ account' = [account EXCEPT !.token = issued']
  /\ expired' = FALSE
  /\ Rest(r)
  /\ UNCHANGED unstored

(* The transaction fails after the provider answered. *)
StoreFails(r) ==
  /\ Rotated(r)
  /\ request' = [request EXCEPT ![r] =
       IF StoreAttempts = 1 THEN AtRest ELSE [at |-> "holding", token |-> issued', stores |-> 1]]
  /\ unstored' = TRUE
  /\ UNCHANGED <<account, expired>>

(* The process is lost between the answer and the commit. *)
AnswerLost(r) ==
  /\ Rotated(r)
  /\ Rest(r)
  /\ unstored' = TRUE
  /\ UNCHANGED <<account, expired>>

(* Mutant of StoreAgain: the row is written without being opened first. *)
StoreAgainBlind(r) ==
  /\ Doing(r, "holding")
  /\ account' = [status |-> "connected", token |-> request[r].token]
  /\ expired' = FALSE
  /\ Rest(r)
  /\ UNCHANGED <<Provider, unstored>>

(* Locked again, but whether it is still this answer's row to write is not asked. *)
StoreAgain(r) ==
  /\ Doing(r, "holding")
  /\ account.status = "connected"
  /\ account' = [account EXCEPT !.token = request[r].token]
  /\ expired' = FALSE
  /\ Rest(r)
  /\ UNCHANGED <<Provider, unstored>>

(* It fails again, or lock throws: the attempts are counted alike. *)
StoreAgainFails(r) ==
  /\ Doing(r, "holding")
  /\ request' = [request EXCEPT ![r] =
       IF request[r].stores + 1 < StoreAttempts
       THEN [request[r] EXCEPT !.stores = request[r].stores + 1] ELSE AtRest]
  /\ UNCHANGED <<account, expired, Provider, unstored>>

(* The provider will never honour this grant again: said in a transaction of its own. *)
Quarantine(r) ==
  /\ Doing(r, "refused")
  /\ account' = IF account.status = "connected" THEN [account EXCEPT !.status = "error"] ELSE account
  /\ Rest(r)
  /\ UNCHANGED <<expired, Provider, unstored>>

RequestLost(r) ==
  /\ request[r].at \in {"holding", "refused"}
  /\ Rest(r)
  /\ UNCHANGED <<account, expired, Provider, unstored>>

-----------------------------------------------------------------------------
(* Time and people *)

AccessExpires ==
  /\ ~expired
  /\ expired' = TRUE
  /\ UNCHANGED <<account, Provider, request, unstored>>

(* storeSendingAccount: also over a row that is connected. *)
Reconnect ==
  /\ issued < MaxToken
  /\ issued' = issued + 1
  /\ live' = live \cup {issued'}
  /\ account' = [status |-> "connected", token |-> issued']
  /\ expired' = FALSE
  /\ UNCHANGED <<request, unstored>>

DisconnectAccount ==
  /\ account.status # "revoked"
  /\ account' = [status |-> "revoked", token |-> NoToken]
  /\ UNCHANGED <<expired, Provider, request, unstored>>

RefreshStep(r) ==
  \/ ReadStale(r) \/ NotNeeded(r) \/ Unanswered(r) \/ ExchangeRefused(r)
  \/ Exchanged(r) \/ StoreFails(r) \/ AnswerLost(r)
  \/ StoreAgain(r) \/ StoreAgainFails(r) \/ Quarantine(r) \/ RequestLost(r)

TokenNext ==
  \/ \E r \in Request : RefreshStep(r)
  \/ AccessExpires \/ Reconnect \/ DisconnectAccount

TokenSpec == TokenInit /\ [][TokenNext]_tokenVars

-----------------------------------------------------------------------------
(* Properties *)

(* However many requests refresh at once, none spends a token another has spent, and
   the connection breaks only after an answer that its own transaction did not store:
   "two requests cannot both spend the same refresh token" (refreshRotatingToken). *)
SpentOnce ==
  ~unstored => /\ account.status # "error"
               /\ \A r \in Request : ~Doing(r, "refused")
               /\ account.status = "connected" => account.token \in live

(* A disconnected account is connected again by a person alone, with a token of that
   connection: no late store and no quarantine brings it back
   (storeSendingAccount, the UPDATE "never over a disconnect"). *)
DisconnectStands ==
  [][account.status = "revoked" /\ account' # account =>
       account'.status = "connected" /\ account'.token = issued' /\ issued' > issued]_tokenVars

(* "If that write or commit fails after the provider answered, the rotated token is
   written again": the account does not break while a request still holds its token
   (refreshRotatingToken). *)
HeldTokenIsStored ==
  account.status = "error" => \A r \in Request : Doing(r, "holding") => request[r].token \notin live
=============================================================================

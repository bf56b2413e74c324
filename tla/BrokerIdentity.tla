---------------------------- MODULE BrokerIdentity ----------------------------
(***************************************************************************)
(* Calls of the broker and the signed identity they carry: the plugin's    *)
(* DeckhandClient and IdentityProvider (client.ts, identity.ts), the MCP   *)
(* server's BrokerClient, the local issuer (macos-agent issuer.py) and the *)
(* broker's check of the token (identity.py, api.py).                      *)
(*                                                                         *)
(* Time passes in seconds.  A client and its issuer share a clock; the     *)
(* broker's is ahead of it by offset, which may be negative.  A token is   *)
(* its age on the issuer's clock.  Signatures are taken to be sound, and   *)
(* the broker to have its public key.                                      *)
(***************************************************************************)
EXTENDS Integers

CONSTANTS
  Client,          \* DeckhandClient and BrokerClient objects
  SelfMinting,     \* those of the MCP server, which sign for themselves
  TTL,             \* token_ttl_seconds of the issuer
  MAX_TTL,         \* _MAX_TTL_SECONDS
  SKEW,            \* _MAX_CLOCK_SKEW_SECONDS
  MARGIN,          \* before its expiry a token is not reused
  TOKEN_TIMEOUT,   \* AbortSignal of the fetch of a token
  CALL_TIMEOUT,    \* the longest AbortSignal, or httpx timeout, of the call itself
  Offset,          \* how far the broker's clock may be off
  MaxAge,          \* bound on the age of a token somebody still holds
  NoToken

ASSUME IdentityConstants ==
  /\ SelfMinting \subseteq Client
  /\ MAX_TTL \in Nat /\ SKEW \in Nat /\ MARGIN \in Nat /\ MaxAge \in Nat
  /\ TTL \in 1..MAX_TTL
  /\ TOKEN_TIMEOUT \in Nat /\ CALL_TIMEOUT \in Nat
  /\ Offset \subseteq Int
  /\ NoToken \notin Int

VARIABLES
  offset,   \* broker's clock minus the client's
  call,     \* how far a client's call has come
  age,      \* age of the token a client holds
  waited    \* how long its current fetch has lasted

idVars == <<offset, call, age, waited>>

Fetching == {"asking", "minted"}
Calling == {"sent", "accepted", "refused"}

IdInit ==
  /\ offset \in Offset
  /\ call = [c \in Client |-> "idle"]
  /\ age = [c \in Client |-> NoToken]
  /\ waited = [c \in Client |-> 0]

Go(c, step) == call' = [call EXCEPT ![c] = step] /\ UNCHANGED offset
Await(c, step) == Go(c, step) /\ waited' = [waited EXCEPT ![c] = 0]
Hold(c, a) == age' = [age EXCEPT ![c] = a]

-----------------------------------------------------------------------------
\* Fault: a token is used to its last second.
Reusable_to_the_end(c) == age[c] # NoToken /\ TTL > age[c]

\* IdentityProvider.token: a cached token is used until shortly before it
\* expires.
Reusable(c) == age[c] # NoToken /\ TTL - MARGIN > age[c]

ReuseToken(c) ==
  /\ call[c] = "idle" /\ c \notin SelfMinting /\ Reusable(c)
  /\ Await(c, "sent") /\ UNCHANGED age

AskIssuer(c) ==
  /\ call[c] = "idle" /\ c \notin SelfMinting /\ ~Reusable(c)
  /\ Await(c, "asking") /\ UNCHANGED age

\* Fault: issued_at is rounded up.
mint_rounded(c) ==
  /\ call[c] = "asking"
  /\ Hold(c, -1) /\ Go(c, "minted") /\ UNCHANGED waited

\* The issuer signs when the request reaches it.
mint(c) ==
  /\ call[c] = "asking"
  /\ Hold(c, 0) /\ Go(c, "minted") /\ UNCHANGED waited

\* The timeout of the call starts when the token is there.
TokenArrives(c) ==
  /\ call[c] = "minted"
  /\ Await(c, "sent") /\ UNCHANGED age

\* BrokerClient._headers: a token for every request.
mint_token(c) ==
  /\ call[c] = "idle" /\ c \in SelfMinting
  /\ Hold(c, 0) /\ Await(c, "sent")

\* The broker checks the token by its own clock.
NotYetValid(a) == -SKEW > a + offset
Expired(a) == TTL + SKEW < a + offset
LivesTooLong == TTL > MAX_TTL + SKEW

verify_token(a) == ~NotYetValid(a) /\ ~Expired(a) /\ ~LivesTooLong

Authenticate(c) ==
  /\ call[c] = "sent"
  /\ Go(c, IF verify_token(age[c]) THEN "accepted" ELSE "refused")
  /\ UNCHANGED <<age, waited>>

\* The answer of a request the broker let in.
CallReturns(c) ==
  /\ call[c] = "accepted"
  /\ Await(c, "idle") /\ UNCHANGED age

\* A refusal, an unreachable issuer or broker, a timeout: an exception that
\* ends the task and with it the client and its token.
CallFails(c) ==
  /\ call[c] \in Fetching \cup Calling
  /\ Await(c, "idle") /\ Hold(c, NoToken)

\* The task is over and the next one has a client of its own.
ClientDropped(c) ==
  /\ call[c] = "idle" /\ age[c] # NoToken
  /\ Hold(c, NoToken) /\ UNCHANGED <<offset, call, waited>>

-----------------------------------------------------------------------------
\* A second passes.  AbortSignal.timeout ends a fetch that would take longer.
Later(a) == IF a = NoToken THEN NoToken ELSE a + 1

IdTick ==
  /\ \A c \in Client :
       /\ call[c] \in Fetching => waited[c] < TOKEN_TIMEOUT
       /\ call[c] \in Calling => waited[c] < CALL_TIMEOUT
       /\ age[c] # NoToken => age[c] < MaxAge
  /\ age' = [c \in Client |-> Later(age[c])]
  /\ waited' = [c \in Client |-> IF call[c] = "idle" THEN 0 ELSE waited[c] + 1]
  /\ UNCHANGED <<offset, call>>

ClientStep(c) ==
  \/ ReuseToken(c) \/ AskIssuer(c) \/ mint(c) \/ TokenArrives(c) \/ mint_token(c)
  \/ Authenticate(c) \/ CallReturns(c) \/ CallFails(c) \/ ClientDropped(c)

IdNext == IdTick \/ \E c \in Client : ClientStep(c)

IdSpec == IdInit /\ [][IdNext]_idVars

-----------------------------------------------------------------------------
\* Every variable keeps its type; no token comes from the future.
IdTypeOK ==
  /\ offset \in Offset
  /\ call \in [Client -> {"idle"} \cup Fetching \cup Calling]
  /\ age \in [Client -> Nat \cup {NoToken}]
  /\ waited \in [Client -> Nat]

\* How far ahead the broker's clock may run before a call can be refused: the
\* skew it grants, less what a token may age on the way beyond its reserve.
LeastReserve == IF MARGIN + 1 < TTL - TOKEN_TIMEOUT THEN MARGIN + 1 ELSE TTL - TOKEN_TIMEOUT
ClocksAgree == -SKEW <= offset /\ offset <= SKEW + LeastReserve - CALL_TIMEOUT

\* A caller with a genuine identity is never turned away while the clocks
\* agree, however long its fetches take within their timeouts and however old
\* the cached token was when it was reused (identity.ts, identity.py).
HonestCallAccepted ==
  \A c \in Client : call[c] = "refused" => ~ClocksAgree
=============================================================================

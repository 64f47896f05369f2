----------------------------- MODULE Enrollment -----------------------------
(***************************************************************************)
(* Claim tokens and credentials: internal/enroll/service.go over           *)
(* store/sqlite/enroll_repo.go, the authentication hook of the broker      *)
(* (internal/mqttbroker), the HTTP handlers that mint, claim, rotate and   *)
(* revoke (internal/httpapi/enroll.go), and the half of the ESP-IDF client *)
(* that claims, uses, adopts and falls back on a password.                 *)
(* A step is one SQL statement or transaction, one write to NVS, or one    *)
(* message; handlers and connections interleave, and the slow comparison   *)
(* of a password with a hash lies between two statements. A handler whose  *)
(* statement fails has changed nothing and goes no further.                *)
(***************************************************************************)
EXTENDS Integers, FiniteSets

CONSTANTS
    Device,      \* devices
    Token,       \* claim tokens
    Handler,     \* HTTP handlers that may run at the same time
    Connection,  \* connections the broker may be working on at the same time
    MaxSecrets,  \* bound: passwords generated
    MaxRevokes,  \* bound: revocations
    MaxFaults    \* bound: SQL statements of Authenticate that fail

ASSUME EnrollmentAssumption ==
    /\ Device # {} /\ IsFiniteSet(Device) /\ IsFiniteSet(Token)
    /\ MaxSecrets \in Nat /\ MaxRevokes \in Nat /\ MaxFaults \in Nat

None == 0
Secret == 1..MaxSecrets
Anyone == "anyone"      \* the device of an unbound token
Nobody == "nobody"

\* Whom a client waits for is told from nobody.
ASSUME NobodyAssumption == Nobody \notin Handler /\ Nobody \notin Connection

VARIABLES
    tokenState,  \* claim_tokens: "unissued", "live", "spent" or "expired"
    tokenFor,    \* claim_tokens.device_id
    hash,        \* device_credentials.password_hash, None without a row
    pending,     \* device_credentials.pending_hash
    minted,      \* passwords generated so far
    pc, dev, tok, secret,      \* of each handler: place, device, token, password
    connPc, connDev, password, \* of each connection: place, device, password offered
    snapHash, snapPending,     \* ... the credentials Authenticate read
    box,         \* ... the new password on its way to the client
    claiming,    \* per device: the handler whose reply to its claim it waits for
    pass, oldPass, \* per device: KEY_PASS and KEY_OLDPASS
    link,        \* per device: the connection its client uses
    clientPc,    \* per device: "run", "adopt" or "fallBack"
    adopting,    \* per device: the password being adopted
    enrolled,    \* history, per token: the devices enrolled with it
    revokes, faults

tokenVars == <<tokenState, tokenFor, enrolled>>
credentialVars == <<hash, pending, minted>>
handlerVars == <<pc, dev, tok, secret>>
connVars == <<connPc, connDev, password, snapHash, snapPending, box>>
clientVars == <<claiming, pass, oldPass, link, clientPc, adopting>>
bounds == <<revokes, faults>>
vars == <<tokenVars, credentialVars, handlerVars, connVars, clientVars, bounds>>

Fault == faults < MaxFaults /\ faults' = faults + 1 /\ UNCHANGED revokes

NewSecret(r) ==
    /\ minted < MaxSecrets
    /\ minted' = minted + 1
    /\ secret' = [secret EXCEPT ![r] = minted + 1]

Goto(r, p) == pc' = [pc EXCEPT ![r] = p]
GotoConn(c, p) == connPc' = [connPc EXCEPT ![c] = p]

Live(d) == {c \in Connection : connPc[c] = "live" /\ connDev[c] = d}

\* The connections in C are closed; messages on them are lost.
Close(C) ==
    /\ connPc' = [c \in Connection |-> IF c \in C THEN "idle" ELSE connPc[c]]
    /\ box' = [c \in Connection |-> IF c \in C THEN None ELSE box[c]]

-----------------------------------------------------------------------------
(* Claim tokens *)

Mint(t, d) ==
    /\ tokenState[t] = "unissued"
    /\ tokenState' = [tokenState EXCEPT ![t] = "live"]
    /\ tokenFor' = [tokenFor EXCEPT ![t] = d]
    /\ UNCHANGED <<enrolled, credentialVars, handlerVars, connVars, clientVars, bounds>>

Expire(t) ==
    /\ tokenState[t] = "live"
    /\ tokenState' = [tokenState EXCEPT ![t] = "expired"]
    /\ UNCHANGED <<tokenFor, enrolled, credentialVars, handlerVars, connVars, clientVars, bounds>>

TokenValid(t, d) == tokenState[t] = "live" /\ tokenFor[t] \in {Anyone, d}

\* A client without a password posts a claim; the token is looked up.
ClaimToken(r, d, t) ==
    /\ pass[d] = None /\ claiming[d] = Nobody
    /\ pc[r] = "idle"
    /\ TokenValid(t, d)
    /\ claiming' = [claiming EXCEPT ![d] = r]
    /\ Goto(r, "claimLookup")
    /\ dev' = [dev EXCEPT ![r] = d]
    /\ tok' = [tok EXCEPT ![r] = t]
    /\ UNCHANGED <<tokenVars, credentialVars, secret, connVars, pass, oldPass, link, clientPc,
                   adopting, bounds>>

Refused(r) ==
    /\ Goto(r, "idle")
    /\ claiming' = [d \in Device |-> IF claiming[d] = r THEN Nobody ELSE claiming[d]]

\* The device must have no credentials yet; the new password is hashed.
ClaimLookup(r) ==
    /\ pc[r] = "claimLookup"
    /\ \/ /\ hash[dev[r]] = None
          /\ NewSecret(r)
          /\ Goto(r, "claimCommit")
          /\ UNCHANGED <<claiming, pending, hash>>
       \/ /\ hash[dev[r]] # None
          /\ Refused(r)
          /\ UNCHANGED <<credentialVars, secret>>
    /\ UNCHANGED <<tokenVars, dev, tok, connVars, pass, oldPass, link, clientPc, adopting, bounds>>

\* MUTANT of ClaimCommit: the token is deleted although the insert fails.
ClaimCommitApart(r) ==
    LET d == dev[r] t == tok[r] IN
    /\ pc[r] = "claimCommit"
    /\ tokenState' = IF TokenValid(t, d) THEN [tokenState EXCEPT ![t] = "spent"] ELSE tokenState
    /\ IF TokenValid(t, d) /\ hash[d] = None
       THEN /\ hash' = [hash EXCEPT ![d] = secret[r]]
            /\ enrolled' = [enrolled EXCEPT ![t] = @ \cup {d}]
            /\ Goto(r, "claimReply")
            /\ UNCHANGED claiming
       ELSE Refused(r) /\ UNCHANGED <<hash, enrolled>>
    /\ UNCHANGED <<tokenFor, pending, minted, dev, tok, secret, connVars, pass, oldPass, link,
                   clientPc, adopting, bounds>>

\* The transaction: spend the token and insert the credentials, both or neither.
\* Its row in the table devices is a step of Fleet (Claim).
ClaimCommit(r) ==
    LET d == dev[r] t == tok[r] IN
    /\ pc[r] = "claimCommit"
    /\ \/ /\ TokenValid(t, d) /\ hash[d] = None
          /\ tokenState' = [tokenState EXCEPT ![t] = "spent"]
          /\ hash' = [hash EXCEPT ![d] = secret[r]]
          /\ enrolled' = [enrolled EXCEPT ![t] = @ \cup {d}]
          /\ Goto(r, "claimReply")
          /\ UNCHANGED claiming
       \/ /\ ~TokenValid(t, d) \/ hash[d] # None
          /\ Refused(r)
          /\ UNCHANGED <<tokenState, hash, enrolled>>
    /\ UNCHANGED <<tokenFor, pending, minted, dev, tok, secret, connVars, pass, oldPass, link,
                   clientPc, adopting, bounds>>

\* The reply reaches the client if it still waits for it.
ClaimReply(r) ==
    /\ pc[r] = "claimReply"
    /\ pass' = [d \in Device |-> IF claiming[d] = r THEN secret[r] ELSE pass[d]]
    /\ Refused(r)
    /\ UNCHANGED <<tokenVars, credentialVars, dev, tok, secret, connVars, oldPass, link,
                   clientPc, adopting, bounds>>

\* The client's request times out; it will try again.
GiveUpClaim(d) ==
    /\ claiming[d] # Nobody
    /\ claiming' = [claiming EXCEPT ![d] = Nobody]
    /\ UNCHANGED <<tokenVars, credentialVars, handlerVars, connVars, pass, oldPass, link,
                   clientPc, adopting, bounds>>

-----------------------------------------------------------------------------
(* Rotate and Revoke *)

RotateLookup(r, d) ==
    /\ pc[r] = "idle"
    /\ hash[d] # None
    /\ NewSecret(r)
    /\ Goto(r, "rotateSet")
    /\ dev' = [dev EXCEPT ![r] = d]
    /\ UNCHANGED <<tokenVars, hash, pending, tok, connVars, clientVars, bounds>>

\* MUTANT of CanSetPending: a row is made for a device revoked in the meantime.
CanSetPendingRevoked(d) == pending[d] = None

CanSetPending(d) == hash[d] # None /\ pending[d] = None

\* MUTANT of RotateSet: the new password takes effect at once.
RotateSetAtOnce(r) ==
    /\ pc[r] = "rotateSet"
    /\ hash' = [hash EXCEPT ![dev[r]] = secret[r]]
    /\ Goto(r, "rotateSend")
    /\ UNCHANGED <<tokenVars, pending, minted, dev, tok, secret, connVars, clientVars, bounds>>

\* SetPendingHash; a rotation already pending is not replaced.
RotateSet(r) ==
    /\ pc[r] = "rotateSet"
    /\ IF CanSetPending(dev[r])
       THEN pending' = [pending EXCEPT ![dev[r]] = secret[r]] /\ Goto(r, "rotateSend")
       ELSE Goto(r, "idle") /\ UNCHANGED pending
    /\ UNCHANGED <<tokenVars, hash, minted, dev, tok, secret, connVars, clientVars, bounds>>

\* The new password goes to the device if it is online, else only to the operator.
RotateSend(r) ==
    /\ pc[r] = "rotateSend"
    /\ box' = [c \in Connection |-> IF c \in Live(dev[r]) THEN secret[r] ELSE box[c]]
    /\ Goto(r, "idle")
    /\ UNCHANGED <<tokenVars, credentialVars, dev, tok, secret, connPc, connDev, password,
                   snapHash, snapPending, clientVars, bounds>>

RevokeRow(r, d) ==
    /\ pc[r] = "idle"
    /\ revokes < MaxRevokes
    /\ hash[d] # None
    /\ hash' = [hash EXCEPT ![d] = None]
    /\ pending' = [pending EXCEPT ![d] = None]
    /\ dev' = [dev EXCEPT ![r] = d]
    /\ Goto(r, "revokeKick")
    /\ revokes' = revokes + 1
    /\ UNCHANGED <<tokenVars, minted, tok, secret, connVars, clientVars, faults>>

\* ... then the session of the device, if the broker has one, is ended.
RevokeKick(r) ==
    /\ pc[r] = "revokeKick"
    /\ Close(Live(dev[r]))
    /\ link' = [link EXCEPT ![dev[r]] = IF @ \in Live(dev[r]) THEN Nobody ELSE @]
    /\ Goto(r, "idle")
    /\ UNCHANGED <<tokenVars, credentialVars, dev, tok, secret, connDev, password, snapHash,
                   snapPending, claiming, pass, oldPass, clientPc, adopting, bounds>>

Handle(r) == \/ ClaimLookup(r) \/ ClaimCommit(r) \/ ClaimReply(r)
             \/ RotateSet(r) \/ RotateSend(r) \/ RevokeKick(r)

-----------------------------------------------------------------------------
(* Connections *)

Connect(c, d) ==
    /\ link[d] = Nobody /\ clientPc[d] = "run" /\ pass[d] # None
    /\ connPc[c] = "idle"
    /\ GotoConn(c, "read")
    /\ connDev' = [connDev EXCEPT ![c] = d]
    /\ password' = [password EXCEPT ![c] = pass[d]]
    /\ link' = [link EXCEPT ![d] = c]
    /\ UNCHANGED <<tokenVars, credentialVars, handlerVars, snapHash, snapPending, box, claiming,
                   pass, oldPass, clientPc, adopting, bounds>>

\* The refusal reaches the client: if it has a password to fall back on it does.
Refuse(c) ==
    LET d == connDev[c] hears == link[d] = c IN
    /\ GotoConn(c, "idle")
    /\ link' = IF hears THEN [link EXCEPT ![d] = Nobody] ELSE link
    /\ IF hears /\ oldPass[d] # None
       THEN /\ pass' = [pass EXCEPT ![d] = oldPass[d]]
            /\ clientPc' = [clientPc EXCEPT ![d] = "fallBack"]
       ELSE UNCHANGED <<pass, clientPc>>
    /\ UNCHANGED <<connDev, password, snapHash, snapPending, box, claiming, oldPass, adopting>>

\* Authenticate reads the credentials ...
AuthRead(c) ==
    LET d == connDev[c] IN
    /\ connPc[c] = "read"
    /\ \/ /\ hash[d] # None
          /\ snapHash' = [snapHash EXCEPT ![c] = hash[d]]
          /\ snapPending' = [snapPending EXCEPT ![c] = pending[d]]
          /\ GotoConn(c, "compare")
          /\ UNCHANGED <<connDev, password, box, clientVars, bounds>>
       \/ hash[d] = None /\ Refuse(c) /\ UNCHANGED bounds
       \/ Fault /\ Refuse(c)
    /\ UNCHANGED <<tokenVars, credentialVars, handlerVars>>

\* ... compares them with the password, which takes its time ...
AuthCompare(c) ==
    /\ connPc[c] = "compare"
    /\ \/ /\ password[c] = snapHash[c]
          /\ GotoConn(c, "admit")
          /\ UNCHANGED <<connDev, password, snapHash, snapPending, box, clientVars>>
       \/ /\ password[c] # snapHash[c] /\ password[c] = snapPending[c]
          /\ GotoConn(c, "promote")
          /\ UNCHANGED <<connDev, password, snapHash, snapPending, box, clientVars>>
       \/ password[c] \notin {snapHash[c], snapPending[c]} /\ Refuse(c)
    /\ UNCHANGED <<tokenVars, credentialVars, handlerVars, bounds>>

\* MUTANT of AuthPromote: the pending password is accepted but not promoted.
AuthPromoteForgotten(c) ==
    /\ connPc[c] = "promote"
    /\ pending' = [pending EXCEPT ![connDev[c]] = None]
    /\ GotoConn(c, "admit")
    /\ UNCHANGED <<tokenVars, hash, minted, handlerVars, connDev, password, snapHash,
                   snapPending, box, clientVars, bounds>>

\* ... and promotes whatever is pending by now.
AuthPromote(c) ==
    LET d == connDev[c] IN
    /\ connPc[c] = "promote"
    /\ \/ /\ pending[d] # None
          /\ hash' = [hash EXCEPT ![d] = pending[d]]
          /\ pending' = [pending EXCEPT ![d] = None]
          /\ GotoConn(c, "admit")
          /\ UNCHANGED <<connDev, password, snapHash, snapPending, box, clientVars, bounds>>
       \/ /\ pending[d] = None
          /\ GotoConn(c, "admit")
          /\ UNCHANGED <<hash, pending, connDev, password, snapHash, snapPending, box,
                         clientVars, bounds>>
       \/ Fault /\ Refuse(c) /\ UNCHANGED <<hash, pending>>
    /\ UNCHANGED <<tokenVars, minted, handlerVars>>

\* The session is established, taking over an older one of the same device, whose
\* client sees it closed. A client that hears of its session forgets the password
\* it kept to fall back on.
Admit(c) ==
    LET d == connDev[c] IN
    /\ connPc[c] = "admit"
    /\ connPc' = [b \in Connection |-> IF b = c THEN "live"
                                       ELSE IF b \in Live(d) THEN "idle" ELSE connPc[b]]
    /\ box' = [b \in Connection |-> IF b \in Live(d) THEN None ELSE box[b]]
    /\ link' = [link EXCEPT ![d] = IF @ \in Live(d) THEN Nobody ELSE @]
    /\ oldPass' = IF link[d] = c THEN [oldPass EXCEPT ![d] = None] ELSE oldPass
    /\ UNCHANGED <<tokenVars, credentialVars, handlerVars, connDev, password, snapHash,
                   snapPending, claiming, pass, clientPc, adopting, bounds>>

\* The broker notices that the client is gone.
CloseDead(c) ==
    /\ connPc[c] = "live"
    /\ link[connDev[c]] # c
    /\ Close({c})
    /\ UNCHANGED <<tokenVars, credentialVars, handlerVars, connDev, password, snapHash,
                   snapPending, clientVars, bounds>>

Serve(c) == AuthRead(c) \/ AuthCompare(c) \/ AuthPromote(c) \/ Admit(c) \/ CloseDead(c)

-----------------------------------------------------------------------------
(* The client *)

\* handle_cmd_cred keeps the working password ...
KeepOld(d) ==
    LET c == link[d] IN
    /\ c # Nobody /\ clientPc[d] = "run"
    /\ connPc[c] = "live" /\ box[c] # None
    /\ oldPass' = [oldPass EXCEPT ![d] = pass[d]]
    /\ adopting' = [adopting EXCEPT ![d] = box[c]]
    /\ box' = [box EXCEPT ![c] = None]
    /\ clientPc' = [clientPc EXCEPT ![d] = "adopt"]
    /\ UNCHANGED <<tokenVars, credentialVars, handlerVars, connPc, connDev, password, snapHash,
                   snapPending, claiming, pass, link, bounds>>

\* ... stores the new one and restarts.
Adopt(d) ==
    /\ clientPc[d] = "adopt"
    /\ pass' = [pass EXCEPT ![d] = adopting[d]]
    /\ adopting' = [adopting EXCEPT ![d] = None]
    /\ clientPc' = [clientPc EXCEPT ![d] = "run"]
    /\ link' = [link EXCEPT ![d] = Nobody]
    /\ UNCHANGED <<tokenVars, credentialVars, handlerVars, connVars, claiming, oldPass, bounds>>

\* After falling back (Refuse) the kept password is cleared.
ClearOld(d) ==
    /\ clientPc[d] = "fallBack"
    /\ oldPass' = [oldPass EXCEPT ![d] = None]
    /\ clientPc' = [clientPc EXCEPT ![d] = "run"]
    /\ UNCHANGED <<tokenVars, credentialVars, handlerVars, connVars, claiming, pass, link,
                   adopting, bounds>>

\* The client loses its connection, or is reset in the middle of a handler.
Drop(d) ==
    /\ link[d] # Nobody \/ clientPc[d] # "run"
    /\ link' = [link EXCEPT ![d] = Nobody]
    /\ clientPc' = [clientPc EXCEPT ![d] = "run"]
    /\ adopting' = [adopting EXCEPT ![d] = None]
    /\ UNCHANGED <<tokenVars, credentialVars, handlerVars, connVars, claiming, pass, oldPass,
                   bounds>>

\* The device is set up anew over serial, which clears its credentials, enrolled
\* or not. Until it is revoked it cannot claim others. The clearing is one step: a
\* client without a password does not look at the kept one.
Reprovision(d) ==
    /\ pass[d] # None
    /\ pass' = [pass EXCEPT ![d] = None]
    /\ oldPass' = [oldPass EXCEPT ![d] = None]
    /\ link' = [link EXCEPT ![d] = Nobody]
    /\ clientPc' = [clientPc EXCEPT ![d] = "run"]
    /\ adopting' = [adopting EXCEPT ![d] = None]
    /\ UNCHANGED <<tokenVars, credentialVars, handlerVars, connVars, claiming, bounds>>

\* The server stops and starts again: handlers and connections are gone.
ServerRestart ==
    /\ pc' = [r \in Handler |-> "idle"]
    /\ Close(Connection)
    /\ claiming' = [d \in Device |-> Nobody]
    /\ link' = [d \in Device |-> Nobody]
    /\ UNCHANGED <<tokenVars, credentialVars, dev, tok, secret, connDev, password, snapHash,
                   snapPending, pass, oldPass, clientPc, adopting, bounds>>

-----------------------------------------------------------------------------
Init ==
    /\ tokenState = [t \in Token |-> "unissued"] /\ tokenFor = [t \in Token |-> Nobody]
    /\ enrolled = [t \in Token |-> {}]
    /\ hash = [d \in Device |-> None] /\ pending = [d \in Device |-> None] /\ minted = 0
    /\ pc = [r \in Handler |-> "idle"] /\ dev = [r \in Handler |-> Nobody]
    /\ tok = [r \in Handler |-> Nobody] /\ secret = [r \in Handler |-> None]
    /\ connPc = [c \in Connection |-> "idle"] /\ connDev = [c \in Connection |-> Nobody]
    /\ password = [c \in Connection |-> None] /\ box = [c \in Connection |-> None]
    /\ snapHash = [c \in Connection |-> None] /\ snapPending = [c \in Connection |-> None]
    /\ claiming = [d \in Device |-> Nobody]
    /\ pass = [d \in Device |-> None] /\ oldPass = [d \in Device |-> None]
    /\ link = [d \in Device |-> Nobody] /\ clientPc = [d \in Device |-> "run"]
    /\ adopting = [d \in Device |-> None]
    /\ revokes = 0 /\ faults = 0

Next ==
    \/ \E t \in Token : Expire(t) \/ \E d \in Device \cup {Anyone} : Mint(t, d)
    \/ \E r \in Handler : \/ Handle(r)
                          \/ \E d \in Device : \/ RotateLookup(r, d) \/ RevokeRow(r, d)
                                               \/ \E t \in Token : ClaimToken(r, d, t)
    \/ \E c \in Connection : Serve(c) \/ \E d \in Device : Connect(c, d)
    \/ \E d \in Device : \/ GiveUpClaim(d) \/ KeepOld(d) \/ Adopt(d) \/ ClearOld(d)
                         \/ Drop(d) \/ Reprovision(d)
    \/ ServerRestart

Spec == Init /\ [][Next]_vars

\* The broker and the client run; the client reconnects for ever.
Fairness ==
    /\ \A c \in Connection : WF_vars(Serve(c))
    /\ \A d \in Device : /\ WF_vars(\E c \in Connection : Connect(c, d))
                         /\ WF_vars(Adopt(d)) /\ WF_vars(ClearOld(d))

FairSpec == Spec /\ Fairness

-----------------------------------------------------------------------------
TypeOK ==
    /\ tokenState \in [Token -> {"unissued", "live", "spent", "expired"}]
    /\ tokenFor \in [Token -> Device \cup {Anyone, Nobody}]
    /\ enrolled \in [Token -> SUBSET Device]
    /\ hash \in [Device -> Secret \cup {None}]
    /\ pending \in [Device -> Secret \cup {None}]
    /\ minted \in 0..MaxSecrets
    /\ pc \in [Handler -> {"idle", "claimLookup", "claimCommit", "claimReply", "rotateSet",
                          "rotateSend", "revokeKick"}]
    /\ dev \in [Handler -> Device \cup {Nobody}]
    /\ tok \in [Handler -> Token \cup {Nobody}]
    /\ secret \in [Handler -> Secret \cup {None}]
    /\ connPc \in [Connection -> {"idle", "read", "compare", "promote", "admit", "live"}]
    /\ connDev \in [Connection -> Device \cup {Nobody}]
    /\ password \in [Connection -> Secret \cup {None}]
    /\ snapHash \in [Connection -> Secret \cup {None}]
    /\ snapPending \in [Connection -> Secret \cup {None}]
    /\ box \in [Connection -> Secret \cup {None}]
    /\ claiming \in [Device -> Handler \cup {Nobody}]
    /\ pass \in [Device -> Secret \cup {None}]
    /\ oldPass \in [Device -> Secret \cup {None}]
    /\ link \in [Device -> Connection \cup {Nobody}]
    /\ clientPc \in [Device -> {"run", "adopt", "fallBack"}]
    /\ adopting \in [Device -> Secret \cup {None}]
    /\ \A d \in Device : pending[d] # None => hash[d] # None
    /\ revokes \in 0..MaxRevokes
    /\ faults \in 0..MaxFaults

-----------------------------------------------------------------------------
(* Safety *)

\* A claim token buys one enrollment, of a device it was minted for: two claims
\* with one token, or of one device with two tokens, cannot both go through, and
\* a token is never spent for nothing.
TokensBuyOneEnrollment ==
    \A t \in Token : /\ Cardinality(enrolled[t]) <= 1
                     /\ tokenState[t] = "spent" <=> enrolled[t] # {}
                     /\ \A d \in enrolled[t] : tokenFor[t] \in {Anyone, d}

\* "a device that misses the rotation is never locked out": of the passwords an
\* enrolled device has in flash one is good for the server, wherever between the
\* two the rotation was interrupted, by restarts of the server too - as long as no
\* failing statement of the server is taken for a refusal (faults).
NeverLockedOut ==
    \A d \in Device : hash[d] # None /\ pass[d] # None /\ faults = 0 =>
        {pass[d], oldPass[d]} \cap ({hash[d], pending[d]} \ {None}) # {}

\* A password replaces the current one only if a device has used it: the new one
\* is the one the promoting connection was opened with.
CurrentStaysUntilProved ==
    [][\A d \in Device : hash[d] # None /\ hash'[d] \notin {hash[d], None} =>
           \E c \in Connection : connDev[c] = d /\ password[c] = hash'[d]]_vars

-----------------------------------------------------------------------------
(* Liveness *)

Enrolled(d) == hash[d] # None /\ pass[d] # None

\* A device that has claimed its credentials, and keeps them, gets a session again
\* and again, across rotations that reach it or do not, unless it is reset or cut
\* off for ever, the server restarts for ever, or a statement fails.
DeviceComesBack ==
    \A d \in Device :
        \/ []<><<Drop(d) \/ ServerRestart>>_vars
        \/ Enrolled(d) /\ faults = 0 ~> Live(d) # {} \/ ~Enrolled(d) \/ faults > 0
=============================================================================
